-------------------------------- MODULE Session --------------------------------
(****************************************************************************)
(* A network game: the client library (libnethack_client: connection.c,     *)
(* clientapi.c, netcmd.c), the server process that nethack_server forks for *)
(* every connection (server.c, clientmain.c, clientcmd.c, winprocs.c,       *)
(* miscsetup.c), and the connection between them.                           *)
(*                                                                          *)
(* The two ends take turns: a command goes to the server, which answers it, *)
(* possibly after asking the client something first (a request of the       *)
(* running game), during which the client may send a command of its own.    *)
(* Out of turn come only the server_cancel messages, sent by a signal       *)
(* handler, and the last message of a process that gives up.  A connection  *)
(* may break at any time; the client then opens another one, which a new    *)
(* process serves while the old one may still be reading what had arrived.  *)
(* The library leaves its nested calls with longjmp: to the play_game call  *)
(* (playgame_jmp_buf) or to the outermost API call (ex_jmp_buf).            *)
(****************************************************************************)
EXTENDS Integers, Sequences, FiniteSets

CONSTANTS
  MaxConns,     \* connections that are ever accepted
  MaxPrompts,   \* requests that games ever send
  MaxCommands,  \* commands that the user ever gives
  MaxCancels,   \* monitor signals that ever reach a server process
  MaxTerms,     \* SIGTERMs that ever reach a server process
  Retries       \* retry_count of send_receive_msg

ASSUME BoundsAssumption ==
  /\ MaxConns \in Nat \ {0}
  /\ {MaxPrompts, MaxCommands, MaxCancels, MaxTerms, Retries} \subseteq Nat

Conns == 1..MaxConns

\* The commands, by where the client gives them: at a menu of its own, or
\* while its user is working out the answer to a request of the game.
MenuCommands  == {"create_game", "play_game"}
AsyncCommands == {"describe_pos", "exit_game"}

NoMsg    == [t |-> "none"]
Cancel   == [t |-> "server_cancel"]
Progress == [t |-> "load_progress"]
Shutdown == [t |-> "command", cmd |-> "shutdown"]
Command(call)  == [t |-> "command", cmd |-> call.cmd]
Answer(n)      == [t |-> "answer", n |-> n]
Request(n)     == [t |-> "request", n |-> n]
Reply(cmd)     == [t |-> "reply", cmd |-> cmd]
ServerError(e) == [t |-> "server_error", error |-> e]

VARIABLES
  \* The client library.
  calls,            \* its active send_receive_msg calls, the outermost first
  cpc,              \* what the innermost of them, or the user, is doing
  sockfd,           \* the connection it uses, 0 for none
  conn_err, net_active,
  ex_jmp_buf_valid, \* api_entry() counts it up, api_exit() down
  exFrame,          \* the call whose api_entry() did the setjmp, 0 once it is left
  playgame_jmp_buf_valid,
  pgFrame,          \* the call playgame_jmp_buf was set in, 0 once it is left
  signalled,        \* the user interface has a server cancel to deal with
  \* The server process of each connection.
  spc,              \* what it is doing
  out,              \* the message that client_msg sends
  after,            \* what the process does once it is sent
  asked,            \* the request of its game that is unanswered, or 0
  playing,          \* program_state.game_running
  can_send_msg, currently_sending_message, send_server_cancel,
  termination_flag, \* 0, 1 (SIGTERM) or 3
  fdsOpen,          \* infd and outfd are open
  \* The connections: what is on the way, and whether both ends are there.
  c2s, s2c, up,
  \* What happened, for the properties.
  stale,            \* per process, the request a monitor signal found unanswered
  \* What the bounds count.
  ncalls, nprompts, ncancels, nterms

exits   == <<ex_jmp_buf_valid, exFrame, playgame_jmp_buf_valid, pgFrame>>
client  == <<calls, cpc, exits, sockfd, conn_err, net_active, signalled>>
sending == <<can_send_msg, currently_sending_message, send_server_cancel>>
server  == <<spc, out, after, asked, playing, sending, termination_flag, fdsOpen>>
links   == <<c2s, s2c, up>>
counts  == <<ncalls, nprompts, ncancels, nterms>>
vars    == <<client, server, links, stale, counts>>

Init ==
  /\ calls = <<>> /\ cpc = "menu" /\ signalled = FALSE
  /\ sockfd = 0 /\ conn_err = FALSE /\ net_active = FALSE
  /\ ex_jmp_buf_valid = 0 /\ exFrame = 0
  /\ playgame_jmp_buf_valid = FALSE /\ pgFrame = 0
  /\ spc = [c \in Conns |-> "none"]
  /\ out = [c \in Conns |-> NoMsg] /\ after = [c \in Conns |-> "main"]
  /\ asked = [c \in Conns |-> 0] /\ playing = [c \in Conns |-> FALSE]
  /\ can_send_msg = [c \in Conns |-> FALSE]
  /\ currently_sending_message = [c \in Conns |-> FALSE]
  /\ send_server_cancel = [c \in Conns |-> FALSE]
  /\ termination_flag = [c \in Conns |-> 0]
  /\ fdsOpen = [c \in Conns |-> FALSE]
  /\ c2s = [c \in Conns |-> <<>>] /\ s2c = [c \in Conns |-> <<>>]
  /\ up = [c \in Conns |-> FALSE]
  /\ stale = [c \in Conns |-> 0]
  /\ ncalls = 0 /\ nprompts = 0 /\ ncancels = 0 /\ nterms = 0

--------------------------------------------------------------------------------
(****************************************************************************)
(* The client library: leaving calls.  A call is a record of its command,   *)
(* the retries it has left, and what it sends: its command, or the answer   *)
(* to a request that came instead of the reply.                             *)
(****************************************************************************)

Top == calls[Len(calls)]

\* Where the program is when d calls are left: its user is answering a request
\* of the game, or is at a menu.
At(d) == IF d = 0 THEN "menu" ELSE "asked"

\* The calls from d on are left; a jmp_buf set in one of them is dead then.
LeaveFrom(d) ==
  /\ calls' = SubSeq(calls, 1, d - 1)
  /\ cpc' = At(d - 1)
  /\ exFrame' = IF exFrame >= d THEN 0 ELSE exFrame
  /\ pgFrame' = IF pgFrame >= d THEN 0 ELSE pgFrame

\* A longjmp to a function that returned: undefined; the client ends here.
JumpNowhere ==
  /\ calls' = <<>> /\ cpc' = "undefined"
  /\ exFrame' = 0 /\ pgFrame' = 0

\* The API function of the call d returns with api_exit().
Return(d) ==
  /\ LeaveFrom(d)
  /\ ex_jmp_buf_valid' = ex_jmp_buf_valid - 1

\* longjmp(ex_jmp_buf): the API function returns without api_exit().
JumpToApi ==
  /\ IF exFrame = 0 THEN JumpNowhere ELSE LeaveFrom(exFrame)
  /\ UNCHANGED ex_jmp_buf_valid

\* The first response to a play_game command sets playgame_jmp_buf before it is
\* looked at; until then, and in every other call, it is what it was.
SetsJump == Top.cmd = "play_game" /\ Top.msg = NoMsg
Jump     == [valid |-> playgame_jmp_buf_valid, frame |-> pgFrame]
JumpHere == IF SetsJump THEN [valid |-> TRUE, frame |-> Len(calls)] ELSE Jump

\* longjmp(playgame_jmp_buf): the play_game call returns.
JumpToPlayGame(frame) ==
  /\ IF frame = 0 THEN JumpNowhere /\ UNCHANGED ex_jmp_buf_valid
                  ELSE Return(frame)
  /\ playgame_jmp_buf_valid' = FALSE

\* The label error of send_receive_msg.
GiveUp ==
  /\ conn_err' = TRUE
  /\ playgame_jmp_buf_valid' = FALSE
  /\ IF ex_jmp_buf_valid > 0
     THEN JumpToApi
     ELSE UNCHANGED <<calls, cpc, ex_jmp_buf_valid, exFrame, pgFrame>>

--------------------------------------------------------------------------------
(****************************************************************************)
(* The client library: connecting.  do_connect, the forking of the server   *)
(* process and the exchange of the auth command with it are one step; it    *)
(* succeeds, or is refused, or is lost after the connection was made.       *)
(****************************************************************************)

Unused == {c \in Conns : spc[c] = "none"}
NewConn == CHOOSE c \in Unused : \A d \in Unused : c <= d

\* close(sockfd): what is under way to the client is lost, what is under way to
\* the server can still be read there.
Closed(u) == [c \in Conns |-> u[c] /\ c # sockfd]
Unread(q) == [c \in Conns |-> IF c = sockfd THEN <<>> ELSE q[c]]

CloseSocket == up' = Closed(up) /\ s2c' = Unread(s2c) /\ sockfd' = 0

Connected ==
  /\ Unused # {}
  /\ sockfd' = NewConn /\ conn_err' = FALSE /\ net_active' = TRUE
  /\ up' = [Closed(up) EXCEPT ![NewConn] = TRUE] /\ s2c' = Unread(s2c)
  /\ spc' = [spc EXCEPT ![NewConn] = "main"]
  /\ fdsOpen' = [fdsOpen EXCEPT ![NewConn] = TRUE]

\* Mutant of Restart: the call goes on with the new connection, in a game too.
Restart_NoJump(jump, Go, No) ==
  /\ \/ Connected /\ Go
     \/ CloseSocket /\ net_active' = FALSE /\ No /\ UNCHANGED <<spc, fdsOpen>>
  /\ UNCHANGED <<signalled, out, after, asked, playing, sending,
                 termination_flag, c2s, stale, counts>>

\* restart_connection: a new connection takes the program back to play_game if
\* it is in a game; otherwise Go is what follows.  No is what follows a refusal.
\* A connection lost while authenticating ends the inner send_receive_msg call,
\* and with it the API call.
Restart(jump, Go, No) ==
  /\ \/ Connected /\ IF jump.valid THEN JumpToPlayGame(jump.frame) ELSE Go
     \/ CloseSocket /\ net_active' = FALSE /\ No /\ UNCHANGED <<spc, fdsOpen>>
     \/ /\ CloseSocket /\ GiveUp
        /\ net_active' = (net_active /\ ex_jmp_buf_valid > 0)
        /\ UNCHANGED <<spc, fdsOpen>>
  /\ UNCHANGED <<signalled, out, after, asked, playing, sending,
                 termination_flag, c2s, stale, counts>>

\* nhnet_connect, from the menus.
Connect ==
  /\ cpc = "menu" /\ sockfd = 0 /\ ~conn_err
  /\ Restart(Jump, UNCHANGED <<calls, cpc, exits>>,
             UNCHANGED <<calls, cpc, exits, conn_err>>)

\* nhnet_disconnect: the shutdown command is sent and, answered or not, the
\* connection closed; an error on the way jumps like any other.
Disconnect ==
  /\ cpc = "menu"
  /\ net_active \/ conn_err
  /\ CloseSocket /\ net_active' = FALSE /\ conn_err' = FALSE
  /\ IF sockfd # 0 /\ up[sockfd]
     THEN c2s' = [c2s EXCEPT ![sockfd] = Append(@, Shutdown)]
     ELSE UNCHANGED c2s
  /\ \/ UNCHANGED <<calls, cpc, exits>>
     \/ /\ sockfd # 0 /\ ex_jmp_buf_valid > 0
        /\ JumpToApi /\ UNCHANGED playgame_jmp_buf_valid
  /\ UNCHANGED <<signalled, server, stale, counts>>

--------------------------------------------------------------------------------
(****************************************************************************)
(* The client library: send_receive_msg.                                    *)
(****************************************************************************)

\* An API function is called: api_entry(), and the first lines of
\* send_receive_msg.  Its test_restore_connection never has to connect, for there
\* is a socket (TypeOK).  (The user interface ignores a cancel outside a game.)
Call(cmd) ==
  /\ ncalls < MaxCommands
  /\ IF cpc = "menu" THEN cmd \in MenuCommands /\ net_active
                     ELSE cpc = "asked" /\ cmd \in AsyncCommands
  /\ ~conn_err
  /\ ncalls' = ncalls + 1
  /\ calls' = Append(calls, [cmd |-> cmd, tries |-> Retries, msg |-> NoMsg])
  /\ cpc' = "send"
  /\ ex_jmp_buf_valid' = ex_jmp_buf_valid + 1
  /\ exFrame' = IF ex_jmp_buf_valid = 0 THEN Len(calls) + 1 ELSE exFrame
  /\ signalled' = (signalled /\ cpc = "asked")
  /\ UNCHANGED <<playgame_jmp_buf_valid, pgFrame, sockfd, conn_err, net_active,
                 server, links, stale, nprompts, ncancels, nterms>>

\* The command, or the answer that took its place, is sent.  On a connection
\* that is gone it is lost, with or without an error.
Send ==
  /\ cpc = "send"
  /\ LET m == IF Top.msg = NoMsg THEN Command(Top) ELSE Top.msg
     IN  IF up[sockfd]
         THEN cpc' = "wait" /\ c2s' = [c2s EXCEPT ![sockfd] = Append(@, m)]
         ELSE cpc' \in {"wait", "retry"} /\ UNCHANGED c2s
  /\ UNCHANGED <<calls, exits, sockfd, conn_err, net_active, signalled,
                 server, s2c, up, stale, counts>>

\* Mutant of NoResponse: the end of the connection does not end the wait.
NoResponse_Timeout ==
  /\ cpc = "wait" /\ s2c[sockfd] = <<>> /\ up[sockfd]
  /\ cpc' = "retry"
  /\ UNCHANGED <<calls, exits, sockfd, conn_err, net_active, signalled,
                 server, links, stale, counts>>

\* No message comes: the connection is gone, or ten seconds have passed.
NoResponse ==
  /\ cpc = "wait" /\ s2c[sockfd] = <<>>
  /\ cpc' = "retry"
  /\ UNCHANGED <<calls, exits, sockfd, conn_err, net_active, signalled,
                 server, links, stale, counts>>

\* retry_count-- > 0 && restart_connection(), then the message is sent again.
Retry ==
  /\ cpc = "retry"
  /\ IF Top.tries = 0
     THEN /\ CloseSocket /\ GiveUp
          /\ UNCHANGED <<net_active, signalled, server, c2s, stale, counts>>
     ELSE Restart(Jump,
                  /\ calls' = [calls EXCEPT ![Len(calls)].tries = @ - 1]
                  /\ cpc' = "send" /\ UNCHANGED exits,
                  GiveUp)

Arrives(t) == s2c[sockfd] # <<>> /\ Head(s2c[sockfd]).t = t
Take == s2c' = [s2c EXCEPT ![sockfd] = Tail(@)]

\* server_cancel and load_progress: no response, and the wait goes on.
ReceiveAside ==
  /\ cpc = "wait"
  /\ Arrives("server_cancel") \/ Arrives("load_progress")
  /\ Take
  /\ signalled' = (signalled \/ Arrives("server_cancel"))
  /\ UNCHANGED <<calls, cpc, exits, sockfd, conn_err, net_active,
                 server, c2s, up, stale, counts>>

\* Mutant of ReceiveRequest: playgame_jmp_buf is not set for the request.
ReceiveRequest_NoJump ==
  /\ cpc = "wait" /\ Arrives("request") /\ Take
  /\ calls' = [calls EXCEPT ![Len(calls)].msg = Answer(Head(s2c[sockfd]).n)]
  /\ cpc' = "asked"
  /\ UNCHANGED <<exits, sockfd, conn_err, net_active,
                 signalled, server, c2s, up, stale, counts>>

\* A request of the game: a callback asks the user for the answer.
ReceiveRequest ==
  /\ cpc = "wait" /\ Arrives("request") /\ Take
  /\ calls' = [calls EXCEPT ![Len(calls)].msg = Answer(Head(s2c[sockfd]).n)]
  /\ cpc' = "asked"
  /\ playgame_jmp_buf_valid' = JumpHere.valid /\ pgFrame' = JumpHere.frame
  /\ UNCHANGED <<ex_jmp_buf_valid, exFrame, sockfd, conn_err, net_active,
                 signalled, server, c2s, up, stale, counts>>

\* The reply to the innermost call; or one to play_game, which returns from the
\* play_game call whatever has been called since.
ReceiveReply ==
  /\ cpc = "wait" /\ Arrives("reply") /\ Take
  /\ \/ /\ Head(s2c[sockfd]).cmd = "play_game" /\ JumpHere.valid
        /\ JumpToPlayGame(JumpHere.frame)
     \/ /\ Head(s2c[sockfd]).cmd = Top.cmd /\ Top.cmd # "play_game"
        /\ Return(Len(calls)) /\ UNCHANGED playgame_jmp_buf_valid
  /\ UNCHANGED <<sockfd, conn_err, net_active, signalled, server, c2s, up, stale, counts>>

\* cmd_server_error reconnects; if that leaves it in the call, the call retries.
\* (It would give up if the error were the client's, which it is only in a game,
\* and there the program jumps.)  If it cannot reconnect it disconnects.
ReceiveError ==
  /\ cpc = "wait" /\ Arrives("server_error")
  /\ Restart(JumpHere,
             /\ ~Head(s2c[sockfd]).error
             /\ cpc' = "retry" /\ UNCHANGED <<calls, exits>>,
             /\ conn_err' = FALSE
             /\ JumpToApi /\ playgame_jmp_buf_valid' = JumpHere.valid)

--------------------------------------------------------------------------------
(****************************************************************************)
(* The client: its user interface while a request of the game is answered.  *)
(****************************************************************************)

\* The user answers the request, or the cancel does it for the user.
Respond(how) ==
  /\ cpc = "asked"
  /\ how = "cancelled" => signalled
  /\ signalled' = (signalled /\ how # "cancelled")
  /\ cpc' = "send"
  /\ UNCHANGED <<calls, exits, sockfd, conn_err, net_active, server, links, stale, counts>>

\* nhnet_check_socket_fd: the socket is readable while the user is thinking.
CheckCancel ==
  /\ cpc \in {"asked", "menu"} /\ sockfd # 0 /\ Arrives("server_cancel") /\ Take
  /\ signalled' = (cpc = "asked")
  /\ UNCHANGED <<calls, cpc, exits, sockfd, conn_err, net_active,
                 server, c2s, up, stale, counts>>

CheckOther ==
  /\ cpc \in {"asked", "menu"} /\ sockfd # 0
  /\ s2c[sockfd] # <<>> /\ ~Arrives("server_cancel") /\ Take
  /\ IF ex_jmp_buf_valid > 0
     THEN playgame_jmp_buf_valid' = FALSE /\ JumpToApi
     ELSE UNCHANGED <<calls, cpc, exits>>
  /\ UNCHANGED <<sockfd, conn_err, net_active, signalled, server, c2s, up, stale, counts>>

CheckLost ==
  /\ cpc \in {"asked", "menu"} /\ sockfd # 0
  /\ s2c[sockfd] = <<>> /\ ~up[sockfd]
  /\ Restart(Jump, UNCHANGED <<calls, cpc, exits>>, GiveUp)

--------------------------------------------------------------------------------
(****************************************************************************)
(* The server process of a connection: sending.                             *)
(****************************************************************************)

\* client_msg: the message m goes out, then the process continues at next.
Say(c, m, next) ==
  /\ out' = [out EXCEPT ![c] = m]
  /\ after' = [after EXCEPT ![c] = next]
  /\ spc' = [spc EXCEPT ![c] = "message"]
  /\ currently_sending_message' = [currently_sending_message EXCEPT ![c] = TRUE]

\* nh_play_game returns, however deep the game was in it, and its status is sent.
GameReturns(c) ==
  /\ playing' = [playing EXCEPT ![c] = FALSE]
  /\ asked' = [asked EXCEPT ![c] = 0] /\ stale' = [stale EXCEPT ![c] = 0]
  /\ Say(c, Reply("play_game"), "update")

ToClient(c, m) == s2c' = [s2c EXCEPT ![c] = IF up[c] THEN Append(@, m) ELSE @]

\* exit_client: the error is told if it is the server's turn, the connection
\* closed, the game left (nh_play_game returns then) or the process ended.
ExitClient(c, turn, error) ==
  /\ IF fdsOpen[c] /\ turn THEN ToClient(c, ServerError(error)) ELSE UNCHANGED s2c
  /\ can_send_msg' = [can_send_msg EXCEPT ![c] = turn /\ ~fdsOpen[c]]
  /\ fdsOpen' = [fdsOpen EXCEPT ![c] = FALSE] /\ up' = [up EXCEPT ![c] = FALSE]
  /\ termination_flag' = [termination_flag EXCEPT ![c] = 3]
  /\ IF playing[c] THEN GameReturns(c)
     ELSE /\ spc' = [spc EXCEPT ![c] = "gone"]
          /\ asked' = [asked EXCEPT ![c] = 0] /\ stale' = [stale EXCEPT ![c] = 0]
          /\ UNCHANGED <<out, after, playing, currently_sending_message>>
  /\ UNCHANGED send_server_cancel

\* client_msg_core up to currently_sending_message = 0.
SendMessage(c) ==
  /\ spc[c] = "message"
  /\ ~can_send_msg[c] \/ fdsOpen[c]
  /\ IF can_send_msg[c] THEN ToClient(c, out[c]) ELSE UNCHANGED s2c
  /\ can_send_msg' = [can_send_msg EXCEPT ![c] = FALSE]
  /\ currently_sending_message' = [currently_sending_message EXCEPT ![c] = FALSE]
  /\ spc' = [spc EXCEPT ![c] = "sent"]
  /\ UNCHANGED <<client, out, after, asked, playing, send_server_cancel,
                 termination_flag, fdsOpen, c2s, up, stale, counts>>

\* The write fails: the descriptors are closed (if they were not already) and
\* the process leaves; it still thinks that it has the turn.
SendFails(c) ==
  /\ spc[c] = "message" /\ can_send_msg[c]
  /\ ~up[c]
  /\ can_send_msg' = can_send_msg
  /\ fdsOpen' = [fdsOpen EXCEPT ![c] = FALSE]
  /\ termination_flag' = [termination_flag EXCEPT ![c] = 3]
  /\ IF playing[c] THEN GameReturns(c)
     ELSE /\ spc' = [spc EXCEPT ![c] = "gone"]
          /\ asked' = [asked EXCEPT ![c] = 0] /\ stale' = [stale EXCEPT ![c] = 0]
          /\ UNCHANGED <<out, after, playing, currently_sending_message>>
  /\ UNCHANGED <<client, send_server_cancel, links, counts>>

\* A cancel that had to wait for the message is sent by the same routine.
DeferredCancel(c) ==
  /\ spc[c] = "sent" /\ send_server_cancel[c]
  /\ spc' = [spc EXCEPT ![c] = "cancel"]
  /\ currently_sending_message' = [currently_sending_message EXCEPT ![c] = TRUE]
  /\ UNCHANGED <<client, out, after, asked, playing, can_send_msg, send_server_cancel,
                 termination_flag, fdsOpen, links, stale, counts>>

SendCancel(c) ==
  /\ spc[c] = "cancel"
  /\ ToClient(c, Cancel)
  /\ currently_sending_message' = [currently_sending_message EXCEPT ![c] = FALSE]
  /\ spc' = [spc EXCEPT ![c] = "cancelled"]
  /\ UNCHANGED <<client, out, after, asked, playing, can_send_msg, send_server_cancel,
                 termination_flag, fdsOpen, c2s, up, stale, counts>>

\* Mutant of MessageDone: a cancel that had to wait is forgotten.
MessageDone_Forgets(c) ==
  /\ spc[c] \in {"sent", "cancelled"}
  /\ send_server_cancel' = [send_server_cancel EXCEPT ![c] = FALSE]
  /\ spc' = [spc EXCEPT ![c] = after[c]]
  /\ UNCHANGED <<client, out, after, asked, playing, can_send_msg,
                 currently_sending_message, termination_flag, fdsOpen,
                 links, stale, counts>>

\* The end of client_msg_core.
MessageDone(c) ==
  /\ \/ spc[c] = "sent" /\ ~send_server_cancel[c] /\ UNCHANGED send_server_cancel
     \/ /\ spc[c] = "cancelled"
        /\ send_server_cancel' = [send_server_cancel EXCEPT ![c] = FALSE]
  /\ spc' = [spc EXCEPT ![c] = after[c]]
  /\ UNCHANGED <<client, out, after, asked, playing, can_send_msg,
                 currently_sending_message, termination_flag, fdsOpen,
                 links, stale, counts>>

--------------------------------------------------------------------------------
(****************************************************************************)
(* The server process: reading (read_input), its command loop, its game.    *)
(****************************************************************************)

Reads(c) == spc[c] \in {"main", "request", "request again"}
Gets(c, t) == Reads(c) /\ termination_flag[c] = 0 /\ c2s[c] # <<>> /\ Head(c2s[c]).t = t
\* Mutant of TakeInput: reading does not give the turn back.
TakeInput_NoTurn(c) ==
  c2s' = [c2s EXCEPT ![c] = Tail(@)] /\ UNCHANGED can_send_msg

TakeInput(c) ==
  /\ c2s' = [c2s EXCEPT ![c] = Tail(@)]
  /\ can_send_msg' = [can_send_msg EXCEPT ![c] = TRUE]

\* client_main_loop and the commands it may call.
MainCommand(c) ==
  /\ spc[c] = "main" /\ Gets(c, "command") /\ TakeInput(c)
  /\ LET cmd == Head(c2s[c]).cmd
     IN  /\ termination_flag' =
              [termination_flag EXCEPT ![c] = IF cmd = "shutdown" THEN 3 ELSE @]
         /\ IF cmd = "play_game"
            THEN /\ playing' = [playing EXCEPT ![c] = TRUE]
                 /\ spc' = [spc EXCEPT ![c] = "game"]
                 /\ UNCHANGED <<out, after, currently_sending_message>>
            ELSE Say(c, Reply(cmd), "main") /\ UNCHANGED playing
  /\ UNCHANGED <<client, asked, send_server_cancel, fdsOpen, s2c, up,
                 stale, counts>>

\* While a request is unanswered a command may come instead (client_request).
AsyncCommand(c) ==
  /\ spc[c] \in {"request", "request again"} /\ Gets(c, "command") /\ TakeInput(c)
  /\ IF Head(c2s[c]).cmd = "exit_game"
     THEN GameReturns(c)
     ELSE /\ Say(c, Reply(Head(c2s[c]).cmd), "request again")
          /\ UNCHANGED <<playing, asked, stale>>
  /\ UNCHANGED <<client, send_server_cancel, termination_flag, fdsOpen, s2c, up,
                 counts>>

\* The answer to the request, which the game goes on with.
TakeAnswer(c) ==
  /\ spc[c] \in {"request", "request again"} /\ Gets(c, "answer") /\ TakeInput(c)
  /\ asked' = [asked EXCEPT ![c] = 0] /\ stale' = [stale EXCEPT ![c] = 0]
  /\ spc' = [spc EXCEPT ![c] = "game"]
  /\ UNCHANGED <<client, out, after, playing, currently_sending_message,
                 send_server_cancel, termination_flag, fdsOpen, s2c, up, counts>>

\* Mutant of InputLost: the end of the input is only looked for outside games.
InputLost_AtMenu(c) ==
  /\ spc[c] = "main" /\ c2s[c] = <<>> /\ ~up[c] /\ termination_flag[c] = 0
  /\ ExitClient(c, can_send_msg[c], TRUE)
  /\ UNCHANGED <<client, c2s, counts>>

\* Nothing comes: the connection is gone, or nothing came for a long time.
InputLost(c) ==
  /\ Reads(c) /\ c2s[c] = <<>> /\ ~up[c] /\ termination_flag[c] = 0
  /\ ExitClient(c, can_send_msg[c], TRUE)
  /\ UNCHANGED <<client, c2s, counts>>

InactivityTimeout(c) ==
  /\ Reads(c) /\ c2s[c] = <<>> /\ up[c] /\ termination_flag[c] = 0
  /\ ExitClient(c, can_send_msg[c], TRUE)
  /\ UNCHANGED <<client, c2s, counts>>

\* read_input returns nothing once the process was told to terminate, and takes
\* that for the client's turn being over.  The command loop ends; a request
\* fails, and the second reading of a request follows a null pointer, which
\* ends the process without leaving the game.
Terminated(c) ==
  /\ Reads(c) /\ termination_flag[c] # 0
  /\ \E turn \in IF termination_flag[c] = 3 THEN {can_send_msg[c]}
                 ELSE IF spc[c] = "main" THEN {TRUE, can_send_msg[c]} ELSE {TRUE} :
       IF spc[c] = "request again"
       THEN /\ ToClient(c, ServerError(TRUE))
            /\ fdsOpen' = [fdsOpen EXCEPT ![c] = FALSE]
            /\ up' = [up EXCEPT ![c] = FALSE]
            /\ spc' = [spc EXCEPT ![c] = "gone"]
            /\ asked' = [asked EXCEPT ![c] = 0] /\ stale' = [stale EXCEPT ![c] = 0]
            /\ playing' = [playing EXCEPT ![c] = FALSE]
            /\ can_send_msg' = [can_send_msg EXCEPT ![c] = FALSE]
            /\ UNCHANGED <<out, after, currently_sending_message,
                           send_server_cancel, termination_flag>>
       ELSE ExitClient(c, turn, spc[c] # "main")
  /\ UNCHANGED <<client, c2s, counts>>

\* The game sends a request: client_request.
GameAsks(c) ==
  /\ spc[c] = "game" /\ nprompts < MaxPrompts
  /\ nprompts' = nprompts + 1
  /\ asked' = [asked EXCEPT ![c] = nprompts + 1]
  /\ Say(c, Request(nprompts + 1), "request")
  /\ UNCHANGED <<client, playing, can_send_msg, send_server_cancel, termination_flag,
                 fdsOpen, links, stale, ncalls, ncancels, nterms>>

\* It loads a level, replays, ...: load_progress needs no turn.
GameLoads(c) ==
  /\ spc[c] = "game" /\ asked[c] = 0 /\ nprompts = 0
  /\ s2c[c] = <<>>
  /\ ToClient(c, Progress)
  /\ UNCHANGED <<client, server, c2s, up, stale, counts>>

GameEnds(c) ==
  /\ spc[c] = "game"
  /\ GameReturns(c)
  /\ UNCHANGED <<client, can_send_msg, send_server_cancel, termination_flag, fdsOpen,
                 links, counts>>

\* The end of ccmd_play_game: the database is brought up to date.
Update(c) ==
  /\ spc[c] = "update"
  /\ spc' = [spc EXCEPT ![c] = "main"]
  /\ UNCHANGED <<client, out, after, asked, playing, sending, termination_flag,
                 fdsOpen, links, stale, counts>>

--------------------------------------------------------------------------------
(****************************************************************************)
(* Signals to the server process, and the network.                          *)
(****************************************************************************)

\* Mutant of MonitorSignal: a cancel that cannot be sent at once is dropped.
MonitorSignal_Drops(c) ==
  /\ playing[c] /\ ncancels < MaxCancels
  /\ ncancels' = ncancels + 1
  /\ stale' = [stale EXCEPT ![c] = asked[c]]
  /\ IF currently_sending_message[c] THEN UNCHANGED s2c ELSE ToClient(c, Cancel)
  /\ UNCHANGED <<client, spc, out, after, asked, playing, sending,
                 termination_flag, fdsOpen, c2s, up, ncalls, nprompts, nterms>>

\* The monitor signal: another process changed the save file.
MonitorSignal(c) ==
  /\ playing[c] /\ ncancels < MaxCancels
  /\ ncancels' = ncancels + 1
  /\ stale' = [stale EXCEPT ![c] = asked[c]]
  /\ IF currently_sending_message[c]
     THEN /\ send_server_cancel' = [send_server_cancel EXCEPT ![c] = TRUE]
          /\ UNCHANGED s2c
     ELSE ToClient(c, Cancel) /\ UNCHANGED send_server_cancel
  /\ UNCHANGED <<client, spc, out, after, asked, playing, can_send_msg,
                 currently_sending_message, termination_flag, fdsOpen, c2s, up,
                 ncalls, nprompts, nterms>>

SigTerm(c) ==
  /\ spc[c] \notin {"none", "gone"} /\ nterms < MaxTerms
  /\ nterms' = nterms + 1
  /\ termination_flag' = [termination_flag EXCEPT ![c] = 1]
  /\ UNCHANGED <<client, spc, out, after, asked, playing, sending, fdsOpen,
                 links, stale, ncalls, nprompts, ncancels>>

\* The connection breaks; what was on the way may or may not get through.
Break(c) ==
  /\ up[c]
  /\ up' = [up EXCEPT ![c] = FALSE]
  /\ c2s' \in {c2s, [c2s EXCEPT ![c] = <<>>]}
  /\ s2c' \in {s2c, [s2c EXCEPT ![c] = <<>>]}
  /\ UNCHANGED <<client, server, stale, counts>>

ClientStep ==
  \/ Send \/ NoResponse \/ Retry
  \/ ReceiveAside \/ ReceiveRequest \/ ReceiveReply \/ ReceiveError
  \/ CheckCancel \/ CheckOther \/ CheckLost
  \/ Respond("cancelled")

User ==
  \/ Connect \/ Disconnect
  \/ \E cmd \in MenuCommands \cup AsyncCommands : Call(cmd)
  \/ Respond("given")

ServerStep(c) ==
  \/ SendMessage(c) \/ SendFails(c) \/ DeferredCancel(c) \/ SendCancel(c) \/ MessageDone(c)
  \/ MainCommand(c) \/ AsyncCommand(c) \/ TakeAnswer(c) \/ InputLost(c) \/ Terminated(c)
  \/ GameAsks(c) \/ GameEnds(c) \/ Update(c)

Outside(c) ==
  \/ InactivityTimeout(c) \/ MonitorSignal(c) \/ SigTerm(c) \/ Break(c) \/ GameLoads(c)

Next == ClientStep \/ User \/ \E c \in Conns : ServerStep(c) \/ Outside(c)

Spec == Init /\ [][Next]_vars

\* The program of the client and the server processes go on; the user, the
\* network, the signals and the inactivity timeout owe nothing.
FairSpec ==
  /\ Spec
  /\ WF_vars(ClientStep)
  /\ \A c \in Conns : WF_vars(ServerStep(c))

--------------------------------------------------------------------------------
(****************************************************************************)
(* Properties.                                                              *)
(****************************************************************************)

Messages ==
  {NoMsg, Cancel, Progress, Shutdown}
    \cup [t : {"command"}, cmd : MenuCommands \cup AsyncCommands]
    \cup [t : {"answer"}, n : 1..MaxPrompts]
    \cup [t : {"request"}, n : 1..MaxPrompts]
    \cup [t : {"reply"}, cmd : MenuCommands \cup AsyncCommands \cup {"shutdown"}]
    \cup [t : {"server_error"}, error : BOOLEAN]

TypeOK ==
  /\ calls \in Seq([cmd : MenuCommands \cup AsyncCommands,
                    tries : 0..Retries, msg : Messages])
  /\ cpc \in {"menu", "asked", "send", "wait", "retry", "undefined"}
  /\ sockfd \in Conns \cup {0}
  /\ net_active /\ ~conn_err => sockfd # 0
  /\ conn_err \in BOOLEAN /\ net_active \in BOOLEAN
  /\ playgame_jmp_buf_valid \in BOOLEAN /\ signalled \in BOOLEAN
  /\ ex_jmp_buf_valid \in Nat /\ ex_jmp_buf_valid >= Len(calls)
  /\ exFrame \in 0..Len(calls) /\ pgFrame \in 0..Len(calls)
  /\ spc \in [Conns -> {"none", "main", "message", "sent", "cancel", "cancelled",
                        "game", "request", "request again", "update", "gone"}]
  /\ out \in [Conns -> Messages]
  /\ after \in [Conns -> {"main", "request", "request again", "update"}]
  /\ asked \in [Conns -> 0..MaxPrompts] /\ stale \in [Conns -> 0..MaxPrompts]
  /\ playing \in [Conns -> BOOLEAN] /\ can_send_msg \in [Conns -> BOOLEAN]
  /\ currently_sending_message \in [Conns -> BOOLEAN]
  /\ send_server_cancel \in [Conns -> BOOLEAN]
  /\ fdsOpen \in [Conns -> BOOLEAN] /\ up \in [Conns -> BOOLEAN]
  /\ termination_flag \in [Conns -> {0, 1, 3}]
  /\ c2s \in [Conns -> Seq(Messages)] /\ s2c \in [Conns -> Seq(Messages)]
  /\ nprompts \in 0..MaxPrompts

\* Whose turn it is on a connection, counted over the client, what is on the way
\* and the server process.
IsTurn(m) == m.t \notin {"server_cancel", "load_progress"}
Turns(c) ==
  (IF cpc = "wait" THEN 0 ELSE 1) + Len(c2s[c]) + (IF can_send_msg[c] THEN 1 ELSE 0)
    + Cardinality({i \in 1..Len(s2c[c]) : IsTurn(s2c[c][i])})

\* On a connection that works it is exactly one end's turn, whatever signals and
\* nested commands do: the two never wait for each other, and neither gets a
\* message that it did not wait for (connection.c takes one for a broken server,
\* client_request for a broken client).
TurnsAlternate ==
  \A c \in Conns :
    c = sockfd /\ up[c] /\ cpc \notin {"retry", "undefined"} => Turns(c) = 1

\* An answer only ever travels to the process that asked for it and still waits:
\* a client that reconnects does not answer a request of the game it left.
AnswersThePrompt ==
  \A c \in Conns : \A i \in 1..Len(c2s[c]) :
    c2s[c][i].t = "answer" /\ termination_flag[c] = 0 => c2s[c][i].n = asked[c]

\* A monitor signal that finds a request unanswered is never forgotten, even if
\* it comes in the middle of a message: the cancel is still to be sent, under
\* way, with the user interface, or the client has answered meanwhile.
CancelReaches ==
  \A c \in Conns :
    stale[c] # 0 /\ up[c] /\ termination_flag[c] = 0 /\ c = sockfd
        /\ cpc \in {"asked", "wait"}
      => \/ send_server_cancel[c] \/ spc[c] = "cancel" \/ spc[c] = "message"
         \/ \E i \in 1..Len(s2c[c]) : s2c[c][i] = Cancel
         \/ signalled
         \/ c2s[c] # <<>>

\* Every call into the client library comes to an end, whatever becomes of the
\* server and the network.
CallEnds ==
  cpc \in {"send", "wait", "retry"} ~> cpc \in {"menu", "asked", "undefined"}

\* A request that a monitor signal found unanswered does not stay on the screen:
\* it is answered or cancelled, though the user does nothing.
CancelCloses == \A c \in Conns : stale[c] # 0 ~> (stale[c] = 0 \/ cpc = "undefined")

\* A process whose connection is gone ends, so that it holds no lock of the game
\* that the client opens again.
ServerLeaves == \A c \in Conns : spc[c] # "none" /\ ~up[c] ~> spc[c] = "gone"

--------------------------------------------------------------------------------
(* The inductive invariant of the safety properties. *)

\* The messages on the way.
On(q) == {q[i] : i \in 1..Len(q)}
Has(q, kind) == \E m \in On(q) : m.t = kind
IsResponse(m) == m.t \in {"request", "reply"}
NoResponses(q) == \A m \in On(q) : ~IsResponse(m)
OneResponse(q) == \A i, j \in 1..Len(q) : IsResponse(q[i]) /\ IsResponse(q[j]) => i = j
ProgressFirst(q) == \A i \in 1..Len(q) : q[i].t = "load_progress" => i = 1

Working(c) == up[c] /\ cpc \notin {"retry", "undefined"}

\* A nested call is made while the request of a game is answered, and no other one
\* in it; who answers a request is in play_game, and can be taken back there.
CallsNest ==
  /\ cpc \in {"menu", "undefined"} <=> calls = <<>>
  /\ calls # <<>> => /\ sockfd # 0 /\ net_active /\ ~conn_err
                     /\ calls[1].cmd \in MenuCommands
                     /\ calls[1].msg # NoMsg => /\ calls[1].msg.t = "answer"
                                                /\ calls[1].cmd = "play_game"
                                                /\ playgame_jmp_buf_valid
  /\ Len(calls) <= 2
  /\ Len(calls) = 2 => /\ calls[2].cmd \in AsyncCommands /\ calls[2].msg = NoMsg
                       /\ calls[1].msg # NoMsg
  /\ cpc = "asked" => Len(calls) = 1 /\ calls[1].msg # NoMsg
  /\ exFrame <= 1 /\ pgFrame <= 1

\* Only the connection that the client uses works; one that is not used yet is new.
Current(c) ==
  /\ up[c] => c = sockfd
  /\ c = sockfd => spc[c] # "none"
  /\ spc[c] = "none" => /\ c2s[c] = <<>> /\ s2c[c] = <<>> /\ ~up[c] /\ ~can_send_msg[c]
                        /\ ~currently_sending_message[c] /\ ~send_server_cancel[c]
                        /\ ~playing[c] /\ asked[c] = 0 /\ stale[c] = 0
                        /\ termination_flag[c] = 0

\* What the place of a server process says about its variables.
Places(c) ==
  /\ spc[c] \in {"game", "message"} /\ (up[c] \/ termination_flag[c] = 0)
       => can_send_msg[c]
  /\ spc[c] = "message" => /\ IsResponse(out[c])
                           /\ out[c].t = "request" => out[c].n = asked[c]
                           /\ out[c] = Reply("play_game") => asked[c] = 0
  /\ spc[c] = "game" => asked[c] = 0
  /\ currently_sending_message[c] => spc[c] \in {"message", "cancel", "gone"}
  /\ spc[c] = "gone" => ~playing[c]
  /\ stale[c] \in {0, asked[c]}

\* Responses to the client come one at a time, and only when it waits for one; on a
\* connection that works somebody always has the turn, and never two.
Balanced(c) ==
  /\ up[c] \/ termination_flag[c] = 0 =>
       Len(c2s[c]) <= 1 /\ (can_send_msg[c] => c2s[c] = <<>>)
  /\ up[c] => \A m \in On(s2c[c]) :
                m.t \in {"request", "reply", "server_cancel", "load_progress"}
  /\ c = sockfd /\ cpc \notin {"retry", "undefined"} =>
       OneResponse(s2c[c]) /\ (cpc # "wait" => NoResponses(s2c[c]))
  /\ Working(c) =>
       /\ c2s[c] # <<>> \/ can_send_msg[c] => cpc = "wait" /\ NoResponses(s2c[c])
       /\ cpc = "wait" => c2s[c] # <<>> \/ can_send_msg[c] \/ ~NoResponses(s2c[c])

\* A game that runs, or asks, was begun by the call that waits.
Runs(c) ==
  \/ spc[c] = "game" \/ (spc[c] = "message" /\ out[c].t = "request")
  \/ \E m \in On(c2s[c]) : m.t = "answer" \/ (m.t = "command" /\ m.cmd = "play_game")

AsksCaller(c) ==
  /\ c = sockfd /\ cpc # "undefined" =>
       /\ Has(s2c[c], "request") \/ (up[c] /\ Runs(c)) =>
            Len(calls) = 1 /\ calls[1].cmd = "play_game" /\ cpc \in {"wait", "retry"}
       /\ Has(s2c[c], "load_progress") => cpc \in {"wait", "retry"}
  /\ ProgressFirst(s2c[c])
  /\ Working(c) /\ termination_flag[c] = 0 /\ asked[c] # 0 =>
       /\ calls # <<>> /\ calls[1].cmd = "play_game"
       /\ calls[1].msg # NoMsg \/ cpc = "wait"
  /\ termination_flag[c] = 0 /\ asked[c] # 0 =>
       \A m \in On(c2s[c]) : m.t = "command" => m.cmd \notin MenuCommands

\* What the client answers is what the game has asked, unless the game is over and
\* the client will hear that first.
Answered(c) ==
  /\ termination_flag[c] = 0 => \A m \in On(c2s[c]) : m.t = "answer" => m.n = asked[c]
  /\ Working(c) /\ termination_flag[c] = 0 =>
       /\ \A m \in On(s2c[c]) : /\ m.t = "request" => m.n = asked[c]
                                /\ m = Reply("play_game") => asked[c] = 0
       /\ calls # <<>> =>
            (calls[1].msg # NoMsg /\ (Len(calls) = 2 \/ cpc \in {"asked", "send"}) =>
               \/ calls[1].msg.n = asked[c]
               \/ spc[c] = "message" /\ out[c] = Reply("play_game")
               \/ Reply("play_game") \in On(s2c[c]))

\* Where a cancel is, for a request that is to be cancelled.
CancelKept(c) ==
  Working(c) /\ termination_flag[c] = 0 /\ stale[c] # 0 /\ cpc \in {"asked", "wait", "send"} =>
    \/ send_server_cancel[c] /\ spc[c] # "cancelled"
    \/ spc[c] = "cancel"
    \/ Has(s2c[c], "server_cancel")
    \/ signalled
    \/ Has(c2s[c], "answer")
    \/ cpc = "send" /\ calls[Len(calls)].msg # NoMsg

ConnInv(c) == /\ Current(c) /\ Places(c) /\ Balanced(c)
              /\ AsksCaller(c) /\ Answered(c) /\ CancelKept(c)

SessionInv == TypeOK /\ CallsNest /\ \A c \in Conns : ConnInv(c)
================================================================================
