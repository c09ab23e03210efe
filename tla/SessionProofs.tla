----------------------------- MODULE SessionProofs -----------------------------
(****************************************************************************)
(* Proofs about Session, for any number of connections, commands, requests, *)
(* signals and retries: the two ends take turns, an answer reaches the      *)
(* process that asked, and no cancel is lost.                               *)
(****************************************************************************)
EXTENDS Session, SequenceTheorems, FiniteSetTheorems, WellFoundedInduction, TLAPS

--------------------------------------------------------------------------------
(****************************************************************************)
(* Messages on the way: sending appends one, receiving takes the first.     *)
(****************************************************************************)

LEMMA NothingOn ==
  /\ <<>> \in Seq(Messages) /\ On(<<>>) = {} /\ NoResponses(<<>>)
  /\ OneResponse(<<>>) /\ ProgressFirst(<<>>) /\ Len(<<>>) <= 1
  /\ \A k : ~Has(<<>>, k)
<1>1. Len(<<>>) = 0
  BY EmptySeq
<1> QED
  BY <1>1 DEF On, NoResponses, OneResponse, ProgressFirst, Has

LEMMA OnAppended ==
  ASSUME NEW q \in Seq(Messages), NEW m \in Messages
  PROVE  Append(q, m) \in Seq(Messages) /\ On(Append(q, m)) = On(q) \cup {m}
<1>1. PICK n \in Nat : n = Len(q)
  OBVIOUS
<1>2. PICK r : r = Append(q, m) /\ r \in Seq(Messages)
  BY AppendProperties
<1>3. /\ Len(r) = n + 1 /\ r[n + 1] = m
      /\ \A i \in 1..n : r[i] = q[i] /\ i \in 1..(n + 1)
  BY <1>1, <1>2
<1>4. \A x : x \in On(r) <=> x \in On(q) \cup {m}
  <2>1. ASSUME NEW i \in 1..(n + 1) PROVE r[i] \in On(q) \cup {m}
    <3>1. CASE i = n + 1
      BY <1>3, <3>1
    <3>2. CASE i \in 1..n
      BY <1>1, <1>3, <3>2 DEF On
    <3> QED
      BY <3>1, <3>2
  <2>2. ASSUME NEW i \in 1..n PROVE q[i] \in On(r)
    BY <1>3 DEF On
  <2>3. m \in On(r)
    <3>1. n + 1 \in 1..(n + 1)
      OBVIOUS
    <3> QED
      BY <1>3, <3>1 DEF On
  <2> QED
    BY <1>1, <1>3, <2>1, <2>2, <2>3 DEF On
<1>5. On(r) = On(q) \cup {m}
  BY <1>4
<1> QED
  BY <1>2, <1>5

\* At most one response stays at most one, if one is only sent when none is on the
\* way.
LEMMA ResponseAppended ==
  ASSUME NEW q \in Seq(Messages), NEW m \in Messages,
         OneResponse(q), IsResponse(m) => NoResponses(q)
  PROVE  OneResponse(Append(q, m))
<1>1. PICK n \in Nat : n = Len(q)
  OBVIOUS
<1>2. PICK r : r = Append(q, m) /\ r \in Seq(Messages)
  BY AppendProperties
<1>3. Len(r) = n + 1 /\ r[n + 1] = m /\ (\A i \in 1..n : r[i] = q[i])
  BY <1>1, <1>2
<1>4. ASSUME NEW i \in 1..(n + 1), NEW j \in 1..(n + 1), IsResponse(r[i]), IsResponse(r[j])
      PROVE  i = j
  <2>1. CASE i \in 1..n /\ j \in 1..n
    BY <1>1, <1>3, <1>4, <2>1 DEF OneResponse
  <2>2. CASE i = n + 1 /\ j \in 1..n
    BY <1>1, <1>3, <1>4, <2>2 DEF NoResponses, On
  <2>3. CASE i \in 1..n /\ j = n + 1
    BY <1>1, <1>3, <1>4, <2>3 DEF NoResponses, On
  <2>4. CASE i = n + 1 /\ j = n + 1
    BY <2>4
  <2> QED
    BY <2>1, <2>2, <2>3, <2>4
<1>5. OneResponse(r)
  BY <1>3, <1>4 DEF OneResponse
<1> QED
  BY <1>2, <1>5

LEMMA ProgressAppended ==
  ASSUME NEW q \in Seq(Messages), NEW m \in Messages,
         ProgressFirst(q), m.t = "load_progress" => q = <<>>
  PROVE  ProgressFirst(Append(q, m))
<1>1. PICK n \in Nat : n = Len(q)
  OBVIOUS
<1>2. PICK r : r = Append(q, m) /\ r \in Seq(Messages)
  BY AppendProperties
<1>3. Len(r) = n + 1 /\ r[n + 1] = m /\ (\A i \in 1..n : r[i] = q[i])
  BY <1>1, <1>2
<1>4. ASSUME NEW i \in 1..(n + 1), r[i].t = "load_progress" PROVE i = 1
  <2>1. CASE i \in 1..n
    BY <1>1, <1>3, <1>4, <2>1 DEF ProgressFirst
  <2>2. CASE i = n + 1
    BY <1>1, <1>3, <1>4, <2>2
  <2> QED
    BY <2>1, <2>2
<1>5. ProgressFirst(r)
  BY <1>3, <1>4 DEF ProgressFirst
<1> QED
  BY <1>2, <1>5

LEMMA LengthAbove ==
  ASSUME NEW q \in Seq(Messages), q # <<>>
  PROVE  \E n \in Nat : Len(q) = n + 1
<1>1. Len(q) \in Nat /\ Len(q) # 0
  BY EmptySeq
<1>2. Len(q) - 1 \in Nat /\ Len(q) = (Len(q) - 1) + 1
  BY <1>1
<1> QED
  BY <1>2

\* What a receiver takes is gone, and the rest is still on the way.
LEMMA OnTaken ==
  ASSUME NEW q \in Seq(Messages), q # <<>>
  PROVE  /\ Head(q) \in Messages /\ Tail(q) \in Seq(Messages)
         /\ \A m : m \in On(q) <=> m = Head(q) \/ m \in On(Tail(q))
         /\ Len(q) <= 1 => Tail(q) = <<>>
<1>1. PICK n \in Nat : Len(q) = n + 1
  BY LengthAbove
<1>2. PICK r : r = Tail(q) /\ r \in Seq(Messages)
  BY HeadTailProperties
<1>3. Len(r) = n /\ (\A i \in 1..n : r[i] = q[i + 1])
  BY <1>1, <1>2
<1>4. Head(q) = q[1] /\ 1 \in 1..(n + 1)
  BY <1>1
<1>5. \A m : m \in On(q) <=> m = Head(q) \/ m \in On(r)
  <2>1. ASSUME NEW i \in 1..(n + 1) PROVE q[i] = Head(q) \/ q[i] \in On(r)
    <3>1. CASE i = 1
      BY <1>4, <3>1
    <3>2. CASE i # 1
      <4>1. PICK j \in 1..n : i = j + 1
        <5>1. i - 1 \in 1..n /\ i = (i - 1) + 1
          BY <3>2
        <5> QED
          BY <5>1
      <4> QED
        BY <1>3, <4>1 DEF On
    <3> QED
      BY <3>1, <3>2
  <2>2. Head(q) \in On(q)
    BY <1>1, <1>4 DEF On
  <2>3. ASSUME NEW j \in 1..n PROVE r[j] \in On(q)
    <3>1. j + 1 \in 1..(n + 1)
      OBVIOUS
    <3> QED
      BY <1>1, <1>3, <3>1 DEF On
  <2> QED
    BY <1>1, <1>3, <2>1, <2>2, <2>3 DEF On
<1>6. n <= 0 => r = <<>>
  BY <1>3, EmptySeq
<1>7. Head(q) \in Messages
  BY <1>1, <1>4, ElementOfSeq
<1> QED
  BY <1>1, <1>2, <1>5, <1>6, <1>7

LEMMA ResponseTaken ==
  ASSUME NEW q \in Seq(Messages), q # <<>>, OneResponse(q)
  PROVE  /\ OneResponse(Tail(q))
         /\ IsResponse(Head(q)) => NoResponses(Tail(q))
<1>1. PICK n \in Nat : Len(q) = n + 1
  BY LengthAbove
<1>2. PICK r : r = Tail(q) /\ r \in Seq(Messages)
  BY HeadTailProperties
<1>3. Len(r) = n /\ (\A i \in 1..n : r[i] = q[i + 1])
  BY <1>1, <1>2
<1>4. \A i \in 1..n : i + 1 \in 1..(n + 1) /\ i + 1 # 1
  OBVIOUS
<1>5. Head(q) = q[1] /\ 1 \in 1..(n + 1)
  BY <1>1
<1>6. ASSUME NEW i \in 1..n, NEW j \in 1..n, IsResponse(r[i]), IsResponse(r[j])
      PROVE  i = j
  <2>1. i + 1 = j + 1
    BY <1>1, <1>3, <1>4, <1>6 DEF OneResponse
  <2> QED
    BY <2>1
<1>7. ASSUME NEW i \in 1..n, IsResponse(r[i]), IsResponse(Head(q)) PROVE FALSE
  BY <1>1, <1>3, <1>4, <1>5, <1>7 DEF OneResponse
<1>8. OneResponse(r) /\ (IsResponse(Head(q)) => NoResponses(r))
  BY <1>3, <1>6, <1>7 DEF OneResponse, NoResponses, On
<1> QED
  BY <1>2, <1>8

LEMMA ProgressTaken ==
  ASSUME NEW q \in Seq(Messages), q # <<>>, ProgressFirst(q)
  PROVE  ProgressFirst(Tail(q)) /\ ~Has(Tail(q), "load_progress")
<1>1. PICK n \in Nat : Len(q) = n + 1
  BY LengthAbove
<1>2. PICK r : r = Tail(q) /\ r \in Seq(Messages)
  BY HeadTailProperties
<1>3. Len(r) = n /\ (\A i \in 1..n : r[i] = q[i + 1])
  BY <1>1, <1>2
<1>4. \A i \in 1..n : i + 1 \in 1..(n + 1) /\ i + 1 # 1
  OBVIOUS
<1>5. \A i \in 1..n : r[i].t # "load_progress"
  BY <1>1, <1>3, <1>4 DEF ProgressFirst
<1>6. ProgressFirst(r) /\ ~Has(r, "load_progress")
  BY <1>3, <1>5 DEF ProgressFirst, Has, On
<1> QED
  BY <1>2, <1>6

--------------------------------------------------------------------------------
(****************************************************************************)
(* The types, by whose variables they are.                                  *)
(****************************************************************************)

Calls == [cmd : MenuCommands \cup AsyncCommands, tries : 0..Retries, msg : Messages]

ClientTypes ==
  /\ calls \in Seq(Calls)
  /\ cpc \in {"menu", "asked", "send", "wait", "retry", "undefined"}
  /\ sockfd \in Conns \cup {0}
  /\ net_active /\ ~conn_err => sockfd # 0
  /\ conn_err \in BOOLEAN /\ net_active \in BOOLEAN
  /\ playgame_jmp_buf_valid \in BOOLEAN /\ signalled \in BOOLEAN
  /\ ex_jmp_buf_valid \in Nat /\ ex_jmp_buf_valid >= Len(calls)
  /\ exFrame \in 0..Len(calls) /\ pgFrame \in 0..Len(calls)

ServerTypes ==
  /\ spc \in [Conns -> {"none", "main", "message", "sent", "cancel", "cancelled",
                        "game", "request", "request again", "update", "gone"}]
  /\ out \in [Conns -> Messages]
  /\ after \in [Conns -> {"main", "request", "request again", "update"}]
  /\ asked \in [Conns -> 0..MaxPrompts] /\ stale \in [Conns -> 0..MaxPrompts]
  /\ playing \in [Conns -> BOOLEAN] /\ can_send_msg \in [Conns -> BOOLEAN]
  /\ currently_sending_message \in [Conns -> BOOLEAN]
  /\ send_server_cancel \in [Conns -> BOOLEAN] /\ fdsOpen \in [Conns -> BOOLEAN]
  /\ termination_flag \in [Conns -> {0, 1, 3}] /\ nprompts \in 0..MaxPrompts

LinkTypes ==
  c2s \in [Conns -> Seq(Messages)] /\ s2c \in [Conns -> Seq(Messages)]
    /\ up \in [Conns -> BOOLEAN]

LEMMA TypesSplit == TypeOK <=> ClientTypes /\ ServerTypes /\ LinkTypes
  BY DEF TypeOK, ClientTypes, ServerTypes, LinkTypes, Calls

\* What the invariant says about a connection is about these variables, and about
\* the client if it is the client's connection.
Same(d) ==
  /\ spc'[d] = spc[d] /\ out'[d] = out[d] /\ asked'[d] = asked[d]
  /\ playing'[d] = playing[d] /\ can_send_msg'[d] = can_send_msg[d]
  /\ currently_sending_message'[d] = currently_sending_message[d]
  /\ send_server_cancel'[d] = send_server_cancel[d]
  /\ termination_flag'[d] = termination_flag[d] /\ stale'[d] = stale[d]
  /\ c2s'[d] = c2s[d] /\ s2c'[d] = s2c[d] /\ up'[d] = up[d]

LEMMA OtherStays ==
  ASSUME NEW d \in Conns, ConnInv(d), Same(d), UNCHANGED sockfd,
         d = sockfd => UNCHANGED <<calls, cpc, signalled>>
  PROVE  ConnInv(d)'
<1>1. Current(d)' /\ Places(d)'
  BY DEF ConnInv, Same, Current, Places
<1>2. CASE d = sockfd
  <2>1. UNCHANGED <<calls, cpc, signalled>>
    BY <1>2
  <2>2. Balanced(d)'
    BY <2>1 DEF ConnInv, Same, Balanced, Working
  <2>3. AsksCaller(d)'
    BY <2>1 DEF ConnInv, Same, AsksCaller, Runs, Working
  <2>4. Answered(d)'
    BY <2>1 DEF ConnInv, Same, Answered, Working
  <2>5. CancelKept(d)'
    BY <2>1 DEF ConnInv, Same, CancelKept, Working
  <2> QED
    BY <1>1, <2>2, <2>3, <2>4, <2>5 DEF ConnInv
<1>3. CASE d # sockfd
  <2>1. ~up[d] /\ ~up'[d] /\ d # sockfd'
    BY <1>3 DEF ConnInv, Current, Same
  <2>2. Balanced(d)'
    BY <2>1 DEF ConnInv, Same, Balanced, Working
  <2>3. AsksCaller(d)'
    BY <2>1 DEF ConnInv, Same, AsksCaller, Working
  <2>4. Answered(d)'
    BY <2>1 DEF ConnInv, Same, Answered, Working
  <2>5. CancelKept(d)'
    BY <2>1 DEF CancelKept, Working
  <2> QED
    BY <1>1, <2>2, <2>3, <2>4, <2>5 DEF ConnInv
<1> QED
  BY <1>2, <1>3

\* A message to the client, which is lost on a broken connection.
LEMMA ToClientIs ==
  ASSUME LinkTypes, NEW c \in Conns, NEW m \in Messages, ToClient(c, m)
  PROVE  /\ s2c' \in [Conns -> Seq(Messages)]
         /\ \A d \in Conns \ {c} : s2c'[d] = s2c[d]
         /\ ~up[c] => s2c'[c] = s2c[c]
         /\ up[c] => On(s2c'[c]) = On(s2c[c]) \cup {m}
         /\ OneResponse(s2c[c]) /\ (IsResponse(m) => NoResponses(s2c[c]))
              => OneResponse(s2c'[c])
         /\ ProgressFirst(s2c[c]) /\ (m.t = "load_progress" => s2c[c] = <<>>)
              => ProgressFirst(s2c'[c])
<1>1. PICK q \in Seq(Messages) : q = s2c[c]
  BY DEF LinkTypes
<1>2. PICK r : r = Append(q, m) /\ r \in Seq(Messages)
  BY AppendProperties
<1>3. s2c' = [s2c EXCEPT ![c] = IF up[c] THEN r ELSE q]
  BY <1>1, <1>2 DEF ToClient
<1>4. /\ s2c' \in [Conns -> Seq(Messages)]
      /\ \A d \in Conns \ {c} : s2c'[d] = s2c[d]
      /\ s2c'[c] = IF up[c] THEN r ELSE q
  BY <1>2, <1>3 DEF LinkTypes
<1>5. On(r) = On(q) \cup {m}
  BY <1>2, OnAppended
<1>6. OneResponse(q) /\ (IsResponse(m) => NoResponses(q)) => OneResponse(r)
  BY <1>2, ResponseAppended
<1>7. ProgressFirst(q) /\ (m.t = "load_progress" => q = <<>>) => ProgressFirst(r)
  BY <1>2, ProgressAppended
<1> QED
  BY <1>1, <1>4, <1>5, <1>6, <1>7

\* A message that a server process takes.
LEMMA TakeInputIs ==
  ASSUME LinkTypes, ServerTypes, NEW c \in Conns, c2s[c] # <<>>, TakeInput(c),
         Len(c2s[c]) <= 1
  PROVE  /\ c2s' \in [Conns -> Seq(Messages)]
         /\ \A d \in Conns \ {c} : c2s'[d] = c2s[d] /\ can_send_msg'[d] = can_send_msg[d]
         /\ c2s'[c] = <<>> /\ can_send_msg'[c] = TRUE
         /\ can_send_msg' \in [Conns -> BOOLEAN]
         /\ Head(c2s[c]) \in On(c2s[c]) /\ Head(c2s[c]) \in Messages
<1>1. PICK q \in Seq(Messages) : q = c2s[c]
  BY DEF LinkTypes
<1>2. Head(q) \in Messages /\ Tail(q) \in Seq(Messages) /\ Head(q) \in On(q) /\ Tail(q) = <<>>
  BY <1>1, OnTaken
<1> QED
  BY <1>1, <1>2 DEF TakeInput, LinkTypes, ServerTypes

\* A connection that is gone, and a process that knows it.
LEMMA GoneKeeps ==
  ASSUME NEW c \in Conns, ConnInv(c), ~up'[c], termination_flag'[c] # 0,
         spc[c] # "none", spc'[c] \in {"gone", "message"}, UNCHANGED client,
         spc'[c] = "message" => out'[c] = Reply("play_game"),
         asked'[c] = 0, stale'[c] = 0,
         ~playing'[c],
         OneResponse(s2c[c]) => OneResponse(s2c'[c]),
         NoResponses(s2c[c]) => NoResponses(s2c'[c]),
         ProgressFirst(s2c[c]) => ProgressFirst(s2c'[c]),
         Has(s2c'[c], "request") => Has(s2c[c], "request"),
         Has(s2c'[c], "load_progress") => Has(s2c[c], "load_progress")
  PROVE  ConnInv(c)'
<1>1. UNCHANGED <<calls, cpc, sockfd, signalled>>
  BY DEF client
<1>2. Current(c)'
  BY <1>1 DEF ConnInv, Current
<1>3. Places(c)'
  <2>1. IsResponse(Reply("play_game")) /\ Reply("play_game").t # "request"
    BY DEF IsResponse, Reply
  <2> QED
    BY <2>1 DEF Places
<1>4. Balanced(c)'
  BY <1>1 DEF ConnInv, Balanced, Working
<1>5. AsksCaller(c)'
  BY <1>1 DEF ConnInv, AsksCaller, Working
<1>6. Answered(c)' /\ CancelKept(c)'
  BY DEF Answered, CancelKept, Working
<1> QED
  BY <1>2, <1>3, <1>4, <1>5, <1>6 DEF ConnInv

--------------------------------------------------------------------------------
(****************************************************************************)
(* The server process of a connection sends.                                *)
(****************************************************************************)

ServerKept(c) ==
  ServerTypes' /\ LinkTypes' /\ ConnInv(c)' /\ \A d \in Conns \ {c} : Same(d)

\* The message becomes part of what is on the way, and the turn goes with it.
LEMMA SendMessageKeeps ==
  ASSUME ServerTypes, LinkTypes, NEW c \in Conns, ConnInv(c), SendMessage(c)
  PROVE  ServerKept(c)
<1>1. UNCHANGED <<calls, cpc, sockfd, signalled>>
  BY DEF SendMessage, client
<1>2. PICK m \in Messages : m = out[c]
  BY DEF ServerTypes
<1>3. /\ spc[c] = "message" /\ spc'[c] = "sent" /\ ~can_send_msg'[c]
      /\ ~currently_sending_message'[c]
      /\ out' = out /\ asked' = asked /\ playing' = playing /\ stale' = stale
      /\ send_server_cancel' = send_server_cancel
      /\ termination_flag' = termination_flag /\ c2s' = c2s /\ up' = up
      /\ \A d \in Conns \ {c} : /\ spc'[d] = spc[d] /\ can_send_msg'[d] = can_send_msg[d]
                                /\ currently_sending_message'[d] = currently_sending_message[d]
  BY DEF SendMessage, ServerTypes
<1>4. ServerTypes'
  BY DEF SendMessage, ServerTypes, counts
<1>5. IsResponse(m) /\ m.t # "load_progress" /\ m.t # "server_cancel"
  BY <1>2, <1>3 DEF ConnInv, Places, IsResponse
<1>6. CASE can_send_msg[c] /\ up[c]
  <2>1. ToClient(c, m)
    BY <1>2, <1>6 DEF SendMessage
  <2>2. cpc # "undefined" /\ cpc # "retry" => NoResponses(s2c[c])
    BY <1>6 DEF ConnInv, Balanced, Working
  <2>3. /\ s2c' \in [Conns -> Seq(Messages)]
        /\ \A d \in Conns \ {c} : s2c'[d] = s2c[d]
        /\ On(s2c'[c]) = On(s2c[c]) \cup {m}
        /\ NoResponses(s2c[c]) /\ OneResponse(s2c[c]) => OneResponse(s2c'[c])
        /\ ProgressFirst(s2c[c]) => ProgressFirst(s2c'[c])
    BY <1>5, <1>6, <2>1, ToClientIs
  <2>4. Current(c)' /\ Places(c)'
    BY <1>1, <1>3 DEF ConnInv, Current, Places
  <2>5. Balanced(c)'
    <3>1. cpc \notin {"retry", "undefined"} => cpc = "wait"
      BY <1>6 DEF ConnInv, Balanced, Working
    <3>2. ~NoResponses(s2c'[c])
      BY <1>5, <2>3 DEF NoResponses
    <3>3. c2s[c] = <<>>
      BY <1>6 DEF ConnInv, Balanced
    <3>4. \A x \in On(s2c'[c]) : x.t \in {"request", "reply", "server_cancel", "load_progress"}
      BY <1>5, <1>6, <2>3 DEF ConnInv, Balanced, IsResponse
    <3> QED
      BY <1>1, <1>3, <2>2, <2>3, <3>1, <3>2, <3>3, <3>4 DEF ConnInv, Balanced, Working
  <2>6. AsksCaller(c)'
    <3>1. /\ Has(s2c'[c], "request") => Has(s2c[c], "request") \/ Runs(c)
          /\ Has(s2c'[c], "load_progress") => Has(s2c[c], "load_progress")
      BY <1>2, <1>3, <1>5, <2>3 DEF Has, Runs
    <3>2. Runs(c)' => Runs(c)
      BY <1>3 DEF Runs
    <3> QED
      BY <1>1, <1>3, <1>6, <2>3, <3>1, <3>2 DEF ConnInv, AsksCaller, Working
  <2>7. Answered(c)'
    <3>1. \A x \in On(s2c[c]) : x \in On(s2c'[c])
      BY <2>3
    <3>2. spc[c] = "message" /\ out[c] = Reply("play_game") => Reply("play_game") \in On(s2c'[c])
      BY <1>2, <2>3
    <3>3. /\ m.t = "request" => m.n = asked[c]
          /\ m = Reply("play_game") => asked[c] = 0
      BY <1>2, <1>3 DEF ConnInv, Places
    <3> QED
      BY <1>1, <1>3, <2>3, <3>1, <3>2, <3>3 DEF ConnInv, Answered, Working
  <2>8. CancelKept(c)'
    <3>1. Has(s2c[c], "server_cancel") => Has(s2c'[c], "server_cancel")
      BY <2>3 DEF Has
    <3> QED
      BY <1>1, <1>3, <3>1 DEF ConnInv, CancelKept, Working
  <2>9. \A d \in Conns \ {c} : Same(d)
    BY <1>3, <2>3 DEF Same
  <2>10. LinkTypes'
    BY <1>3, <2>3 DEF LinkTypes
  <2> QED
    BY <1>4, <2>4, <2>5, <2>6, <2>7, <2>8, <2>9, <2>10 DEF ConnInv, ServerKept
<1>7. CASE ~(can_send_msg[c] /\ up[c])
  <2>1. s2c' = s2c
    BY <1>7 DEF SendMessage, ToClient, LinkTypes
  <2>2. ~up[c]
    BY <1>3, <1>7 DEF ConnInv, Places
  <2>3. Current(c)' /\ Places(c)'
    BY <1>1, <1>3, <2>1 DEF ConnInv, Current, Places
  <2>4. Balanced(c)'
    BY <1>1, <1>3, <2>1, <2>2 DEF ConnInv, Balanced, Working
  <2>5. AsksCaller(c)'
    BY <1>1, <1>3, <2>1, <2>2 DEF ConnInv, AsksCaller, Working
  <2>6. Answered(c)' /\ CancelKept(c)'
    BY <1>1, <1>3, <2>1, <2>2 DEF ConnInv, Answered, CancelKept, Working
  <2>7. LinkTypes' /\ \A d \in Conns \ {c} : Same(d)
    BY <1>3, <2>1 DEF Same, LinkTypes
  <2> QED
    BY <1>4, <2>3, <2>4, <2>5, <2>6, <2>7 DEF ConnInv, ServerKept
<1> QED
  BY <1>6, <1>7

\* Nothing that the invariant tells apart changes but the place of the process.
LEMMA PlaceKeeps ==
  ASSUME NEW c \in Conns, ConnInv(c), UNCHANGED <<calls, cpc, sockfd, signalled>>,
         UNCHANGED <<out, asked, playing, can_send_msg, stale, c2s, s2c, up>>,
         UNCHANGED termination_flag,
         spc[c] \notin {"none", "message", "cancel", "gone"},
         spc'[c] \notin {"none", "game", "message", "cancelled", "gone"},
         currently_sending_message'[c] => currently_sending_message[c] \/ spc'[c] = "cancel",
         \/ spc[c] = "cancelled" \/ spc'[c] = "cancel"
         \/ send_server_cancel'[c] = send_server_cancel[c]
  PROVE  ConnInv(c)'
<1>1. Current(c)' /\ Places(c)'
  BY DEF ConnInv, Current, Places
<1>2. Balanced(c)'
  BY DEF ConnInv, Balanced, Working
<1>3. AsksCaller(c)'
  BY DEF ConnInv, AsksCaller, Runs, Working
<1>4. Answered(c)'
  BY DEF ConnInv, Answered, Working
<1>5. CancelKept(c)'
  BY DEF ConnInv, CancelKept, Working
<1> QED
  BY <1>1, <1>2, <1>3, <1>4, <1>5 DEF ConnInv

LEMMA DeferredCancelKeeps ==
  ASSUME ServerTypes, LinkTypes, NEW c \in Conns, ConnInv(c), DeferredCancel(c)
  PROVE  ServerKept(c)
<1>1. ConnInv(c)'
  BY PlaceKeeps DEF DeferredCancel, ServerTypes, client, links
<1>2. ServerTypes' /\ LinkTypes'
  BY DEF DeferredCancel, ServerTypes, LinkTypes, links, counts
<1>3. \A d \in Conns \ {c} : Same(d)
  BY DEF DeferredCancel, ServerTypes, links, Same
<1> QED
  BY <1>1, <1>2, <1>3 DEF ServerKept

LEMMA MessageDoneKeeps ==
  ASSUME ServerTypes, LinkTypes, NEW c \in Conns, ConnInv(c), MessageDone(c)
  PROVE  ServerKept(c)
<1>1. /\ spc[c] \in {"sent", "cancelled"}
      /\ spc'[c] \in {"main", "request", "request again", "update"}
      /\ spc[c] = "cancelled" \/ send_server_cancel'[c] = send_server_cancel[c]
  BY DEF MessageDone, ServerTypes
<1>2. ConnInv(c)'
  BY <1>1, PlaceKeeps DEF MessageDone, client, links
<1>3. spc' \in [Conns -> {"none", "main", "message", "sent", "cancel", "cancelled",
                          "game", "request", "request again", "update", "gone"}]
  BY DEF MessageDone, ServerTypes
<1>4. send_server_cancel' \in [Conns -> BOOLEAN]
  BY DEF MessageDone, ServerTypes
<1>5. ServerTypes' /\ LinkTypes'
  BY <1>3, <1>4 DEF MessageDone, ServerTypes, LinkTypes, links, counts
<1>6. \A d \in Conns \ {c} : Same(d)
  BY DEF MessageDone, ServerTypes, links, Same
<1> QED
  BY <1>2, <1>5, <1>6 DEF ServerKept

LEMMA UpdateKeeps ==
  ASSUME ServerTypes, LinkTypes, NEW c \in Conns, ConnInv(c), Update(c)
  PROVE  ServerKept(c)
<1>1. ConnInv(c)'
  BY PlaceKeeps DEF Update, ServerTypes, sending, client, links
<1>2. ServerTypes' /\ LinkTypes'
  BY DEF Update, ServerTypes, LinkTypes, sending, links, counts
<1>3. \A d \in Conns \ {c} : Same(d)
  BY DEF Update, ServerTypes, sending, links, Same
<1> QED
  BY <1>1, <1>2, <1>3 DEF ServerKept

\* A cancel, or the progress of loading, goes to the client: no response, and out
\* of turn.
LEMMA AsideKeeps ==
  ASSUME ServerTypes, LinkTypes, NEW c \in Conns, ConnInv(c),
         NEW m \in Messages, ToClient(c, m), ~IsResponse(m),
         UNCHANGED <<calls, cpc, sockfd, signalled>>,
         UNCHANGED <<out, asked, playing, can_send_msg, termination_flag, c2s, up>>,
         \/ m.t = "server_cancel"
         \/ m.t = "load_progress" /\ spc[c] = "game" /\ s2c[c] = <<>> /\ stale' = stale
            /\ send_server_cancel' = send_server_cancel,
         spc[c] # "none", spc'[c] = spc[c] \/ (spc[c] = "cancel" /\ spc'[c] = "cancelled"),
         currently_sending_message'[c] => spc'[c] \in {"message", "cancel", "gone"},
         stale'[c] \in {0, asked[c]}
  PROVE  ConnInv(c)' /\ LinkTypes' /\ \A d \in Conns \ {c} : s2c'[d] = s2c[d]
<1>1. /\ s2c' \in [Conns -> Seq(Messages)]
      /\ \A d \in Conns \ {c} : s2c'[d] = s2c[d]
      /\ ~up[c] => s2c'[c] = s2c[c]
      /\ up[c] => On(s2c'[c]) = On(s2c[c]) \cup {m}
      /\ OneResponse(s2c[c]) => OneResponse(s2c'[c])
      /\ ProgressFirst(s2c[c]) => ProgressFirst(s2c'[c])
  BY ToClientIs
<1>2. LinkTypes'
  BY <1>1 DEF LinkTypes
<1>3. /\ NoResponses(s2c'[c]) <=> NoResponses(s2c[c])
      /\ up[c] => \A x \in On(s2c'[c]) : x \in On(s2c[c]) \/ x = m
      /\ \A x \in On(s2c[c]) : x \in On(s2c'[c])
  BY <1>1 DEF NoResponses
<1>4. Current(c)' /\ Places(c)'
  BY DEF ConnInv, Current, Places
<1>5. Balanced(c)'
  BY <1>1, <1>3 DEF ConnInv, Balanced, Working
<1>6. AsksCaller(c)'
  <2>1. Has(s2c'[c], "request") => Has(s2c[c], "request")
    BY <1>1 DEF Has, IsResponse
  <2>2. Runs(c)' => Runs(c)
    BY DEF Runs
  <2>3. Has(s2c'[c], "load_progress") => Has(s2c[c], "load_progress") \/ (up[c] /\ Runs(c))
    BY <1>1 DEF Has, Runs
  <2> QED
    BY <1>1, <2>1, <2>2, <2>3 DEF ConnInv, AsksCaller, Working
<1>7. Answered(c)'
  <2>1. m.t # "request" /\ m # Reply("play_game")
    BY DEF IsResponse, Reply
  <2> QED
    BY <1>1, <1>3, <2>1 DEF ConnInv, Answered, Working
<1>8. CancelKept(c)'
  <2>1. CASE m.t = "server_cancel"
    <3>1. up[c] => Has(s2c'[c], "server_cancel")
      BY <1>1, <2>1 DEF Has
    <3> QED
      BY <3>1 DEF CancelKept, Working
  <2>2. CASE m.t = "load_progress"
    BY <2>2 DEF ConnInv, Places, CancelKept
  <2> QED
    BY <2>1, <2>2
<1> QED
  BY <1>1, <1>2, <1>4, <1>5, <1>6, <1>7, <1>8 DEF ConnInv

LEMMA SendCancelKeeps ==
  ASSUME ServerTypes, LinkTypes, NEW c \in Conns, ConnInv(c), SendCancel(c)
  PROVE  ServerKept(c)
<1>1. Cancel \in Messages /\ Cancel.t = "server_cancel" /\ ~IsResponse(Cancel)
  BY DEF Cancel, Messages, IsResponse
<1>2. /\ UNCHANGED <<calls, cpc, sockfd, signalled>>
      /\ UNCHANGED <<out, asked, playing, can_send_msg, termination_flag, c2s, up, stale,
                     send_server_cancel>>
      /\ spc[c] = "cancel" /\ spc'[c] = "cancelled" /\ ~currently_sending_message'[c]
      /\ stale[c] \in {0, asked[c]}
  BY DEF SendCancel, client, ServerTypes, ConnInv, Places
<1>3. ToClient(c, Cancel)
  BY DEF SendCancel
<1>4. ConnInv(c)' /\ LinkTypes' /\ \A d \in Conns \ {c} : s2c'[d] = s2c[d]
  BY <1>1, <1>2, <1>3, AsideKeeps
<1>5. ServerTypes'
  BY DEF SendCancel, ServerTypes, counts
<1>6. \A d \in Conns \ {c} : Same(d)
  BY <1>4 DEF SendCancel, ServerTypes, Same
<1> QED
  BY <1>4, <1>5, <1>6 DEF ServerKept

LEMMA GameLoadsKeeps ==
  ASSUME ServerTypes, LinkTypes, NEW c \in Conns, ConnInv(c), GameLoads(c)
  PROVE  ServerKept(c)
<1>1. Progress \in Messages /\ Progress.t = "load_progress" /\ ~IsResponse(Progress)
  BY DEF Progress, Messages, IsResponse
<1>2. /\ UNCHANGED <<calls, cpc, sockfd, signalled>>
      /\ UNCHANGED <<spc, out, asked, playing, can_send_msg, termination_flag, c2s, up, stale,
                     send_server_cancel, currently_sending_message>>
      /\ spc[c] = "game" /\ s2c[c] = <<>>
      /\ stale[c] \in {0, asked[c]}
      /\ currently_sending_message[c] => spc[c] \in {"message", "cancel", "gone"}
  BY DEF GameLoads, client, server, sending, ConnInv, Places
<1>3. ToClient(c, Progress)
  BY DEF GameLoads
<1>4. ConnInv(c)' /\ LinkTypes' /\ \A d \in Conns \ {c} : s2c'[d] = s2c[d]
  BY <1>1, <1>2, <1>3, AsideKeeps
<1>5. ServerTypes'
  BY <1>2 DEF GameLoads, ServerTypes, server, counts
<1>6. \A d \in Conns \ {c} : Same(d)
  BY <1>2, <1>4 DEF Same
<1> QED
  BY <1>4, <1>5, <1>6 DEF ServerKept

\* A monitor signal remembers the cancel, or sends it.
LEMMA MonitorSignalKeeps ==
  ASSUME ServerTypes, LinkTypes, NEW c \in Conns, ConnInv(c), MonitorSignal(c)
  PROVE  ServerKept(c)
<1>1. Cancel \in Messages /\ Cancel.t = "server_cancel" /\ ~IsResponse(Cancel)
  BY DEF Cancel, Messages, IsResponse
<1>2. /\ UNCHANGED <<calls, cpc, sockfd, signalled>>
      /\ UNCHANGED <<spc, out, asked, playing, can_send_msg, termination_flag, c2s, up,
                     currently_sending_message>>
      /\ playing[c] /\ stale'[c] = asked[c]
      /\ \A d \in Conns \ {c} : /\ stale'[d] = stale[d]
                                /\ send_server_cancel'[d] = send_server_cancel[d]
  BY DEF MonitorSignal, client, ServerTypes
<1>3. spc[c] # "none"
  BY <1>2 DEF ConnInv, Current
<1>4. ServerTypes'
  <2>1. stale' \in [Conns -> 0..MaxPrompts] /\ send_server_cancel' \in [Conns -> BOOLEAN]
    BY DEF MonitorSignal, ServerTypes
  <2> QED
    BY <2>1 DEF MonitorSignal, ServerTypes
<1>5. CASE ~currently_sending_message[c]
  <2>1. ToClient(c, Cancel)
    BY <1>5 DEF MonitorSignal
  <2>2. ConnInv(c)' /\ LinkTypes' /\ \A d \in Conns \ {c} : s2c'[d] = s2c[d]
    BY <1>1, <1>2, <1>3, <1>5, <2>1, AsideKeeps
  <2>3. \A d \in Conns \ {c} : Same(d)
    BY <1>2, <2>2 DEF Same
  <2> QED
    BY <1>4, <2>2, <2>3 DEF ServerKept
<1>6. CASE currently_sending_message[c]
  <2>1. s2c' = s2c /\ send_server_cancel'[c] /\ spc[c] \in {"message", "cancel"}
    BY <1>2, <1>6 DEF MonitorSignal, ServerTypes, ConnInv, Places
  <2>2. Current(c)' /\ Places(c)'
    BY <1>2, <1>3, <2>1 DEF ConnInv, Current, Places
  <2>3. Balanced(c)'
    BY <1>2, <2>1 DEF ConnInv, Balanced, Working
  <2>4. AsksCaller(c)'
    BY <1>2, <2>1 DEF ConnInv, AsksCaller, Runs, Working
  <2>5. Answered(c)'
    BY <1>2, <2>1 DEF ConnInv, Answered, Working
  <2>6. CancelKept(c)'
    BY <1>2, <2>1 DEF CancelKept, Working
  <2>7. LinkTypes' /\ \A d \in Conns \ {c} : Same(d)
    BY <1>2, <2>1 DEF Same, LinkTypes
  <2> QED
    BY <1>4, <2>2, <2>3, <2>4, <2>5, <2>6, <2>7 DEF ConnInv, ServerKept
<1> QED
  BY <1>5, <1>6

LEMMA SigTermKeeps ==
  ASSUME ServerTypes, LinkTypes, NEW c \in Conns, ConnInv(c), SigTerm(c)
  PROVE  ServerKept(c)
<1>1. /\ UNCHANGED <<calls, cpc, sockfd, signalled>>
      /\ UNCHANGED <<spc, out, asked, playing, can_send_msg, c2s, s2c, up, stale,
                     send_server_cancel, currently_sending_message>>
      /\ spc[c] # "none" /\ termination_flag'[c] = 1
      /\ \A d \in Conns \ {c} : termination_flag'[d] = termination_flag[d]
  BY DEF SigTerm, client, sending, links, ServerTypes
<1>2. ServerTypes' /\ LinkTypes'
  BY <1>1 DEF SigTerm, ServerTypes, LinkTypes
<1>3. Current(c)' /\ Places(c)'
  BY <1>1 DEF ConnInv, Current, Places
<1>4. Balanced(c)'
  BY <1>1 DEF ConnInv, Balanced, Working
<1>5. AsksCaller(c)'
  BY <1>1 DEF ConnInv, AsksCaller, Runs, Working
<1>6. Answered(c)' /\ CancelKept(c)'
  BY <1>1 DEF Answered, CancelKept, Working
<1>7. \A d \in Conns \ {c} : Same(d)
  BY <1>1 DEF Same
<1> QED
  BY <1>2, <1>3, <1>4, <1>5, <1>6, <1>7 DEF ConnInv, ServerKept

\* The connection breaks, with what was on the way or without.
LEMMA BreakKeeps ==
  ASSUME ServerTypes, LinkTypes, NEW c \in Conns, ConnInv(c), Break(c)
  PROVE  ServerKept(c)
<1>1. /\ UNCHANGED <<calls, cpc, sockfd, signalled>>
      /\ UNCHANGED <<spc, out, asked, playing, can_send_msg, stale, termination_flag,
                     send_server_cancel, currently_sending_message>>
      /\ up[c] /\ ~up'[c]
      /\ c2s'[c] \in {c2s[c], <<>>} /\ s2c'[c] \in {s2c[c], <<>>}
      /\ \A d \in Conns \ {c} : c2s'[d] = c2s[d] /\ s2c'[d] = s2c[d] /\ up'[d] = up[d]
  BY DEF Break, client, server, sending, LinkTypes
<1>2. LinkTypes'
  BY NothingOn DEF Break, LinkTypes
<1>3. ServerTypes'
  BY DEF Break, server, sending, counts, ServerTypes
<1>4. Current(c)' /\ Places(c)'
  BY <1>1 DEF ConnInv, Current, Places
<1>5. /\ \A m \in On(s2c'[c]) : m \in On(s2c[c])
      /\ \A m \in On(c2s'[c]) : m \in On(c2s[c])
      /\ OneResponse(s2c[c]) => OneResponse(s2c'[c])
      /\ ProgressFirst(s2c[c]) => ProgressFirst(s2c'[c])
      /\ Len(c2s[c]) <= 1 => Len(c2s'[c]) <= 1
  BY <1>1, NothingOn
<1>6. Balanced(c)'
  BY <1>1, <1>5 DEF ConnInv, Balanced, Working, NoResponses
<1>7. AsksCaller(c)'
  BY <1>1, <1>5 DEF ConnInv, AsksCaller, Working, Has
<1>8. Answered(c)' /\ CancelKept(c)'
  BY <1>1, <1>5 DEF ConnInv, Answered, CancelKept, Working
<1>9. \A d \in Conns \ {c} : Same(d)
  BY <1>1 DEF Same
<1> QED
  BY <1>2, <1>3, <1>4, <1>6, <1>7, <1>8, <1>9 DEF ConnInv, ServerKept

--------------------------------------------------------------------------------
(****************************************************************************)
(* The process of a connection gives up: the connection is gone.            *)
(****************************************************************************)

ProcessPlaces == {"none", "main", "message", "sent", "cancel", "cancelled",
            "game", "request", "request again", "update", "gone"}

LEMMA ErrorSent ==
  ASSUME LinkTypes, NEW c \in Conns, NEW e \in BOOLEAN,
         ToClient(c, ServerError(e)) \/ UNCHANGED s2c
  PROVE  /\ s2c' \in [Conns -> Seq(Messages)]
         /\ \A d \in Conns \ {c} : s2c'[d] = s2c[d]
         /\ OneResponse(s2c[c]) => OneResponse(s2c'[c])
         /\ NoResponses(s2c[c]) => NoResponses(s2c'[c])
         /\ ProgressFirst(s2c[c]) => ProgressFirst(s2c'[c])
         /\ Has(s2c'[c], "request") => Has(s2c[c], "request")
         /\ Has(s2c'[c], "load_progress") => Has(s2c[c], "load_progress")
<1>1. PICK m : m = ServerError(e)
  OBVIOUS
<1>2. m \in Messages /\ ~IsResponse(m) /\ m.t = "server_error"
  BY <1>1 DEF Messages, IsResponse, ServerError
<1>3. CASE UNCHANGED s2c
  BY <1>3 DEF LinkTypes
<1>4. CASE ToClient(c, m)
  <2>1. /\ s2c' \in [Conns -> Seq(Messages)]
        /\ \A d \in Conns \ {c} : s2c'[d] = s2c[d]
        /\ ~up[c] => s2c'[c] = s2c[c]
        /\ up[c] => On(s2c'[c]) = On(s2c[c]) \cup {m}
        /\ OneResponse(s2c[c]) => OneResponse(s2c'[c])
        /\ ProgressFirst(s2c[c]) => ProgressFirst(s2c'[c])
    BY <1>2, <1>4, ToClientIs
  <2>2. \A x \in On(s2c'[c]) : x \in On(s2c[c]) \/ x = m
    BY <2>1
  <2> QED
    BY <1>2, <2>1, <2>2 DEF NoResponses, Has
<1> QED
  BY <1>1, <1>3, <1>4

LEMMA ReplyIs ==
  \A cmd \in MenuCommands \cup AsyncCommands \cup {"shutdown"} :
    /\ Reply(cmd) \in Messages /\ IsResponse(Reply(cmd)) /\ Reply(cmd).t = "reply"
    /\ cmd # "play_game" => Reply(cmd) # Reply("play_game")
<1>1. ASSUME NEW cmd \in MenuCommands \cup AsyncCommands \cup {"shutdown"}
      PROVE  /\ Reply(cmd) \in Messages /\ IsResponse(Reply(cmd)) /\ Reply(cmd).t = "reply"
             /\ cmd # "play_game" => Reply(cmd) # Reply("play_game")
  <2>1. Reply(cmd) \in Messages
    BY DEF Reply, Messages
  <2>2. Reply(cmd).cmd = cmd /\ Reply("play_game").cmd = "play_game" /\ Reply(cmd).t = "reply"
    BY DEF Reply
  <2> QED
    BY <2>1, <2>2 DEF IsResponse
<1> QED
  BY <1>1

\* The game that returns: its status is to be sent.
LEMMA GameReturnsIs ==
  ASSUME ServerTypes, NEW c \in Conns, GameReturns(c)
  PROVE  /\ spc'[c] = "message" /\ out'[c] = Reply("play_game")
         /\ asked'[c] = 0 /\ stale'[c] = 0 /\ ~playing'[c]
         /\ spc' \in [Conns -> ProcessPlaces] /\ out' \in [Conns -> Messages]
         /\ after' \in [Conns -> {"main", "request", "request again", "update"}]
         /\ asked' \in [Conns -> 0..MaxPrompts] /\ stale' \in [Conns -> 0..MaxPrompts]
         /\ playing' \in [Conns -> BOOLEAN]
         /\ currently_sending_message' \in [Conns -> BOOLEAN]
         /\ \A d \in Conns \ {c} :
              /\ spc'[d] = spc[d] /\ out'[d] = out[d] /\ asked'[d] = asked[d]
              /\ stale'[d] = stale[d] /\ playing'[d] = playing[d]
              /\ currently_sending_message'[d] = currently_sending_message[d]
<1>1. PICK r \in Messages : r = Reply("play_game")
  BY ReplyIs DEF MenuCommands
<1>2. 0 \in 0..MaxPrompts
  BY BoundsAssumption
<1>3. out' = [out EXCEPT ![c] = r]
  BY <1>1 DEF GameReturns, Say
<1>4. spc' = [spc EXCEPT ![c] = "message"] /\ after' = [after EXCEPT ![c] = "update"]
  BY DEF GameReturns, Say
<1>5. currently_sending_message' = [currently_sending_message EXCEPT ![c] = TRUE]
  BY DEF GameReturns, Say
<1>6. /\ asked' = [asked EXCEPT ![c] = 0] /\ stale' = [stale EXCEPT ![c] = 0]
      /\ playing' = [playing EXCEPT ![c] = FALSE]
  BY DEF GameReturns
<1> QED
  BY <1>1, <1>2, <1>3, <1>4, <1>5, <1>6 DEF ServerTypes, ProcessPlaces

LEMMA ProcessEndsIs ==
  ASSUME ServerTypes, NEW c \in Conns,
         \/ playing[c] /\ GameReturns(c)
         \/ ~playing[c] /\ spc' = [spc EXCEPT ![c] = "gone"]
            /\ asked' = [asked EXCEPT ![c] = 0] /\ stale' = [stale EXCEPT ![c] = 0]
            /\ UNCHANGED <<out, after, playing, currently_sending_message>>
  PROVE  /\ spc'[c] \in {"gone", "message"}
         /\ spc'[c] = "message" => out'[c] = Reply("play_game")
         /\ asked'[c] = 0 /\ stale'[c] = 0 /\ ~playing'[c]
         /\ spc' \in [Conns -> ProcessPlaces] /\ out' \in [Conns -> Messages]
         /\ after' \in [Conns -> {"main", "request", "request again", "update"}]
         /\ asked' \in [Conns -> 0..MaxPrompts] /\ stale' \in [Conns -> 0..MaxPrompts]
         /\ playing' \in [Conns -> BOOLEAN]
         /\ currently_sending_message' \in [Conns -> BOOLEAN]
         /\ \A d \in Conns \ {c} :
              /\ spc'[d] = spc[d] /\ out'[d] = out[d] /\ asked'[d] = asked[d]
              /\ stale'[d] = stale[d] /\ playing'[d] = playing[d]
              /\ currently_sending_message'[d] = currently_sending_message[d]
<1>1. CASE GameReturns(c)
  BY <1>1, GameReturnsIs
<1>2. CASE ~playing[c] /\ spc' = [spc EXCEPT ![c] = "gone"]
           /\ asked' = [asked EXCEPT ![c] = 0] /\ stale' = [stale EXCEPT ![c] = 0]
           /\ UNCHANGED <<out, after, playing, currently_sending_message>>
  <2>1. 0 \in 0..MaxPrompts
    BY BoundsAssumption
  <2>2. /\ spc' \in [Conns -> ProcessPlaces] /\ spc'[c] = "gone"
        /\ \A d \in Conns \ {c} : spc'[d] = spc[d]
    BY <1>2 DEF ServerTypes, ProcessPlaces
  <2>3. /\ asked' \in [Conns -> 0..MaxPrompts] /\ stale' \in [Conns -> 0..MaxPrompts]
        /\ asked'[c] = 0 /\ stale'[c] = 0
        /\ \A d \in Conns \ {c} : asked'[d] = asked[d] /\ stale'[d] = stale[d]
    BY <1>2, <2>1 DEF ServerTypes
  <2> QED
    BY <1>2, <2>2, <2>3 DEF ServerTypes
<1> QED
  BY <1>1, <1>2

LEMMA ExitClientKeeps ==
  ASSUME ServerTypes, LinkTypes, NEW c \in Conns, ConnInv(c), spc[c] # "none",
         NEW turn \in BOOLEAN, NEW e \in BOOLEAN, ExitClient(c, turn, e),
         UNCHANGED <<client, c2s, counts>>
  PROVE  ServerKept(c)
<1>1. /\ spc'[c] \in {"gone", "message"}
      /\ spc'[c] = "message" => out'[c] = Reply("play_game")
      /\ asked'[c] = 0 /\ stale'[c] = 0 /\ ~playing'[c]
      /\ spc' \in [Conns -> ProcessPlaces] /\ out' \in [Conns -> Messages]
      /\ after' \in [Conns -> {"main", "request", "request again", "update"}]
      /\ asked' \in [Conns -> 0..MaxPrompts] /\ stale' \in [Conns -> 0..MaxPrompts]
      /\ playing' \in [Conns -> BOOLEAN]
      /\ currently_sending_message' \in [Conns -> BOOLEAN]
      /\ \A d \in Conns \ {c} :
           /\ spc'[d] = spc[d] /\ out'[d] = out[d] /\ asked'[d] = asked[d]
           /\ stale'[d] = stale[d] /\ playing'[d] = playing[d]
           /\ currently_sending_message'[d] = currently_sending_message[d]
  BY ProcessEndsIs DEF ExitClient
<1>2. /\ s2c' \in [Conns -> Seq(Messages)]
      /\ \A d \in Conns \ {c} : s2c'[d] = s2c[d]
      /\ OneResponse(s2c[c]) => OneResponse(s2c'[c])
      /\ NoResponses(s2c[c]) => NoResponses(s2c'[c])
      /\ ProgressFirst(s2c[c]) => ProgressFirst(s2c'[c])
      /\ Has(s2c'[c], "request") => Has(s2c[c], "request")
      /\ Has(s2c'[c], "load_progress") => Has(s2c[c], "load_progress")
  BY ErrorSent DEF ExitClient
<1>3. /\ termination_flag' \in [Conns -> {0, 1, 3}] /\ termination_flag'[c] = 3
      /\ fdsOpen' \in [Conns -> BOOLEAN]
      /\ \A d \in Conns \ {c} : termination_flag'[d] = termination_flag[d]
  BY DEF ExitClient, ServerTypes
<1>4. /\ can_send_msg' \in [Conns -> BOOLEAN]
      /\ \A d \in Conns \ {c} : can_send_msg'[d] = can_send_msg[d]
  <2>1. PICK b \in BOOLEAN : b = (turn /\ ~fdsOpen[c])
    OBVIOUS
  <2>2. can_send_msg' = [can_send_msg EXCEPT ![c] = b]
    BY <2>1 DEF ExitClient
  <2> QED
    BY <2>2 DEF ServerTypes
<1>5. /\ up' \in [Conns -> BOOLEAN] /\ ~up'[c]
      /\ \A d \in Conns \ {c} : up'[d] = up[d]
  BY DEF ExitClient, LinkTypes
<1>6. UNCHANGED send_server_cancel /\ c2s' = c2s /\ UNCHANGED client /\ nprompts' = nprompts
  BY DEF ExitClient, counts
<1>7. ConnInv(c)'
  <2>1. /\ asked'[c] = 0 /\ stale'[c] = 0
        /\ spc'[c] \in {"gone", "message"}
        /\ spc'[c] = "message" => out'[c] = Reply("play_game")
        /\ ~playing'[c]
    BY <1>1
  <2>2. ~up'[c] /\ termination_flag'[c] # 0 /\ UNCHANGED client
    BY <1>3, <1>5, <1>6
  <2> QED
    BY <1>2, <2>1, <2>2, GoneKeeps
<1>8. ServerTypes' /\ LinkTypes'
  BY <1>1, <1>2, <1>3, <1>4, <1>5, <1>6 DEF ServerTypes, LinkTypes, ProcessPlaces
<1>9. \A d \in Conns \ {c} : Same(d)
  BY <1>1, <1>2, <1>3, <1>4, <1>5, <1>6 DEF Same
<1> QED
  BY <1>7, <1>8, <1>9 DEF ServerKept

LEMMA SendFailsKeeps ==
  ASSUME ServerTypes, LinkTypes, NEW c \in Conns, ConnInv(c), SendFails(c)
  PROVE  ServerKept(c)
<1>1. /\ spc'[c] \in {"gone", "message"}
      /\ spc'[c] = "message" => out'[c] = Reply("play_game")
      /\ asked'[c] = 0 /\ stale'[c] = 0 /\ ~playing'[c]
      /\ spc' \in [Conns -> ProcessPlaces] /\ out' \in [Conns -> Messages]
      /\ after' \in [Conns -> {"main", "request", "request again", "update"}]
      /\ asked' \in [Conns -> 0..MaxPrompts] /\ stale' \in [Conns -> 0..MaxPrompts]
      /\ playing' \in [Conns -> BOOLEAN]
      /\ currently_sending_message' \in [Conns -> BOOLEAN]
      /\ \A d \in Conns \ {c} :
           /\ spc'[d] = spc[d] /\ out'[d] = out[d] /\ asked'[d] = asked[d]
           /\ stale'[d] = stale[d] /\ playing'[d] = playing[d]
           /\ currently_sending_message'[d] = currently_sending_message[d]
  BY ProcessEndsIs DEF SendFails
<1>2. UNCHANGED <<s2c, c2s, up, can_send_msg, send_server_cancel, nprompts, client>>
  BY DEF SendFails, links, counts
<1>3. /\ termination_flag' \in [Conns -> {0, 1, 3}] /\ termination_flag'[c] = 3
      /\ fdsOpen' \in [Conns -> BOOLEAN] /\ ~up[c] /\ spc[c] = "message"
      /\ \A d \in Conns \ {c} : termination_flag'[d] = termination_flag[d]
  BY DEF SendFails, ServerTypes
<1>4. ConnInv(c)'
  <2>1. /\ asked'[c] = 0 /\ stale'[c] = 0
        /\ spc'[c] \in {"gone", "message"}
        /\ spc'[c] = "message" => out'[c] = Reply("play_game")
        /\ ~playing'[c]
    BY <1>1
  <2>2. /\ ~up'[c] /\ termination_flag'[c] # 0 /\ spc[c] # "none"
        /\ s2c'[c] = s2c[c] /\ UNCHANGED client
    BY <1>2, <1>3
  <2> QED
    BY <2>1, <2>2, GoneKeeps
<1>5. ServerTypes' /\ LinkTypes'
  BY <1>1, <1>2, <1>3 DEF ServerTypes, LinkTypes, ProcessPlaces
<1>6. \A d \in Conns \ {c} : Same(d)
  BY <1>1, <1>2, <1>3 DEF Same
<1> QED
  BY <1>4, <1>5, <1>6 DEF ServerKept

LEMMA InputLostKeeps ==
  ASSUME ServerTypes, LinkTypes, NEW c \in Conns, ConnInv(c),
         InputLost(c) \/ InactivityTimeout(c)
  PROVE  ServerKept(c)
<1>1. /\ spc[c] # "none" /\ UNCHANGED <<client, c2s, counts>>
      /\ ExitClient(c, can_send_msg[c], TRUE)
  BY DEF InputLost, InactivityTimeout, Reads
<1>2. can_send_msg[c] \in BOOLEAN
  BY DEF ServerTypes
<1> QED
  BY <1>1, <1>2, ExitClientKeeps

LEMMA TerminatedKeeps ==
  ASSUME ServerTypes, LinkTypes, NEW c \in Conns, ConnInv(c), Terminated(c)
  PROVE  ServerKept(c)
<1>1. spc[c] # "none" /\ UNCHANGED <<client, c2s, counts>> /\ termination_flag[c] # 0
  BY DEF Terminated, Reads
<1>2. CASE spc[c] # "request again"
  <2>1. PICK turn \in BOOLEAN : ExitClient(c, turn, spc[c] # "main")
    BY <1>2 DEF Terminated, ServerTypes
  <2> QED
    BY <1>1, <2>1, ExitClientKeeps
<1>3. CASE spc[c] = "request again"
  <2>1. /\ ToClient(c, ServerError(TRUE))
        /\ fdsOpen' = [fdsOpen EXCEPT ![c] = FALSE]
        /\ up' = [up EXCEPT ![c] = FALSE]
        /\ spc' = [spc EXCEPT ![c] = "gone"]
        /\ asked' = [asked EXCEPT ![c] = 0] /\ stale' = [stale EXCEPT ![c] = 0]
        /\ playing' = [playing EXCEPT ![c] = FALSE]
        /\ can_send_msg' = [can_send_msg EXCEPT ![c] = FALSE]
        /\ UNCHANGED <<out, after, currently_sending_message,
                       send_server_cancel, termination_flag>>
    BY <1>3 DEF Terminated
  <2>2. /\ s2c' \in [Conns -> Seq(Messages)]
        /\ \A d \in Conns \ {c} : s2c'[d] = s2c[d]
        /\ OneResponse(s2c[c]) => OneResponse(s2c'[c])
        /\ NoResponses(s2c[c]) => NoResponses(s2c'[c])
        /\ ProgressFirst(s2c[c]) => ProgressFirst(s2c'[c])
        /\ Has(s2c'[c], "request") => Has(s2c[c], "request")
        /\ Has(s2c'[c], "load_progress") => Has(s2c[c], "load_progress")
    BY <2>1, ErrorSent
  <2>3. 0 \in 0..MaxPrompts
    BY BoundsAssumption
  <2>4. /\ spc'[c] = "gone" /\ asked'[c] = 0 /\ stale'[c] = 0 /\ ~playing'[c] /\ ~up'[c]
        /\ spc' \in [Conns -> ProcessPlaces]
        /\ asked' \in [Conns -> 0..MaxPrompts] /\ stale' \in [Conns -> 0..MaxPrompts]
        /\ playing' \in [Conns -> BOOLEAN] /\ can_send_msg' \in [Conns -> BOOLEAN]
        /\ fdsOpen' \in [Conns -> BOOLEAN] /\ up' \in [Conns -> BOOLEAN]
    BY <2>1, <2>3 DEF ServerTypes, LinkTypes, ProcessPlaces
  <2>5. \A d \in Conns \ {c} :
          /\ spc'[d] = spc[d] /\ asked'[d] = asked[d] /\ stale'[d] = stale[d]
          /\ playing'[d] = playing[d] /\ can_send_msg'[d] = can_send_msg[d]
          /\ up'[d] = up[d]
    BY <2>1 DEF ServerTypes, LinkTypes
  <2>6. ConnInv(c)'
    BY <1>1, <2>1, <2>2, <2>4, GoneKeeps
  <2>7. ServerTypes' /\ LinkTypes'
    BY <1>1, <2>1, <2>2, <2>4 DEF ServerTypes, LinkTypes, ProcessPlaces, counts
  <2>8. \A d \in Conns \ {c} : Same(d)
    BY <1>1, <2>1, <2>2, <2>5 DEF Same
  <2> QED
    BY <2>6, <2>7, <2>8 DEF ServerKept
<1> QED
  BY <1>2, <1>3

--------------------------------------------------------------------------------
(****************************************************************************)
(* The command loop of a process, and its game.                             *)
(****************************************************************************)

LEMMA GameAsksKeeps ==
  ASSUME ServerTypes, LinkTypes, NEW c \in Conns, ConnInv(c), GameAsks(c)
  PROVE  ServerKept(c)
<1>1. PICK n \in 1..MaxPrompts : n = nprompts + 1
  <2>1. nprompts \in 0..MaxPrompts /\ nprompts < MaxPrompts
    BY DEF GameAsks, ServerTypes
  <2>2. MaxPrompts \in Nat
    BY BoundsAssumption
  <2>3. nprompts + 1 \in 1..MaxPrompts
    BY <2>1, <2>2
  <2> QED
    BY <2>3
<1>2. PICK m \in Messages : m = Request(n)
  BY DEF Request, Messages
<1>3. m.t = "request" /\ m.n = n /\ IsResponse(m) /\ m # Reply("play_game")
  BY <1>2 DEF Request, Reply, IsResponse
<1>4. /\ spc[c] = "game" /\ nprompts' = n
      /\ spc' = [spc EXCEPT ![c] = "message"]
      /\ out' = [out EXCEPT ![c] = m] /\ after' = [after EXCEPT ![c] = "request"]
      /\ asked' = [asked EXCEPT ![c] = n]
      /\ currently_sending_message' = [currently_sending_message EXCEPT ![c] = TRUE]
  BY <1>1, <1>2 DEF GameAsks, Say
<1>5. /\ UNCHANGED <<calls, cpc, sockfd, signalled>>
      /\ UNCHANGED <<playing, can_send_msg, send_server_cancel, termination_flag, fdsOpen,
                     c2s, s2c, up, stale>>
  BY DEF GameAsks, client, links
<1>6. n \in 0..MaxPrompts
  BY <1>1
<1>7. ServerTypes' /\ LinkTypes'
  <2>1. spc' \in [Conns -> ProcessPlaces] /\ out' \in [Conns -> Messages]
    BY <1>4 DEF ServerTypes, ProcessPlaces
  <2>2. asked' \in [Conns -> 0..MaxPrompts] /\ nprompts' \in 0..MaxPrompts
    BY <1>4, <1>6 DEF ServerTypes
  <2>3. after' \in [Conns -> {"main", "request", "request again", "update"}]
    BY <1>4 DEF ServerTypes
  <2>4. currently_sending_message' \in [Conns -> BOOLEAN]
    BY <1>4 DEF ServerTypes
  <2> QED
    BY <1>5, <2>1, <2>2, <2>3, <2>4 DEF ServerTypes, LinkTypes, ProcessPlaces
<1>8. /\ spc'[c] = "message" /\ out'[c] = m /\ asked'[c] = n
      /\ currently_sending_message'[c]
      /\ \A d \in Conns \ {c} :
           /\ spc'[d] = spc[d] /\ out'[d] = out[d] /\ asked'[d] = asked[d]
           /\ currently_sending_message'[d] = currently_sending_message[d]
  BY <1>4 DEF ServerTypes
<1>9. asked[c] = 0 /\ stale[c] = 0
  BY <1>4 DEF ConnInv, Places
<1>10. Current(c)' /\ Places(c)'
  BY <1>3, <1>4, <1>5, <1>8, <1>9 DEF ConnInv, Current, Places
<1>11. Balanced(c)'
  BY <1>5 DEF ConnInv, Balanced, Working
<1>12. up[c] \/ termination_flag[c] = 0 => can_send_msg[c] /\ c2s[c] = <<>>
  BY <1>4 DEF ConnInv, Places, Balanced
<1>13. Working(c) => cpc = "wait" /\ NoResponses(s2c[c])
  BY <1>12 DEF ConnInv, Balanced, Working
<1>14. /\ c = sockfd /\ up[c] /\ cpc # "undefined" =>
            Len(calls) = 1 /\ calls[1].cmd = "play_game" /\ cpc \in {"wait", "retry"}
  BY <1>4 DEF ConnInv, AsksCaller, Runs
<1>15. AsksCaller(c)'
  <2>1. Working(c) => c = sockfd
    BY DEF ConnInv, Current, Working
  <2>2. Working(c)' => calls # <<>> /\ calls[1].cmd = "play_game" /\ cpc = "wait"
    <3>1. Len(calls) = 1 => calls # <<>>
      OBVIOUS
    <3> QED
      BY <1>5, <1>13, <1>14, <2>1, <3>1 DEF Working
  <2>3. c = sockfd /\ cpc # "undefined" =>
           /\ Has(s2c[c], "request") \/ up[c] =>
                Len(calls) = 1 /\ calls[1].cmd = "play_game" /\ cpc \in {"wait", "retry"}
           /\ Has(s2c[c], "load_progress") => cpc \in {"wait", "retry"}
    BY <1>14 DEF ConnInv, AsksCaller
  <2>4. ProgressFirst(s2c[c])
    BY DEF ConnInv, AsksCaller
  <2>5. termination_flag[c] = 0 => \A x : x \notin On(c2s[c])
    BY <1>12, NothingOn
  <2> QED
    BY <1>5, <2>2, <2>3, <2>4, <2>5 DEF AsksCaller
<1>16. Answered(c)'
  <2>1. termination_flag[c] = 0 => \A x : x \notin On(c2s[c])
    BY <1>12, NothingOn
  <2>2. Working(c) => Len(calls) = 1 /\ cpc = "wait"
    BY <1>13, <1>14 DEF ConnInv, Current, Working
  <2>3. Working(c) => \A x \in On(s2c[c]) : x.t # "request" /\ x # Reply("play_game")
    BY <1>13 DEF NoResponses, IsResponse, Reply
  <2> QED
    BY <1>5, <2>1, <2>2, <2>3 DEF Answered, Working
<1>17. CancelKept(c)'
  BY <1>5, <1>9 DEF CancelKept
<1>18. \A d \in Conns \ {c} : Same(d)
  BY <1>5, <1>8 DEF Same
<1> QED
  BY <1>7, <1>10, <1>11, <1>15, <1>16, <1>17, <1>18 DEF ConnInv, ServerKept

\* The game is over: its status is to be sent, and it is the server's turn.
LEMMA OverKeeps ==
  ASSUME NEW c \in Conns, ConnInv(c), UNCHANGED <<calls, cpc, sockfd, signalled>>,
         spc[c] # "none", spc'[c] = "message", out'[c] = Reply("play_game"),
         asked'[c] = 0, stale'[c] = 0, s2c'[c] = s2c[c], up'[c] = up[c],
         termination_flag'[c] = termination_flag[c],
         up[c] \/ termination_flag[c] = 0 => can_send_msg'[c] /\ c2s'[c] = <<>>,
         Working(c) => cpc = "wait" /\ NoResponses(s2c[c])
  PROVE  ConnInv(c)'
<1>1. IsResponse(Reply("play_game")) /\ Reply("play_game").t # "request"
  BY DEF IsResponse, Reply
<1>2. Current(c)' /\ Places(c)'
  BY <1>1 DEF ConnInv, Current, Places
<1>3. Balanced(c)'
  BY NothingOn DEF ConnInv, Balanced, Working
<1>4. up[c] \/ termination_flag[c] = 0 => \A x : x \notin On(c2s'[c])
  BY NothingOn
<1>5. AsksCaller(c)'
  <2>1. ~(up[c] /\ Runs(c)')
    BY <1>1, <1>4 DEF Runs
  <2> QED
    BY <2>1 DEF ConnInv, AsksCaller, Working
<1>6. Answered(c)'
  <2>1. Working(c) => \A x \in On(s2c[c]) : x.t # "request"
    BY DEF NoResponses, IsResponse
  <2> QED
    BY <1>4, <2>1 DEF Answered, Working
<1>7. CancelKept(c)'
  BY DEF CancelKept
<1> QED
  BY <1>2, <1>3, <1>5, <1>6, <1>7 DEF ConnInv

LEMMA GameEndsKeeps ==
  ASSUME ServerTypes, LinkTypes, NEW c \in Conns, ConnInv(c), GameEnds(c)
  PROVE  ServerKept(c)
<1>1. /\ UNCHANGED <<calls, cpc, sockfd, signalled>>
      /\ UNCHANGED <<can_send_msg, send_server_cancel, termination_flag, fdsOpen,
                     c2s, s2c, up, nprompts>>
      /\ spc[c] = "game"
  BY DEF GameEnds, client, links, counts
<1>2. /\ spc'[c] = "message" /\ out'[c] = Reply("play_game")
      /\ asked'[c] = 0 /\ stale'[c] = 0 /\ ~playing'[c]
      /\ spc' \in [Conns -> ProcessPlaces] /\ out' \in [Conns -> Messages]
      /\ after' \in [Conns -> {"main", "request", "request again", "update"}]
      /\ asked' \in [Conns -> 0..MaxPrompts] /\ stale' \in [Conns -> 0..MaxPrompts]
      /\ playing' \in [Conns -> BOOLEAN]
      /\ currently_sending_message' \in [Conns -> BOOLEAN]
      /\ \A d \in Conns \ {c} :
           /\ spc'[d] = spc[d] /\ out'[d] = out[d] /\ asked'[d] = asked[d]
           /\ stale'[d] = stale[d] /\ playing'[d] = playing[d]
           /\ currently_sending_message'[d] = currently_sending_message[d]
  BY GameReturnsIs DEF GameEnds
<1>3. up[c] \/ termination_flag[c] = 0 => can_send_msg[c] /\ c2s[c] = <<>>
  BY <1>1 DEF ConnInv, Places, Balanced
<1>4. Working(c) => cpc = "wait" /\ NoResponses(s2c[c])
  BY <1>3 DEF ConnInv, Balanced, Working
<1>5. ConnInv(c)'
  <2>1. /\ spc'[c] = "message" /\ out'[c] = Reply("play_game")
        /\ asked'[c] = 0 /\ stale'[c] = 0
    BY <1>2
  <2> QED
    BY <1>1, <1>3, <1>4, <2>1, OverKeeps
<1>6. ServerTypes' /\ LinkTypes'
  BY <1>1, <1>2 DEF ServerTypes, LinkTypes, ProcessPlaces
<1>7. \A d \in Conns \ {c} : Same(d)
  BY <1>1, <1>2 DEF Same
<1> QED
  BY <1>5, <1>6, <1>7 DEF ServerKept

\* What a process gets when it reads: the only message there is, on which it takes
\* the turn.
LEMMA GetsIs ==
  ASSUME ServerTypes, LinkTypes, NEW c \in Conns, ConnInv(c), NEW t, Gets(c, t),
         TakeInput(c)
  PROVE  /\ Reads(c) /\ termination_flag[c] = 0
         /\ c2s' \in [Conns -> Seq(Messages)] /\ can_send_msg' \in [Conns -> BOOLEAN]
         /\ \A d \in Conns \ {c} : c2s'[d] = c2s[d] /\ can_send_msg'[d] = can_send_msg[d]
         /\ c2s'[c] = <<>> /\ can_send_msg'[c] = TRUE
         /\ Head(c2s[c]) \in Messages /\ Head(c2s[c]).t = t
         /\ On(c2s[c]) = {Head(c2s[c])}
         /\ Working(c) => cpc = "wait" /\ NoResponses(s2c[c])
<1>1. Reads(c) /\ termination_flag[c] = 0 /\ c2s[c] # <<>> /\ Head(c2s[c]).t = t
  BY DEF Gets
<1>2. Len(c2s[c]) <= 1
  BY <1>1 DEF ConnInv, Balanced
<1>3. /\ c2s' \in [Conns -> Seq(Messages)] /\ can_send_msg' \in [Conns -> BOOLEAN]
      /\ \A d \in Conns \ {c} : c2s'[d] = c2s[d] /\ can_send_msg'[d] = can_send_msg[d]
      /\ c2s'[c] = <<>> /\ can_send_msg'[c] = TRUE
  BY <1>1, <1>2, TakeInputIs
<1>4. PICK q \in Seq(Messages) : q = c2s[c]
  BY DEF LinkTypes
<1>5. Head(q) \in Messages /\ (\A m : m \in On(q) <=> m = Head(q) \/ m \in On(Tail(q)))
      /\ Tail(q) = <<>>
  BY <1>1, <1>2, <1>4, OnTaken
<1>6. \A m : m \in On(q) <=> m \in {Head(q)}
  BY <1>5, NothingOn
<1>7. On(q) = {Head(q)}
  BY <1>6
<1>8. Working(c) => cpc = "wait" /\ NoResponses(s2c[c])
  BY <1>1 DEF ConnInv, Balanced
<1> QED
  BY <1>1, <1>3, <1>4, <1>5, <1>7, <1>8

\* A command is answered; the game, if one runs, still waits for its answer.
LEMMA ReplyKeeps ==
  ASSUME NEW c \in Conns, ConnInv(c), UNCHANGED <<calls, cpc, sockfd, signalled>>,
         spc[c] \in {"main", "request", "request again"}, spc'[c] = "message",
         NEW cmd \in MenuCommands \cup AsyncCommands \cup {"shutdown"},
         out'[c] = Reply(cmd), cmd = "play_game" => asked[c] = 0,
         UNCHANGED <<asked, stale, send_server_cancel, s2c, up>>,
         termination_flag[c] = 0, c2s'[c] = <<>>, can_send_msg'[c],
         ~Has(c2s[c], "answer"), Working(c) => cpc = "wait" /\ NoResponses(s2c[c])
  PROVE  ConnInv(c)'
<1>1. /\ IsResponse(Reply(cmd)) /\ Reply(cmd).t = "reply"
      /\ Reply(cmd) = Reply("play_game") => asked[c] = 0
  BY ReplyIs
<1>2. Current(c)' /\ Places(c)'
  BY <1>1 DEF ConnInv, Current, Places
<1>3. Balanced(c)'
  <2>1. Len(<<>>) <= 1
    BY NothingOn
  <2>2. Working(c)' <=> Working(c)
    BY DEF Working
  <2> QED
    BY <2>1, <2>2 DEF ConnInv, Balanced
<1>4. \A x : x \notin On(c2s'[c])
  BY NothingOn
<1>5. AsksCaller(c)'
  <2>1. ~Runs(c)'
    BY <1>1, <1>4 DEF Runs
  <2> QED
    BY <1>4, <2>1 DEF ConnInv, AsksCaller, Working
<1>6. Answered(c)'
  <2>1. Working(c) => \A x \in On(s2c[c]) : x.t # "request" /\ x # Reply("play_game")
    BY ReplyIs DEF NoResponses, IsResponse, MenuCommands
  <2>2. Working(c) /\ calls # <<>> /\ calls[1].msg # NoMsg /\ Len(calls) = 2 =>
          calls[1].msg.n = asked[c] \/ Reply("play_game") \in On(s2c[c])
    BY DEF ConnInv, Answered
  <2> QED
    BY <1>4, <2>1, <2>2 DEF Answered, Working
<1>7. CancelKept(c)'
  BY DEF ConnInv, CancelKept, Working
<1> QED
  BY <1>2, <1>3, <1>5, <1>6, <1>7 DEF ConnInv

LEMMA CommandIs ==
  \A m \in Messages : m.t = "command" =>
                        m.cmd \in MenuCommands \cup AsyncCommands \cup {"shutdown"}
  BY DEF Messages, NoMsg, Cancel, Progress, Shutdown

LEMMA MainCommandKeeps ==
  ASSUME ServerTypes, LinkTypes, NEW c \in Conns, ConnInv(c), MainCommand(c)
  PROVE  ServerKept(c)
<1>1. PICK m : m = Head(c2s[c])
  OBVIOUS
<1>2. /\ Reads(c) /\ termination_flag[c] = 0
      /\ c2s' \in [Conns -> Seq(Messages)] /\ can_send_msg' \in [Conns -> BOOLEAN]
      /\ \A d \in Conns \ {c} : c2s'[d] = c2s[d] /\ can_send_msg'[d] = can_send_msg[d]
      /\ c2s'[c] = <<>> /\ can_send_msg'[c] = TRUE
      /\ m \in Messages /\ m.t = "command" /\ On(c2s[c]) = {m}
      /\ Working(c) => cpc = "wait" /\ NoResponses(s2c[c])
  BY <1>1, GetsIs DEF MainCommand
<1>3. PICK cmd \in MenuCommands \cup AsyncCommands \cup {"shutdown"} : cmd = m.cmd
  BY <1>2, CommandIs
<1>4. /\ UNCHANGED <<calls, cpc, sockfd, signalled>>
      /\ UNCHANGED <<asked, send_server_cancel, fdsOpen, s2c, up, stale, nprompts>>
      /\ spc[c] = "main"
  BY DEF MainCommand, client, counts
<1>5. cmd = "play_game" => asked[c] = 0
  BY <1>2, <1>3 DEF ConnInv, AsksCaller, MenuCommands
<1>6. ~Has(c2s[c], "answer")
  BY <1>2 DEF Has
<1>7. CASE cmd = "play_game"
  <2>1. /\ termination_flag' = [termination_flag EXCEPT ![c] = @]
        /\ playing' = [playing EXCEPT ![c] = TRUE] /\ spc' = [spc EXCEPT ![c] = "game"]
        /\ UNCHANGED <<out, after, currently_sending_message>>
    BY <1>1, <1>3, <1>7 DEF MainCommand
  <2>2. /\ termination_flag' = termination_flag
        /\ playing' \in [Conns -> BOOLEAN] /\ spc' \in [Conns -> ProcessPlaces]
        /\ spc'[c] = "game"
        /\ \A d \in Conns \ {c} : playing'[d] = playing[d] /\ spc'[d] = spc[d]
    BY <2>1 DEF ServerTypes, ProcessPlaces
  <2>3. ServerTypes' /\ LinkTypes'
    BY <1>2, <1>4, <2>1, <2>2 DEF ServerTypes, LinkTypes, ProcessPlaces
  <2>4. \A d \in Conns \ {c} : Same(d)
    BY <1>2, <1>4, <2>1, <2>2 DEF Same
  <2>5. Current(c)'
    BY <1>4, <2>2 DEF ConnInv, Current
  <2>6. Places(c)'
    BY <1>2, <1>4, <1>5, <1>7, <2>1, <2>2 DEF ConnInv, Places
  <2>7. Balanced(c)'
    BY <1>2, <1>4, <2>2, NothingOn DEF ConnInv, Balanced, Working
  <2>8. AsksCaller(c)'
    <3>1. Runs(c)
      BY <1>2, <1>3, <1>7 DEF Runs
    <3>2. \A x : x \notin On(c2s'[c])
      BY <1>2, NothingOn
    <3> QED
      BY <1>4, <1>5, <1>7, <2>2, <3>1, <3>2 DEF ConnInv, AsksCaller, Working
  <2>9. Answered(c)'
    <3>1. \A x : x \notin On(c2s'[c])
      BY <1>2, NothingOn
    <3>2. Working(c) => \A x \in On(s2c[c]) : x.t # "request" /\ x # Reply("play_game")
      BY <1>2, ReplyIs DEF NoResponses, IsResponse, MenuCommands
    <3>3. Working(c) => Len(calls) # 2 /\ cpc = "wait"
      <4>1. Working(c) => c = sockfd /\ cpc # "undefined" /\ up[c]
        BY DEF ConnInv, Current, Working
      <4>2. Runs(c)
        BY <1>2, <1>3, <1>7 DEF Runs
      <4>3. c = sockfd /\ cpc # "undefined" /\ up[c] => Len(calls) = 1
        BY <4>2 DEF ConnInv, AsksCaller
      <4>4. Working(c) => Len(calls) = 1
        BY <4>1, <4>3
      <4>5. Working(c) => cpc = "wait"
        BY <1>2
      <4> QED
        BY <4>4, <4>5
    <3> QED
      BY <1>4, <2>2, <3>1, <3>2, <3>3 DEF Answered, Working
  <2>10. CancelKept(c)'
    BY <1>4, <1>5, <1>7 DEF ConnInv, Places, CancelKept
  <2> QED
    BY <2>3, <2>4, <2>5, <2>6, <2>7, <2>8, <2>9, <2>10 DEF ConnInv, ServerKept
<1>8. CASE cmd # "play_game"
  <2>1. PICK f \in {0, 1, 3} :
          termination_flag' = [termination_flag EXCEPT ![c] = f]
    BY <1>1, <1>2 DEF MainCommand
  <2>2. PICK r \in Messages : r = Reply(cmd)
    BY ReplyIs
  <2>3. /\ spc' = [spc EXCEPT ![c] = "message"] /\ out' = [out EXCEPT ![c] = r]
        /\ after' = [after EXCEPT ![c] = "main"] /\ playing' = playing
        /\ currently_sending_message' = [currently_sending_message EXCEPT ![c] = TRUE]
    BY <1>1, <1>3, <1>8, <2>2 DEF MainCommand, Say
  <2>4. /\ spc' \in [Conns -> ProcessPlaces] /\ out' \in [Conns -> Messages]
        /\ after' \in [Conns -> {"main", "request", "request again", "update"}]
        /\ currently_sending_message' \in [Conns -> BOOLEAN]
        /\ termination_flag' \in [Conns -> {0, 1, 3}]
        /\ spc'[c] = "message" /\ out'[c] = Reply(cmd)
    BY <2>1, <2>2, <2>3 DEF ServerTypes, ProcessPlaces
  <2>5. ServerTypes' /\ LinkTypes'
    BY <1>2, <1>4, <2>3, <2>4 DEF ServerTypes, LinkTypes, ProcessPlaces
  <2>6. \A d \in Conns \ {c} : Same(d)
    BY <1>2, <1>4, <2>1, <2>3 DEF ServerTypes, Same
  <2>7. ConnInv(c)'
    BY <1>2, <1>4, <1>5, <1>6, <2>4, ReplyKeeps
  <2> QED
    BY <2>5, <2>6, <2>7 DEF ServerKept
<1> QED
  BY <1>7, <1>8

LEMMA AsyncCommandKeeps ==
  ASSUME ServerTypes, LinkTypes, NEW c \in Conns, ConnInv(c), AsyncCommand(c)
  PROVE  ServerKept(c)
<1>1. PICK m : m = Head(c2s[c])
  OBVIOUS
<1>2. /\ Reads(c) /\ termination_flag[c] = 0
      /\ c2s' \in [Conns -> Seq(Messages)] /\ can_send_msg' \in [Conns -> BOOLEAN]
      /\ \A d \in Conns \ {c} : c2s'[d] = c2s[d] /\ can_send_msg'[d] = can_send_msg[d]
      /\ c2s'[c] = <<>> /\ can_send_msg'[c] = TRUE
      /\ m \in Messages /\ m.t = "command" /\ On(c2s[c]) = {m}
      /\ Working(c) => cpc = "wait" /\ NoResponses(s2c[c])
  BY <1>1, GetsIs DEF AsyncCommand
<1>3. PICK cmd \in MenuCommands \cup AsyncCommands \cup {"shutdown"} : cmd = m.cmd
  BY <1>2, CommandIs
<1>4. /\ UNCHANGED <<calls, cpc, sockfd, signalled>>
      /\ UNCHANGED <<send_server_cancel, termination_flag, fdsOpen, s2c, up, nprompts>>
      /\ spc[c] \in {"request", "request again"}
  BY DEF AsyncCommand, client, counts
<1>5. cmd = "play_game" => asked[c] = 0
  BY <1>2, <1>3 DEF ConnInv, AsksCaller, MenuCommands
<1>6. ~Has(c2s[c], "answer")
  BY <1>2 DEF Has
<1>7. CASE cmd = "exit_game"
  <2>1. /\ spc'[c] = "message" /\ out'[c] = Reply("play_game")
        /\ asked'[c] = 0 /\ stale'[c] = 0 /\ ~playing'[c]
        /\ spc' \in [Conns -> ProcessPlaces] /\ out' \in [Conns -> Messages]
        /\ after' \in [Conns -> {"main", "request", "request again", "update"}]
        /\ asked' \in [Conns -> 0..MaxPrompts] /\ stale' \in [Conns -> 0..MaxPrompts]
        /\ playing' \in [Conns -> BOOLEAN]
        /\ currently_sending_message' \in [Conns -> BOOLEAN]
        /\ \A d \in Conns \ {c} :
             /\ spc'[d] = spc[d] /\ out'[d] = out[d] /\ asked'[d] = asked[d]
             /\ stale'[d] = stale[d] /\ playing'[d] = playing[d]
             /\ currently_sending_message'[d] = currently_sending_message[d]
    BY <1>1, <1>3, <1>7, GameReturnsIs DEF AsyncCommand
  <2>2. ConnInv(c)'
    <3>1. /\ spc'[c] = "message" /\ out'[c] = Reply("play_game")
          /\ asked'[c] = 0 /\ stale'[c] = 0
      BY <2>1
    <3>2. s2c'[c] = s2c[c] /\ up'[c] = up[c] /\ termination_flag'[c] = termination_flag[c]
          /\ spc[c] # "none"
      BY <1>4
    <3> QED
      BY <1>2, <1>4, <3>1, <3>2, OverKeeps
  <2>3. ServerTypes' /\ LinkTypes'
    BY <1>2, <1>4, <2>1 DEF ServerTypes, LinkTypes, ProcessPlaces
  <2>4. \A d \in Conns \ {c} : Same(d)
    BY <1>2, <1>4, <2>1 DEF Same
  <2> QED
    BY <2>2, <2>3, <2>4 DEF ServerKept
<1>8. CASE cmd # "exit_game"
  <2>1. PICK r \in Messages : r = Reply(cmd)
    BY ReplyIs
  <2>2. /\ spc' = [spc EXCEPT ![c] = "message"] /\ out' = [out EXCEPT ![c] = r]
        /\ after' = [after EXCEPT ![c] = "request again"]
        /\ UNCHANGED <<playing, asked, stale>>
        /\ currently_sending_message' = [currently_sending_message EXCEPT ![c] = TRUE]
    BY <1>1, <1>3, <1>8, <2>1 DEF AsyncCommand, Say
  <2>3. /\ spc' \in [Conns -> ProcessPlaces] /\ out' \in [Conns -> Messages]
        /\ after' \in [Conns -> {"main", "request", "request again", "update"}]
        /\ currently_sending_message' \in [Conns -> BOOLEAN]
        /\ spc'[c] = "message" /\ out'[c] = Reply(cmd)
    BY <2>1, <2>2 DEF ServerTypes, ProcessPlaces
  <2>4. ServerTypes' /\ LinkTypes'
    BY <1>2, <1>4, <2>2, <2>3 DEF ServerTypes, LinkTypes, ProcessPlaces
  <2>5. \A d \in Conns \ {c} : Same(d)
    BY <1>2, <1>4, <2>2 DEF ServerTypes, Same
  <2>6. ConnInv(c)'
    BY <1>2, <1>4, <1>5, <1>6, <2>2, <2>3, ReplyKeeps
  <2> QED
    BY <2>4, <2>5, <2>6 DEF ServerKept
<1> QED
  BY <1>7, <1>8

LEMMA TakeAnswerKeeps ==
  ASSUME ServerTypes, LinkTypes, NEW c \in Conns, ConnInv(c), TakeAnswer(c)
  PROVE  ServerKept(c)
<1>1. PICK m : m = Head(c2s[c])
  OBVIOUS
<1>2. /\ Reads(c) /\ termination_flag[c] = 0
      /\ c2s' \in [Conns -> Seq(Messages)] /\ can_send_msg' \in [Conns -> BOOLEAN]
      /\ \A d \in Conns \ {c} : c2s'[d] = c2s[d] /\ can_send_msg'[d] = can_send_msg[d]
      /\ c2s'[c] = <<>> /\ can_send_msg'[c] = TRUE
      /\ m \in Messages /\ m.t = "answer" /\ On(c2s[c]) = {m}
      /\ Working(c) => cpc = "wait" /\ NoResponses(s2c[c])
  BY <1>1, GetsIs DEF TakeAnswer
<1>3. /\ UNCHANGED <<calls, cpc, sockfd, signalled>>
      /\ UNCHANGED <<out, after, playing, currently_sending_message, send_server_cancel,
                     termination_flag, fdsOpen, s2c, up, nprompts>>
      /\ spc[c] \in {"request", "request again"}
  BY DEF TakeAnswer, client, counts
<1>4. 0 \in 0..MaxPrompts
  BY BoundsAssumption
<1>5. /\ asked' = [asked EXCEPT ![c] = 0] /\ stale' = [stale EXCEPT ![c] = 0]
      /\ spc' = [spc EXCEPT ![c] = "game"]
  BY DEF TakeAnswer
<1>6. /\ asked' \in [Conns -> 0..MaxPrompts] /\ stale' \in [Conns -> 0..MaxPrompts]
      /\ spc' \in [Conns -> ProcessPlaces]
      /\ asked'[c] = 0 /\ stale'[c] = 0 /\ spc'[c] = "game"
      /\ \A d \in Conns \ {c} : asked'[d] = asked[d] /\ stale'[d] = stale[d] /\ spc'[d] = spc[d]
  BY <1>4, <1>5 DEF ServerTypes, ProcessPlaces
<1>7. ServerTypes' /\ LinkTypes'
  BY <1>2, <1>3, <1>6 DEF ServerTypes, LinkTypes, ProcessPlaces
<1>8. \A d \in Conns \ {c} : Same(d)
  BY <1>2, <1>3, <1>6 DEF Same
<1>9. Current(c)' /\ Places(c)'
  BY <1>2, <1>3, <1>6 DEF ConnInv, Current, Places
<1>10. Balanced(c)'
  <2>1. Len(<<>>) <= 1
    BY NothingOn
  <2>2. Working(c)' <=> Working(c)
    BY <1>3 DEF Working
  <2> QED
    BY <1>2, <1>3, <2>1, <2>2 DEF ConnInv, Balanced
<1>11. Runs(c) /\ \A x : x \notin On(c2s'[c])
  BY <1>2, NothingOn DEF Runs
<1>12. AsksCaller(c)'
  BY <1>3, <1>6, <1>11 DEF ConnInv, AsksCaller, Working
<1>13. Answered(c)'
  <2>1. Working(c) => \A x \in On(s2c[c]) : x.t # "request" /\ x # Reply("play_game")
    BY <1>2, ReplyIs DEF NoResponses, IsResponse, MenuCommands
  <2>2. Working(c) => Len(calls) # 2 /\ cpc = "wait"
    <3>1. Working(c) => c = sockfd /\ cpc # "undefined" /\ up[c]
      BY DEF ConnInv, Current, Working
    <3>2. c = sockfd /\ cpc # "undefined" /\ up[c] => Len(calls) = 1
      BY <1>11 DEF ConnInv, AsksCaller
    <3>3. Working(c) => Len(calls) = 1
      BY <3>1, <3>2
    <3> QED
      BY <1>2, <3>3
  <2> QED
    BY <1>3, <1>6, <1>11, <2>1, <2>2 DEF Answered, Working
<1>14. CancelKept(c)'
  BY <1>6 DEF CancelKept
<1> QED
  BY <1>7, <1>8, <1>9, <1>10, <1>12, <1>13, <1>14 DEF ConnInv, ServerKept

--------------------------------------------------------------------------------
(****************************************************************************)
(* The client leaves its calls, and its connection.                         *)
(****************************************************************************)

\* No call is left; where the program is then depends on the jump.
Left ==
  /\ calls' = <<>> /\ cpc' \in {"menu", "undefined"}
  /\ exFrame' = 0 /\ pgFrame' = 0
  /\ ex_jmp_buf_valid' \in Nat /\ playgame_jmp_buf_valid' \in BOOLEAN

LEMMA FramesAre ==
  ASSUME ClientTypes, CallsNest
  PROVE  /\ Len(calls) \in Nat /\ ex_jmp_buf_valid \in Nat
         /\ ex_jmp_buf_valid >= Len(calls)
         /\ exFrame \in {0, 1} /\ pgFrame \in {0, 1}
         /\ exFrame = 1 \/ pgFrame = 1 => Len(calls) >= 1
         /\ ex_jmp_buf_valid = 0 => calls = <<>> /\ exFrame = 0 /\ pgFrame = 0
<1>1. PICK n \in Nat : n = Len(calls)
  BY DEF ClientTypes
<1>2. /\ ex_jmp_buf_valid \in Nat /\ ex_jmp_buf_valid >= n
      /\ exFrame \in 0..n /\ pgFrame \in 0..n /\ exFrame <= 1 /\ pgFrame <= 1
  BY <1>1 DEF ClientTypes, CallsNest
<1>3. n = 0 => calls = <<>>
  BY <1>1, EmptySeq DEF ClientTypes
<1> QED
  BY <1>1, <1>2, <1>3

LEMMA LeaveFirst ==
  ASSUME ClientTypes, CallsNest, LeaveFrom(1)
  PROVE  calls' = <<>> /\ cpc' = "menu" /\ exFrame' = 0 /\ pgFrame' = 0
<1>1. calls' = SubSeq(calls, 1, 0) /\ cpc' = At(0)
  BY DEF LeaveFrom
<1>2. calls' = <<>>
  BY <1>1, SubSeqEmpty
<1>3. cpc' = "menu"
  BY <1>1 DEF At
<1>4. exFrame' = 0 /\ pgFrame' = 0
  BY FramesAre DEF LeaveFrom
<1> QED
  BY <1>2, <1>3, <1>4

LEMMA JumpToApiLeaves ==
  ASSUME ClientTypes, CallsNest, JumpToApi, playgame_jmp_buf_valid' \in BOOLEAN
  PROVE  Left
<1>1. ex_jmp_buf_valid' \in Nat
  BY FramesAre DEF JumpToApi
<1>2. CASE exFrame = 0
  BY <1>1, <1>2 DEF JumpToApi, JumpNowhere, Left
<1>3. CASE exFrame = 1
  <2>1. LeaveFrom(1)
    BY <1>3 DEF JumpToApi
  <2> QED
    BY <1>1, <2>1, LeaveFirst DEF Left
<1> QED
  BY <1>2, <1>3, FramesAre

LEMMA JumpToPlayGameLeaves ==
  ASSUME ClientTypes, CallsNest, NEW f \in {0, 1}, f = 1 => Len(calls) >= 1,
         JumpToPlayGame(f)
  PROVE  Left /\ ~playgame_jmp_buf_valid'
<1>1. playgame_jmp_buf_valid' = FALSE
  BY DEF JumpToPlayGame
<1>2. CASE f = 0
  <2>1. JumpNowhere /\ UNCHANGED ex_jmp_buf_valid
    BY <1>2 DEF JumpToPlayGame
  <2> QED
    BY <1>1, <2>1, FramesAre DEF JumpNowhere, Left
<1>3. CASE f = 1
  <2>1. LeaveFrom(1) /\ ex_jmp_buf_valid' = ex_jmp_buf_valid - 1
    BY <1>3 DEF JumpToPlayGame, Return
  <2>2. ex_jmp_buf_valid' \in Nat
    BY <1>3, <2>1, FramesAre
  <2> QED
    BY <1>1, <2>1, <2>2, LeaveFirst DEF Left
<1> QED
  BY <1>2, <1>3

LEMMA GiveUpLeaves ==
  ASSUME ClientTypes, CallsNest, GiveUp
  PROVE  Left /\ conn_err' /\ ~playgame_jmp_buf_valid'
<1>1. conn_err' = TRUE /\ playgame_jmp_buf_valid' = FALSE
  BY DEF GiveUp
<1>2. CASE ex_jmp_buf_valid > 0
  BY <1>1, <1>2, JumpToApiLeaves DEF GiveUp
<1>3. CASE ~(ex_jmp_buf_valid > 0)
  <2>1. UNCHANGED <<calls, cpc, ex_jmp_buf_valid, exFrame, pgFrame>>
    BY <1>3 DEF GiveUp
  <2>2. ex_jmp_buf_valid = 0
    BY <1>3, FramesAre
  <2>3. calls = <<>> /\ exFrame = 0 /\ pgFrame = 0 /\ cpc \in {"menu", "undefined"}
    BY <2>2, FramesAre DEF CallsNest
  <2> QED
    BY <1>1, <2>1, <2>2, <2>3 DEF Left
<1> QED
  BY <1>2, <1>3

\* What leaving the calls leaves of the types and of the nesting.
LEMMA LeftIsNested ==
  ASSUME Left, sockfd' \in Conns \cup {0}, net_active' /\ ~conn_err' => sockfd' # 0,
         conn_err' \in BOOLEAN, net_active' \in BOOLEAN, signalled' \in BOOLEAN
  PROVE  ClientTypes' /\ CallsNest'
<1>1. Len(<<>>) = 0 /\ <<>> \in Seq(Calls)
  BY EmptySeq
<1>2. 0 \in 0..0 /\ ~(0 = 2)
  OBVIOUS
<1>3. ClientTypes'
  BY <1>1, <1>2 DEF Left, ClientTypes
<1>4. CallsNest'
  BY <1>1, <1>2 DEF Left, CallsNest
<1> QED
  BY <1>3, <1>4

\* The connection is closed: nothing that is said about it depends on the client.
LEMMA ClosedKeeps ==
  ASSUME ServerTypes, LinkTypes, \A c \in Conns : ConnInv(c), CloseSocket,
         UNCHANGED <<server, stale, nprompts>>,
         c2s' \in [Conns -> Seq(Messages)],
         \A c \in Conns :
           \/ c2s'[c] = c2s[c]
           \/ cpc = "menu" /\ c = sockfd /\ up[c] /\ c2s'[c] = Append(c2s[c], Shutdown)
  PROVE  ServerTypes' /\ LinkTypes' /\ \A c \in Conns : ConnInv(c)'
<1>1. /\ sockfd' = 0 /\ up' = [c \in Conns |-> up[c] /\ c # sockfd]
      /\ s2c' = [c \in Conns |-> IF c = sockfd THEN <<>> ELSE s2c[c]]
  BY DEF CloseSocket, Closed, Unread
<1>2. ServerTypes'
  BY DEF server, sending, ServerTypes
<1>3. LinkTypes'
  <2>1. up' \in [Conns -> BOOLEAN]
    BY <1>1 DEF LinkTypes
  <2>2. s2c' \in [Conns -> Seq(Messages)]
    BY <1>1, NothingOn DEF LinkTypes
  <2> QED
    BY <2>1, <2>2 DEF LinkTypes
<1>4. ASSUME NEW c \in Conns PROVE ConnInv(c)'
  <2>1. c # sockfd' /\ ~up'[c] /\ s2c'[c] \in {s2c[c], <<>>}
    <3>1. c # 0
      BY BoundsAssumption DEF Conns
    <3> QED
      BY <1>1, <3>1 DEF ConnInv, Current
  <2>2. UNCHANGED <<spc, out, asked, playing, can_send_msg, currently_sending_message,
                    send_server_cancel, termination_flag, stale>>
    BY DEF server, sending
  <2>3. /\ ProgressFirst(s2c'[c]) 
    BY <2>1, NothingOn DEF ConnInv, AsksCaller
  <2>4. CASE c2s'[c] = c2s[c]
    <3>1. Current(c)' /\ Places(c)'
      BY <2>1, <2>2, <2>4 DEF ConnInv, Current, Places
    <3>2. Balanced(c)'
      BY <2>1, <2>2, <2>4 DEF ConnInv, Balanced, Working
    <3>3. AsksCaller(c)'
      BY <2>1, <2>2, <2>3, <2>4 DEF ConnInv, AsksCaller, Working
    <3>4. Answered(c)' /\ CancelKept(c)'
      BY <2>1, <2>2, <2>4 DEF ConnInv, Answered, CancelKept, Working
    <3> QED
      BY <3>1, <3>2, <3>3, <3>4 DEF ConnInv
  <2>5. CASE cpc = "menu" /\ c = sockfd /\ up[c] /\ c2s'[c] = Append(c2s[c], Shutdown)
    <3>1. c2s[c] = <<>> /\ ~can_send_msg[c] /\ spc[c] # "none"
      BY <2>5 DEF ConnInv, Current, Balanced, Working
    <3>2. Shutdown \in Messages /\ Shutdown.t = "command" /\ Shutdown.cmd \notin MenuCommands
      BY DEF Shutdown, Messages, MenuCommands
    <3>3. PICK q \in Seq(Messages) : q = Append(c2s[c], Shutdown)
      BY <2>5 DEF LinkTypes
    <3>4. On(q) = On(c2s[c]) \cup {Shutdown} /\ On(c2s[c]) = {}
      BY <3>1, <3>2, <3>3, NothingOn, OnAppended
    <3>5. Len(q) <= 1
      <4>1. Len(c2s[c]) = 0
        BY <3>1, EmptySeq
      <4>2. Len(q) = Len(c2s[c]) + 1
        BY <3>2, <3>3, AppendProperties DEF LinkTypes
      <4> QED
        BY <4>1, <4>2
    <3>6. c2s'[c] = q /\ \A m \in On(q) : m = Shutdown
      BY <2>5, <3>3, <3>4
    <3>7. Current(c)' /\ Places(c)'
      BY <2>1, <2>2, <3>1 DEF ConnInv, Current, Places
    <3>8. Balanced(c)'
      BY <2>1, <2>2, <3>1, <3>5, <3>6 DEF Balanced, Working
    <3>9. AsksCaller(c)'
      BY <2>1, <2>2, <2>3, <3>2, <3>6 DEF AsksCaller, Working
    <3>10. Answered(c)' /\ CancelKept(c)'
      BY <2>1, <2>2, <3>2, <3>6 DEF Answered, CancelKept, Working
    <3> QED
      BY <3>7, <3>8, <3>9, <3>10 DEF ConnInv
  <2> QED
    BY <2>4, <2>5
<1> QED
  BY <1>2, <1>3, <1>4

LEMMA SmallestIn ==
  ASSUME NEW T, T \subseteq Nat, T # {}
  PROVE  \E x \in T : \A y \in T : x <= y
<1> DEFINE R == OpToRel(<, Nat)
<1>1. IsWellFoundedOn(R, Nat)
  BY NatLessThanWellFounded
<1>2. \A x, y \in Nat : <<y, x>> \in R <=> y < x
  BY DEF OpToRel
<1> HIDE DEF R
<1>3. PICK x \in T : \A y \in T : ~(<<y, x>> \in R)
  BY <1>1, WFMin
<1>4. \A y \in T : x \in Nat /\ y \in Nat /\ ~(y < x)
  BY <1>2, <1>3
<1>5. \A y \in T : x <= y
  BY <1>4
<1> QED
  BY <1>3, <1>5

\* A new connection is one that was not used before.
LEMMA NewConnIs ==
  ASSUME Unused # {}
  PROVE  NewConn \in Conns /\ spc[NewConn] = "none"
<1>1. Unused \subseteq Conns /\ \A c \in Unused : spc[c] = "none"
  BY DEF Unused
<1>2. Conns \subseteq Nat
  BY BoundsAssumption DEF Conns
<1>3. \E c \in Unused : \A d \in Unused : c <= d
  BY <1>1, <1>2, SmallestIn
<1>4. NewConn \in Unused
  BY <1>3 DEF NewConn
<1> QED
  BY <1>1, <1>4

\* The client has a new connection, and no call that was answering a request.
LEMMA ConnectedKeeps ==
  ASSUME ServerTypes, LinkTypes, \A c \in Conns : ConnInv(c), Connected,
         UNCHANGED <<out, after, asked, playing, sending, termination_flag, c2s, stale,
                     nprompts>>,
         cpc' \notin {"asked", "wait"}, calls' # <<>> => calls'[1].msg = NoMsg
  PROVE  /\ ServerTypes' /\ LinkTypes' /\ \A c \in Conns : ConnInv(c)'
         /\ sockfd' \in Conns /\ sockfd' # 0 /\ conn_err' = FALSE /\ net_active' = TRUE
<1>1. PICK n \in Conns : n = NewConn /\ spc[n] = "none"
  BY NewConnIs DEF Connected
<1>2. /\ sockfd' = n /\ conn_err' = FALSE /\ net_active' = TRUE
      /\ up' = [[c \in Conns |-> up[c] /\ c # sockfd] EXCEPT ![n] = TRUE]
      /\ s2c' = [c \in Conns |-> IF c = sockfd THEN <<>> ELSE s2c[c]]
      /\ spc' = [spc EXCEPT ![n] = "main"] /\ fdsOpen' = [fdsOpen EXCEPT ![n] = TRUE]
  BY <1>1 DEF Connected, Closed, Unread
<1>3. ServerTypes'
  <2>1. spc' \in [Conns -> ProcessPlaces] /\ fdsOpen' \in [Conns -> BOOLEAN]
    BY <1>2 DEF ServerTypes, ProcessPlaces
  <2> QED
    BY <2>1 DEF ServerTypes, sending, ProcessPlaces
<1>4. LinkTypes'
  <2>1. up' \in [Conns -> BOOLEAN]
    BY <1>2 DEF LinkTypes
  <2>2. s2c' \in [Conns -> Seq(Messages)]
    BY <1>2, NothingOn DEF LinkTypes
  <2> QED
    BY <2>1, <2>2 DEF LinkTypes
<1>5. n # 0
  BY BoundsAssumption DEF Conns
<1>6. UNCHANGED <<out, asked, playing, can_send_msg, currently_sending_message,
                  send_server_cancel, termination_flag, c2s, stale>>
  BY DEF sending
<1>7. ConnInv(n)'
  <2>1. /\ c2s[n] = <<>> /\ s2c[n] = <<>> /\ ~can_send_msg[n] /\ n # sockfd
        /\ ~currently_sending_message[n] /\ asked[n] = 0 /\ stale[n] = 0
    BY <1>1 DEF ConnInv, Current
  <2>2. s2c'[n] = <<>> /\ up'[n] /\ spc'[n] = "main"
    BY <1>2, <2>1 DEF ServerTypes
  <2>3. /\ \A x : x \notin On(<<>>) /\ ~Has(<<>>, x)
        /\ Len(<<>>) <= 1 /\ OneResponse(<<>>) /\ NoResponses(<<>>) /\ ProgressFirst(<<>>)
    BY NothingOn
  <2>4. Current(n)' /\ Places(n)'
    BY <1>2, <1>6, <2>1, <2>2 DEF Current, Places
  <2>5. Balanced(n)'
    BY <1>6, <2>1, <2>2, <2>3 DEF Balanced, Working
  <2>6. AsksCaller(n)'
    BY <1>6, <2>1, <2>2, <2>3 DEF AsksCaller, Runs, Working
  <2>7. Answered(n)' /\ CancelKept(n)'
    BY <1>6, <2>1, <2>2, <2>3 DEF Answered, CancelKept
  <2> QED
    BY <2>4, <2>5, <2>6, <2>7 DEF ConnInv
<1>8. ASSUME NEW c \in Conns, c # n PROVE ConnInv(c)'
  <2>1. /\ c # sockfd' /\ ~up'[c] /\ s2c'[c] \in {s2c[c], <<>>} /\ spc'[c] = spc[c]
    BY <1>2, <1>8 DEF ConnInv, Current, ServerTypes
  <2>2. ProgressFirst(s2c'[c])
    BY <2>1, NothingOn DEF ConnInv, AsksCaller
  <2>3. Current(c)' /\ Places(c)'
    BY <1>6, <2>1 DEF ConnInv, Current, Places
  <2>4. Balanced(c)'
    BY <1>6, <2>1 DEF ConnInv, Balanced, Working
  <2>5. AsksCaller(c)'
    BY <1>6, <2>1, <2>2 DEF ConnInv, AsksCaller, Working
  <2>6. Answered(c)' /\ CancelKept(c)'
    BY <1>6, <2>1 DEF ConnInv, Answered, CancelKept, Working
  <2> QED
    BY <2>3, <2>4, <2>5, <2>6 DEF ConnInv
<1> QED
  BY <1>2, <1>3, <1>4, <1>5, <1>7, <1>8

--------------------------------------------------------------------------------
(****************************************************************************)
(* The client connects, disconnects, and connects again.                    *)
(****************************************************************************)

Parts == /\ ClientTypes /\ ServerTypes /\ LinkTypes
         /\ CallsNest /\ \A c \in Conns : ConnInv(c)

PartsKept == /\ ClientTypes' /\ ServerTypes' /\ LinkTypes'
             /\ CallsNest' /\ \A c \in Conns : ConnInv(c)'

\* What a change of the connection leaves alone.
Rest == UNCHANGED <<signalled, out, after, asked, playing, sending, termination_flag,
                    stale, counts>>

LEMMA NoCallLeft ==
  ASSUME ClientTypes, CallsNest, cpc \in {"menu", "undefined"},
         UNCHANGED <<calls, cpc, exits>>
  PROVE  Left
<1>1. calls = <<>>
  BY DEF CallsNest
<1>2. Len(calls) = 0
  BY <1>1, EmptySeq
<1>3. /\ exFrame = 0 /\ pgFrame = 0 /\ ex_jmp_buf_valid \in Nat
      /\ playgame_jmp_buf_valid \in BOOLEAN
  BY <1>2 DEF ClientTypes
<1> QED
  BY <1>1, <1>3 DEF Left, exits

LEMMA ConnectedLeftKeeps ==
  ASSUME Parts, Connected, Left, Rest, UNCHANGED c2s
  PROVE  PartsKept
<1>1. UNCHANGED <<out, after, asked, playing, sending, termination_flag, c2s, stale, nprompts>>
  BY DEF Rest, counts
<1>2. cpc' \notin {"asked", "wait"} /\ calls' = <<>>
  BY DEF Left
<1>3. /\ ServerTypes' /\ LinkTypes' /\ \A c \in Conns : ConnInv(c)'
      /\ sockfd' \in Conns /\ sockfd' # 0 /\ conn_err' = FALSE /\ net_active' = TRUE
  BY <1>1, <1>2, ConnectedKeeps DEF Parts
<1>4. signalled' \in BOOLEAN
  BY DEF Parts, Rest, ClientTypes
<1>5. ClientTypes' /\ CallsNest'
  BY <1>3, <1>4, LeftIsNested
<1> QED
  BY <1>3, <1>5 DEF PartsKept

LEMMA ClosedLeftKeeps ==
  ASSUME Parts, CloseSocket, Left, Rest, UNCHANGED <<spc, fdsOpen>>,
         conn_err' \in BOOLEAN, net_active' \in BOOLEAN, ~(net_active' /\ ~conn_err'),
         c2s' \in [Conns -> Seq(Messages)],
         \A c \in Conns :
           \/ c2s'[c] = c2s[c]
           \/ cpc = "menu" /\ c = sockfd /\ up[c] /\ c2s'[c] = Append(c2s[c], Shutdown)
  PROVE  PartsKept
<1>1. UNCHANGED <<server, stale, nprompts>>
  BY DEF Rest, counts, server
<1>2. ServerTypes' /\ LinkTypes' /\ \A c \in Conns : ConnInv(c)'
  BY <1>1, ClosedKeeps DEF Parts
<1>3. sockfd' \in Conns \cup {0} /\ signalled' \in BOOLEAN
  BY DEF CloseSocket, Parts, Rest, ClientTypes
<1>4. ClientTypes' /\ CallsNest'
  BY <1>3, LeftIsNested
<1> QED
  BY <1>2, <1>4 DEF PartsKept

LEMMA ConnectKeeps ==
  ASSUME Parts, Connect
  PROVE  PartsKept
<1>1. ClientTypes /\ CallsNest /\ LinkTypes
  BY DEF Parts
<1>2. cpc = "menu" /\ Rest /\ UNCHANGED c2s
  BY DEF Connect, Restart, Rest
<1>3. UNCHANGED <<calls, cpc, exits>> => Left
  BY <1>1, <1>2, NoCallLeft
<1>4. pgFrame = 0 /\ Jump.valid = playgame_jmp_buf_valid /\ Jump.frame = pgFrame
  <2>1. Len(calls) = 0
    BY <1>1, <1>2, EmptySeq DEF CallsNest
  <2> QED
    BY <1>1, <2>1 DEF ClientTypes, Jump
<1>5. CASE Connected /\ IF Jump.valid THEN JumpToPlayGame(Jump.frame)
                        ELSE UNCHANGED <<calls, cpc, exits>>
  <2>1. Left
    <3>1. CASE Jump.valid
      <4>1. JumpToPlayGame(0)
        BY <1>4, <1>5, <3>1
      <4> QED
        BY <1>1, <4>1, JumpToPlayGameLeaves
    <3>2. CASE ~Jump.valid
      BY <1>3, <1>5, <3>2
    <3> QED
      BY <3>1, <3>2
  <2> QED
    BY <1>2, <1>5, <2>1, ConnectedLeftKeeps
<1>6. ASSUME CloseSocket, Left, UNCHANGED <<spc, fdsOpen>>, conn_err' \in BOOLEAN,
             net_active' \in BOOLEAN, ~(net_active' /\ ~conn_err')
      PROVE  PartsKept
  <2>1. c2s' \in [Conns -> Seq(Messages)]
    BY <1>1, <1>2 DEF LinkTypes
  <2> QED
    BY <1>2, <1>6, <2>1, ClosedLeftKeeps
<1>7. CASE /\ CloseSocket /\ net_active' = FALSE
           /\ UNCHANGED <<calls, cpc, exits, conn_err>> /\ UNCHANGED <<spc, fdsOpen>>
  <2>1. Left /\ conn_err' \in BOOLEAN
    BY <1>1, <1>3, <1>7 DEF ClientTypes
  <2> QED
    BY <1>6, <1>7, <2>1
<1>8. CASE /\ CloseSocket /\ GiveUp
           /\ net_active' = (net_active /\ ex_jmp_buf_valid > 0)
           /\ UNCHANGED <<spc, fdsOpen>>
  <2>1. Left /\ conn_err' = TRUE
    BY <1>1, <1>8, GiveUpLeaves DEF GiveUp
  <2>2. net_active' \in BOOLEAN
    BY <1>8
  <2> QED
    BY <1>6, <1>8, <2>1, <2>2
<1> QED
  BY <1>5, <1>7, <1>8 DEF Connect, Restart

LEMMA DisconnectKeeps ==
  ASSUME Parts, Disconnect
  PROVE  PartsKept
<1>1. ClientTypes /\ CallsNest /\ LinkTypes
  BY DEF Parts
<1>2. /\ cpc = "menu" /\ CloseSocket /\ net_active' = FALSE /\ conn_err' = FALSE
      /\ Rest /\ UNCHANGED <<spc, fdsOpen>>
  BY DEF Disconnect, Rest, server
<1>3. Left
  <2>1. CASE UNCHANGED <<calls, cpc, exits>>
    BY <1>1, <1>2, <2>1, NoCallLeft
  <2>2. CASE JumpToApi /\ UNCHANGED playgame_jmp_buf_valid
    <3>1. playgame_jmp_buf_valid' \in BOOLEAN
      BY <1>1, <2>2 DEF ClientTypes
    <3> QED
      BY <1>1, <2>2, <3>1, JumpToApiLeaves
  <2> QED
    BY <2>1, <2>2 DEF Disconnect
<1>4. /\ c2s' \in [Conns -> Seq(Messages)]
      /\ \A c \in Conns :
           \/ c2s'[c] = c2s[c]
           \/ cpc = "menu" /\ c = sockfd /\ up[c] /\ c2s'[c] = Append(c2s[c], Shutdown)
  <2>1. CASE UNCHANGED c2s
    BY <1>1, <2>1 DEF LinkTypes
  <2>2. CASE sockfd # 0 /\ up[sockfd] /\ c2s' = [c2s EXCEPT ![sockfd] = Append(@, Shutdown)]
    <3>1. sockfd \in Conns
      BY <1>1, <2>2 DEF ClientTypes
    <3>2. PICK q \in Seq(Messages) : q = Append(c2s[sockfd], Shutdown)
      BY <1>1, <3>1, AppendProperties DEF LinkTypes, Messages
    <3>3. c2s' = [c2s EXCEPT ![sockfd] = q]
      BY <2>2, <3>2
    <3> QED
      BY <1>1, <1>2, <2>2, <3>1, <3>2, <3>3 DEF LinkTypes
  <2> QED
    BY <2>1, <2>2 DEF Disconnect
<1> QED
  BY <1>2, <1>3, <1>4, ClosedLeftKeeps

\* The socket is readable, or gone, while the user is at a menu or answers a request.
LEMMA CheckLostKeeps ==
  ASSUME Parts, CheckLost
  PROVE  PartsKept
<1>1. ClientTypes /\ CallsNest /\ LinkTypes
  BY DEF Parts
<1>2. cpc \in {"asked", "menu"} /\ Rest /\ UNCHANGED c2s
  BY DEF CheckLost, Restart, Rest
<1>3. Jump.valid = playgame_jmp_buf_valid /\ Jump.frame = pgFrame
  BY DEF Jump
<1>4. CASE Connected /\ IF Jump.valid THEN JumpToPlayGame(Jump.frame)
                        ELSE UNCHANGED <<calls, cpc, exits>>
  <2>1. Left
    <3>1. CASE Jump.valid
      <4>1. JumpToPlayGame(pgFrame)
        BY <1>3, <1>4, <3>1
      <4> QED
        BY <1>1, <4>1, FramesAre, JumpToPlayGameLeaves
    <3>2. CASE ~Jump.valid
      <4>1. ~playgame_jmp_buf_valid
        BY <1>3, <3>2
      <4>2. cpc = "menu"
        <5>1. CASE cpc = "asked"
          <6>1. Len(calls) = 1 /\ calls[1].msg # NoMsg
            BY <1>1, <5>1 DEF CallsNest
          <6>2. calls # <<>>
            BY <6>1, EmptySeq
          <6> QED
            BY <1>1, <4>1, <6>1, <6>2 DEF CallsNest
        <5> QED
          BY <1>2, <5>1
      <4> QED
        BY <1>1, <1>4, <3>2, <4>2, NoCallLeft
    <3> QED
      BY <3>1, <3>2
  <2> QED
    BY <1>2, <1>4, <2>1, ConnectedLeftKeeps
<1>5. CASE CloseSocket /\ GiveUp /\ UNCHANGED <<spc, fdsOpen>> /\ net_active' \in BOOLEAN
  <2>1. Left /\ conn_err' = TRUE
    BY <1>1, <1>5, GiveUpLeaves DEF GiveUp
  <2>2. c2s' \in [Conns -> Seq(Messages)]
    BY <1>1, <1>2 DEF LinkTypes
  <2> QED
    BY <1>2, <1>5, <2>1, <2>2, ClosedLeftKeeps
<1> QED
  BY <1>4, <1>5 DEF CheckLost, Restart

LEMMA CallsAre ==
  ASSUME ClientTypes, CallsNest, calls # <<>>
  PROVE  /\ Len(calls) \in {1, 2} /\ calls[1] \in Calls /\ Top \in Calls
         /\ Len(calls) = 1 => Top = calls[1]
         /\ Len(calls) = 2 => Top = calls[2] /\ Top.cmd \in AsyncCommands /\ Top.msg = NoMsg
<1>1. PICK n \in Nat : n = Len(calls)
  BY DEF ClientTypes
<1>2. n # 0
  BY <1>1, EmptySeq DEF ClientTypes
<1>3. n <= 2
  BY <1>1 DEF CallsNest
<1>4. n \in {1, 2} /\ 1 \in 1..n /\ n \in 1..n
  BY <1>2, <1>3
<1>5. calls[1] \in Calls /\ calls[n] \in Calls
  BY <1>1, <1>4, ElementOfSeq DEF ClientTypes
<1>6. Top = calls[n]
  BY <1>1 DEF Top
<1>7. n = 2 => calls[2].cmd \in AsyncCommands /\ calls[2].msg = NoMsg
  BY <1>1 DEF CallsNest
<1> QED
  BY <1>1, <1>4, <1>5, <1>6, <1>7

LEMMA JumpHereIs ==
  ASSUME ClientTypes, CallsNest, calls # <<>>
  PROVE  /\ JumpHere.valid \in BOOLEAN /\ JumpHere.frame \in {0, 1}
         /\ JumpHere.frame = 1 => Len(calls) >= 1
         /\ JumpHere.frame \in 0..Len(calls)
         /\ playgame_jmp_buf_valid \/ (Top.cmd = "play_game" /\ Top.msg = NoMsg) => JumpHere.valid
         /\ ~JumpHere.valid => calls[1].msg = NoMsg
<1>1. CASE SetsJump
  <2>1. Len(calls) = 1
    <3>1. "play_game" \notin AsyncCommands
      BY DEF AsyncCommands
    <3> QED
      BY <1>1, <3>1, CallsAre DEF SetsJump
  <2>2. JumpHere.valid = TRUE /\ JumpHere.frame = Len(calls)
    BY <1>1 DEF JumpHere
  <2>3. /\ JumpHere.frame \in {0, 1} /\ JumpHere.frame \in 0..Len(calls)
        /\ JumpHere.frame = 1 => Len(calls) >= 1
    BY <2>1, <2>2
  <2>4. JumpHere.valid \in BOOLEAN /\ JumpHere.valid
    BY <2>2
  <2> QED
    BY <2>3, <2>4
<1>2. CASE ~SetsJump
  <2>1. JumpHere.valid = playgame_jmp_buf_valid /\ JumpHere.frame = pgFrame
    BY <1>2 DEF JumpHere, Jump
  <2>2. playgame_jmp_buf_valid \in BOOLEAN /\ pgFrame \in 0..Len(calls)
    BY DEF ClientTypes
  <2>3. ~playgame_jmp_buf_valid => calls[1].msg = NoMsg
    BY DEF CallsNest
  <2>4. ~(Top.cmd = "play_game" /\ Top.msg = NoMsg)
    BY <1>2 DEF SetsJump
  <2> QED
    BY <2>1, <2>2, <2>3, <2>4, FramesAre
<1> QED
  BY <1>1, <1>2

\* A call goes on with a new connection; it was not answering a request.
LEMMA ConnectedCallKeeps ==
  ASSUME Parts, Connected, Rest, UNCHANGED <<c2s, exits>>, calls # <<>>, Len(calls) = 1,
         calls[1].msg = NoMsg, cpc' \in {"send", "retry"},
         calls' \in Seq(Calls), Len(calls') = 1, calls'[1].cmd = calls[1].cmd,
         calls'[1].msg = NoMsg
  PROVE  PartsKept
<1>1. UNCHANGED <<out, after, asked, playing, sending, termination_flag, c2s, stale, nprompts>>
  BY DEF Rest, counts
<1>2. cpc' \notin {"asked", "wait"}
  OBVIOUS
<1>3. /\ ServerTypes' /\ LinkTypes' /\ \A c \in Conns : ConnInv(c)'
      /\ sockfd' \in Conns /\ sockfd' # 0 /\ conn_err' = FALSE /\ net_active' = TRUE
  BY <1>1, <1>2, ConnectedKeeps DEF Parts
<1>4. signalled' \in BOOLEAN
  BY DEF Parts, Rest, ClientTypes
<1>5. UNCHANGED <<ex_jmp_buf_valid, exFrame, playgame_jmp_buf_valid, pgFrame>>
  BY DEF exits
<1>6. ClientTypes'
  <2>1. cpc' \in {"menu", "asked", "send", "wait", "retry", "undefined"}
    OBVIOUS
  <2>2. /\ ex_jmp_buf_valid' \in Nat /\ ex_jmp_buf_valid' >= Len(calls')
        /\ exFrame' \in 0..Len(calls') /\ pgFrame' \in 0..Len(calls')
        /\ playgame_jmp_buf_valid' \in BOOLEAN
    BY <1>5 DEF Parts, ClientTypes
  <2> QED
    BY <1>3, <1>4, <2>1, <2>2 DEF ClientTypes
<1>7. CallsNest'
  <2>1. calls' # <<>>
    BY EmptySeq
  <2>2. calls[1].cmd \in MenuCommands /\ exFrame <= 1 /\ pgFrame <= 1
    BY DEF Parts, CallsNest
  <2> QED
    BY <1>3, <1>5, <2>1, <2>2 DEF CallsNest
<1> QED
  BY <1>3, <1>6, <1>7 DEF PartsKept

LEMMA RetryKeeps ==
  ASSUME Parts, Retry
  PROVE  PartsKept
<1>1. ClientTypes /\ CallsNest /\ LinkTypes
  BY DEF Parts
<1>2. cpc = "retry" /\ Rest /\ UNCHANGED c2s
  BY DEF Retry, Restart, Rest, server
<1>3. calls # <<>>
  BY <1>1, <1>2 DEF CallsNest
<1>4. Jump.valid = playgame_jmp_buf_valid /\ Jump.frame = pgFrame
  BY DEF Jump
<1>5. ASSUME Connected, ~playgame_jmp_buf_valid, Top.tries # 0,
             calls' = [calls EXCEPT ![Len(calls)].tries = @ - 1], cpc' = "send",
             UNCHANGED exits
      PROVE  PartsKept
  <2>1. calls[1].msg = NoMsg /\ Len(calls) = 1 /\ calls[1] \in Calls /\ Top = calls[1]
    BY <1>1, <1>3, <1>5, CallsAre DEF CallsNest
  <2>2. PICK r : r = [calls[1] EXCEPT !.tries = @ - 1]
    OBVIOUS
  <2>3. r \in Calls /\ r.cmd = calls[1].cmd /\ r.msg = calls[1].msg
    BY <1>5, <2>1, <2>2, BoundsAssumption DEF Calls
  <2>4. calls' = [calls EXCEPT ![1] = r]
    BY <1>5, <2>1, <2>2
  <2>5. calls' \in Seq(Calls) /\ Len(calls') = 1 /\ calls'[1] = r
    <3>1. calls \in Seq(Calls) /\ 1 \in 1..Len(calls)
      BY <1>1, <2>1 DEF ClientTypes
    <3>2. PICK q : q = [calls EXCEPT ![1] = r]
      OBVIOUS
    <3>3. /\ q \in Seq(Calls) /\ Len(q) = Len(calls)
          /\ \A j \in 1..Len(calls) : q[j] = IF j = 1 THEN r ELSE calls[j]
      BY <2>3, <3>1, <3>2, ExceptSeq
    <3> QED
      BY <2>1, <2>4, <3>1, <3>2, <3>3
  <2> QED
    BY <1>2, <1>3, <1>5, <2>1, <2>3, <2>5, ConnectedCallKeeps
<1>6. ASSUME Connected, playgame_jmp_buf_valid, JumpToPlayGame(pgFrame)
      PROVE  PartsKept
  <2>1. Left
    BY <1>1, <1>6, FramesAre, JumpToPlayGameLeaves
  <2> QED
    BY <1>2, <1>6, <2>1, ConnectedLeftKeeps
<1>7. CASE CloseSocket /\ GiveUp /\ UNCHANGED <<spc, fdsOpen>> /\ net_active' \in BOOLEAN
  <2>1. Left /\ conn_err' = TRUE
    BY <1>1, <1>7, GiveUpLeaves DEF GiveUp
  <2>2. c2s' \in [Conns -> Seq(Messages)]
    BY <1>1, <1>2 DEF LinkTypes
  <2> QED
    BY <1>2, <1>7, <2>1, <2>2, ClosedLeftKeeps
<1>8. CASE Top.tries = 0
  <2>1. CloseSocket /\ GiveUp /\ UNCHANGED <<net_active, server>>
    BY <1>8 DEF Retry
  <2> QED
    BY <1>1, <1>7, <2>1 DEF ClientTypes, server
<1>9. CASE Top.tries # 0
  <2>1. Restart(Jump,
                /\ calls' = [calls EXCEPT ![Len(calls)].tries = @ - 1]
                /\ cpc' = "send" /\ UNCHANGED exits,
                GiveUp)
    BY <1>9 DEF Retry
  <2>2. \/ /\ Connected
           /\ IF Jump.valid THEN JumpToPlayGame(Jump.frame)
              ELSE /\ calls' = [calls EXCEPT ![Len(calls)].tries = @ - 1]
                   /\ cpc' = "send" /\ UNCHANGED exits
        \/ CloseSocket /\ GiveUp /\ UNCHANGED <<spc, fdsOpen>> /\ net_active' \in BOOLEAN
    BY <2>1 DEF Restart
  <2> QED
    BY <1>4, <1>5, <1>6, <1>7, <1>9, <2>2
<1> QED
  BY <1>8, <1>9

LEMMA ReceiveErrorKeeps ==
  ASSUME Parts, ReceiveError
  PROVE  PartsKept
<1>1. ClientTypes /\ CallsNest /\ LinkTypes
  BY DEF Parts
<1>2. cpc = "wait" /\ Rest /\ UNCHANGED c2s
  BY DEF ReceiveError, Restart, Rest
<1>3. calls # <<>>
  BY <1>1, <1>2 DEF CallsNest
<1>4. PICK j : j = JumpHere
  OBVIOUS
<1>5. /\ j.valid \in BOOLEAN /\ j.frame \in {0, 1} /\ (j.frame = 1 => Len(calls) >= 1)
      /\ ~j.valid => calls[1].msg = NoMsg
  BY <1>1, <1>3, <1>4, JumpHereIs
<1>6. \/ /\ Connected
         /\ IF j.valid THEN JumpToPlayGame(j.frame)
            ELSE cpc' = "retry" /\ UNCHANGED <<calls, exits>>
      \/ /\ CloseSocket /\ net_active' = FALSE /\ conn_err' = FALSE
         /\ JumpToApi /\ playgame_jmp_buf_valid' = j.valid /\ UNCHANGED <<spc, fdsOpen>>
      \/ CloseSocket /\ GiveUp /\ UNCHANGED <<spc, fdsOpen>> /\ net_active' \in BOOLEAN
  BY <1>4 DEF ReceiveError, Restart
<1>7. c2s' \in [Conns -> Seq(Messages)]
  BY <1>1, <1>2 DEF LinkTypes
<1>8. CASE Connected /\ IF j.valid THEN JumpToPlayGame(j.frame)
                        ELSE cpc' = "retry" /\ UNCHANGED <<calls, exits>>
  <2>1. CASE j.valid
    <3>1. Left
      BY <1>1, <1>5, <1>8, <2>1, JumpToPlayGameLeaves
    <3> QED
      BY <1>2, <1>8, <3>1, ConnectedLeftKeeps
  <2>2. CASE ~j.valid
    <3>1. cpc' = "retry" /\ UNCHANGED <<calls, exits>> /\ Connected
      BY <1>8, <2>2
    <3>2. calls[1].msg = NoMsg /\ Len(calls) = 1
      BY <1>1, <1>3, <1>5, <2>2, CallsAre DEF CallsNest
    <3>3. calls' \in Seq(Calls)
      BY <1>1, <3>1 DEF ClientTypes
    <3> QED
      BY <1>2, <1>3, <3>1, <3>2, <3>3, ConnectedCallKeeps
  <2> QED
    BY <2>1, <2>2
<1>9. CASE /\ CloseSocket /\ net_active' = FALSE /\ conn_err' = FALSE
           /\ JumpToApi /\ playgame_jmp_buf_valid' = j.valid /\ UNCHANGED <<spc, fdsOpen>>
  <2>1. Left
    BY <1>1, <1>5, <1>9, JumpToApiLeaves
  <2> QED
    BY <1>2, <1>7, <1>9, <2>1, ClosedLeftKeeps
<1>10. CASE CloseSocket /\ GiveUp /\ UNCHANGED <<spc, fdsOpen>> /\ net_active' \in BOOLEAN
  <2>1. Left /\ conn_err' = TRUE
    BY <1>1, <1>10, GiveUpLeaves DEF GiveUp
  <2> QED
    BY <1>2, <1>7, <1>10, <2>1, ClosedLeftKeeps
<1> QED
  BY <1>6, <1>8, <1>9, <1>10

--------------------------------------------------------------------------------
(****************************************************************************)
(* The client calls, sends and waits, on the connection that it has.        *)
(****************************************************************************)

\* Only the connection of the client is concerned.
LEMMA OwnConnection ==
  ASSUME Parts, UNCHANGED <<sockfd, server, up, stale, nprompts>>,
         ClientTypes', CallsNest', LinkTypes', NEW d \in Conns, d = sockfd, ConnInv(d)',
         \A c \in Conns \ {d} : c2s'[c] = c2s[c] /\ s2c'[c] = s2c[c]
  PROVE  PartsKept
<1>1. UNCHANGED <<spc, out, after, asked, playing, can_send_msg, currently_sending_message,
                  send_server_cancel, termination_flag, fdsOpen>>
  BY DEF server, sending
<1>2. ServerTypes'
  BY <1>1 DEF Parts, ServerTypes
<1>3. ASSUME NEW c \in Conns \ {d} PROVE ConnInv(c)'
  <2>1. Same(c) /\ ConnInv(c) /\ c # sockfd
    BY <1>1 DEF Same, Parts
  <2> QED
    BY <2>1, OtherStays
<1> QED
  BY <1>2, <1>3 DEF PartsKept

\* The place of a process, and what else no step of the client changes.
LEMMA PlaceStays ==
  ASSUME NEW d \in Conns, ConnInv(d), UNCHANGED <<sockfd, server, up, stale>>,
         spc[d] # "none"
  PROVE  Current(d)' /\ Places(d)'
<1>1. UNCHANGED <<spc, out, after, asked, playing, can_send_msg, currently_sending_message,
                  send_server_cancel, termination_flag, fdsOpen>>
  BY DEF server, sending
<1>2. Current(d)'
  BY <1>1 DEF ConnInv, Current
<1>3. Places(d)'
  BY <1>1 DEF ConnInv, Places
<1> QED
  BY <1>2, <1>3

LEMMA CallKeeps ==
  ASSUME Parts, NEW cmd \in MenuCommands \cup AsyncCommands, Call(cmd)
  PROVE  PartsKept
<1>1. ClientTypes /\ CallsNest /\ LinkTypes
  BY DEF Parts
<1>2. /\ cpc \in {"menu", "asked"} /\ cpc' = "send" /\ ~conn_err
      /\ cpc = "menu" => cmd \in MenuCommands /\ net_active
      /\ cpc = "asked" => cmd \in AsyncCommands
      /\ ex_jmp_buf_valid' = ex_jmp_buf_valid + 1
      /\ exFrame' = IF ex_jmp_buf_valid = 0 THEN Len(calls) + 1 ELSE exFrame
      /\ signalled' = (signalled /\ cpc = "asked")
      /\ UNCHANGED <<playgame_jmp_buf_valid, pgFrame, sockfd, conn_err, net_active,
                     server, c2s, s2c, up, stale, nprompts>>
  BY DEF Call, links
<1>3. PICK r : r = [cmd |-> cmd, tries |-> Retries, msg |-> NoMsg]
  OBVIOUS
<1>4. r \in Calls /\ r.cmd = cmd /\ r.msg = NoMsg
  BY <1>3, BoundsAssumption DEF Calls, Messages
<1>5. PICK q : q = Append(calls, r) /\ q \in Seq(Calls)
  BY <1>1, <1>4, AppendProperties DEF ClientTypes
<1>6. PICK n \in Nat : n = Len(calls)
  BY <1>1 DEF ClientTypes
<1>7. calls' = q /\ Len(q) = n + 1 /\ q[n + 1] = r /\ \A i \in 1..n : q[i] = calls[i]
  BY <1>1, <1>3, <1>4, <1>5, <1>6, AppendProperties DEF Call, ClientTypes
<1>8. PICK d \in Conns : d = sockfd
  BY <1>1, <1>2 DEF ClientTypes, CallsNest
<1>9. cpc = "menu" => calls = <<>> /\ n = 0 /\ Len(q) = 1 /\ q[1] = r
  <2>1. cpc = "menu" => calls = <<>>
    BY <1>1 DEF CallsNest
  <2>2. cpc = "menu" => n = 0
    BY <1>6, <2>1, EmptySeq
  <2> QED
    BY <1>7, <2>1, <2>2
<1>10. cpc = "asked" => /\ n = 1 /\ Len(q) = 2 /\ q[1] = calls[1] /\ q[2] = r
                        /\ calls # <<>> /\ calls[1].msg # NoMsg
  <2>1. cpc = "asked" => n = 1 /\ calls[1].msg # NoMsg
    BY <1>1, <1>6 DEF CallsNest
  <2>2. cpc = "asked" => calls # <<>>
    BY <1>1 DEF CallsNest
  <2>3. n = 1 => Len(q) = 2 /\ q[1] = calls[1] /\ q[2] = r
    BY <1>7
  <2> QED
    BY <2>1, <2>2, <2>3
<1>11. q # <<>> /\ sockfd # 0
  <2>1. Len(q) # 0
    BY <1>7
  <2> QED
    BY <1>8, <2>1, BoundsAssumption, EmptySeq DEF Conns
<1>12. ClientTypes'
  <2>1. /\ ex_jmp_buf_valid' \in Nat /\ ex_jmp_buf_valid' >= n + 1
        /\ exFrame' \in 0..(n + 1) /\ pgFrame \in 0..(n + 1)
    BY <1>1, <1>2, <1>6 DEF ClientTypes
  <2>2. signalled' \in BOOLEAN
    BY <1>2
  <2> QED
    BY <1>1, <1>2, <1>5, <1>7, <2>1, <2>2 DEF ClientTypes
<1>13. CallsNest'
  <2>1. exFrame' <= 1 /\ pgFrame <= 1
    <3>1. CASE ex_jmp_buf_valid = 0
      BY <1>1, <1>2, <3>1, FramesAre, EmptySeq DEF CallsNest
    <3>2. CASE ex_jmp_buf_valid # 0
      BY <1>1, <1>2, <3>2 DEF CallsNest
    <3> QED
      BY <3>1, <3>2
  <2>2. CASE cpc = "menu"
    BY <1>1, <1>2, <1>4, <1>7, <1>9, <1>11, <2>1, <2>2 DEF CallsNest
  <2>3. CASE cpc = "asked"
    BY <1>1, <1>2, <1>4, <1>7, <1>10, <1>11, <2>1, <2>3 DEF CallsNest
  <2> QED
    BY <1>2, <2>2, <2>3
<1>14. ConnInv(d) /\ spc[d] # "none" /\ d = sockfd
  BY <1>8 DEF Parts, ConnInv, Current
<1>15. UNCHANGED <<spc, out, asked, can_send_msg, send_server_cancel, termination_flag>>
  BY <1>2 DEF server, sending
<1>16. Balanced(d)'
  BY <1>2, <1>14, <1>15 DEF ConnInv, Balanced, Working
<1>17. Working(d) /\ termination_flag[d] = 0 /\ asked[d] # 0 => cpc = "asked" /\ calls[1].cmd = "play_game"
  BY <1>2, <1>9, <1>14 DEF ConnInv, AsksCaller
<1>18. AsksCaller(d)'
  <2>1. ~(Has(s2c[d], "request") \/ (up[d] /\ Runs(d))) /\ ~Has(s2c[d], "load_progress")
    BY <1>2, <1>14 DEF ConnInv, AsksCaller
  <2>2. Runs(d)' <=> Runs(d)
    BY <1>2, <1>15 DEF Runs
  <2>3. Working(d)' => Working(d)
    BY <1>2 DEF Working
  <2> QED
    BY <1>2, <1>7, <1>10, <1>11, <1>14, <1>15, <1>17, <2>1, <2>2, <2>3 DEF ConnInv, AsksCaller
<1>19. Answered(d)'
  <2>1. CASE cpc = "menu"
    BY <1>2, <1>4, <1>7, <1>9, <1>14, <1>15, <2>1 DEF ConnInv, Answered, Working
  <2>2. CASE cpc = "asked"
    BY <1>2, <1>7, <1>10, <1>14, <1>15, <2>2 DEF ConnInv, Answered, Working
  <2> QED
    BY <1>2, <2>1, <2>2
<1>20. CancelKept(d)'
  <2>1. CASE cpc = "menu"
    <3>1. Working(d) /\ termination_flag[d] = 0 => asked[d] = 0
      BY <1>17, <2>1
    <3>2. stale[d] \in {0, asked[d]}
      BY <1>14 DEF ConnInv, Places
    <3> QED
      BY <1>2, <1>15, <2>1, <3>1, <3>2 DEF CancelKept, Working
  <2>2. CASE cpc = "asked"
    BY <1>2, <1>14, <1>15, <2>2 DEF ConnInv, CancelKept, Working
  <2> QED
    BY <1>2, <2>1, <2>2
<1>21. ConnInv(d)'
  BY <1>2, <1>14, <1>16, <1>18, <1>19, <1>20, PlaceStays DEF ConnInv
<1>22. LinkTypes' /\ \A c \in Conns \ {d} : c2s'[c] = c2s[c] /\ s2c'[c] = s2c[c]
  BY <1>1, <1>2 DEF LinkTypes
<1> QED
  BY <1>2, <1>12, <1>13, <1>14, <1>21, <1>22, OwnConnection

\* The types and the nesting, where only the place in the innermost call changes.
LEMMA CallStays ==
  ASSUME Parts, calls # <<>>, signalled' \in BOOLEAN,
         UNCHANGED <<calls, exits, sockfd, conn_err, net_active>>,
         \/ cpc' \in {"send", "wait", "retry"}
         \/ cpc' = cpc
  PROVE  ClientTypes' /\ CallsNest'
<1>1. UNCHANGED <<ex_jmp_buf_valid, exFrame, playgame_jmp_buf_valid, pgFrame>>
  BY DEF exits
<1>2. ClientTypes'
  BY <1>1 DEF Parts, ClientTypes
<1>3. CallsNest'
  BY <1>1 DEF Parts, CallsNest
<1> QED
  BY <1>2, <1>3

LEMMA NoResponseKeeps ==
  ASSUME Parts, NoResponse
  PROVE  PartsKept
<1>1. ClientTypes /\ CallsNest /\ LinkTypes
  BY DEF Parts
<1>2. /\ cpc = "wait" /\ cpc' = "retry"
      /\ UNCHANGED <<calls, exits, sockfd, conn_err, net_active, signalled,
                     server, c2s, s2c, up, stale, nprompts>>
  BY DEF NoResponse, links, counts
<1>3. calls # <<>>
  BY <1>1, <1>2 DEF CallsNest
<1>4. PICK d \in Conns : d = sockfd
  BY <1>1, <1>3 DEF ClientTypes, CallsNest
<1>5. ClientTypes' /\ CallsNest'
  BY <1>1, <1>2, <1>3, CallStays DEF ClientTypes
<1>6. ConnInv(d) /\ spc[d] # "none" /\ d = sockfd
  BY <1>4 DEF Parts, ConnInv, Current
<1>7. UNCHANGED <<spc, out, asked, can_send_msg, send_server_cancel, termination_flag>>
  BY <1>2 DEF server, sending
<1>8. ~Working(d)'
  BY <1>2 DEF Working
<1>9. Balanced(d)'
  BY <1>2, <1>6, <1>7, <1>8 DEF ConnInv, Balanced
<1>10. AsksCaller(d)'
  <2>1. Runs(d)' <=> Runs(d)
    BY <1>2, <1>7 DEF Runs
  <2> QED
    BY <1>2, <1>6, <1>7, <1>8, <2>1 DEF ConnInv, AsksCaller
<1>11. Answered(d)' /\ CancelKept(d)'
  BY <1>2, <1>6, <1>7, <1>8 DEF ConnInv, Answered, CancelKept
<1>12. ConnInv(d)'
  BY <1>2, <1>6, <1>9, <1>10, <1>11, PlaceStays DEF ConnInv
<1>13. LinkTypes' /\ \A c \in Conns \ {d} : c2s'[c] = c2s[c] /\ s2c'[c] = s2c[c]
  BY <1>1, <1>2 DEF LinkTypes
<1> QED
  BY <1>2, <1>5, <1>6, <1>12, <1>13, OwnConnection

\* The user, or the cancel, answers: the answer is to be sent.
LEMMA RespondKeeps ==
  ASSUME Parts, NEW how \in {"given", "cancelled"}, Respond(how)
  PROVE  PartsKept
<1>1. ClientTypes /\ CallsNest /\ LinkTypes
  BY DEF Parts
<1>2. /\ cpc = "asked" /\ cpc' = "send" /\ signalled' = (signalled /\ how # "cancelled")
      /\ UNCHANGED <<calls, exits, sockfd, conn_err, net_active,
                     server, c2s, s2c, up, stale, nprompts>>
  BY DEF Respond, links, counts
<1>3. calls # <<>> /\ calls[Len(calls)].msg # NoMsg
  <2>1. Len(calls) = 1 /\ calls[1].msg # NoMsg
    BY <1>1, <1>2 DEF CallsNest
  <2> QED
    BY <2>1, EmptySeq
<1>4. PICK d \in Conns : d = sockfd
  BY <1>1, <1>3 DEF ClientTypes, CallsNest
<1>5. ClientTypes' /\ CallsNest'
  BY <1>2, <1>3, CallStays
<1>6. ConnInv(d) /\ spc[d] # "none" /\ d = sockfd
  BY <1>4 DEF Parts, ConnInv, Current
<1>7. UNCHANGED <<spc, out, asked, can_send_msg, send_server_cancel, termination_flag>>
  BY <1>2 DEF server, sending
<1>8. Balanced(d)'
  BY <1>2, <1>6, <1>7 DEF ConnInv, Balanced, Working
<1>9. AsksCaller(d)'
  <2>1. Runs(d)' <=> Runs(d)
    BY <1>2, <1>7 DEF Runs
  <2>2. Working(d)' => Working(d)
    BY <1>2 DEF Working
  <2> QED
    BY <1>2, <1>6, <1>7, <2>1, <2>2 DEF ConnInv, AsksCaller
<1>10. Answered(d)'
  BY <1>2, <1>6, <1>7 DEF ConnInv, Answered, Working
<1>11. CancelKept(d)'
  BY <1>2, <1>3 DEF CancelKept
<1>12. ConnInv(d)'
  BY <1>2, <1>6, <1>8, <1>9, <1>10, <1>11, PlaceStays DEF ConnInv
<1>13. LinkTypes' /\ \A c \in Conns \ {d} : c2s'[c] = c2s[c] /\ s2c'[c] = s2c[c]
  BY <1>1, <1>2 DEF LinkTypes
<1> QED
  BY <1>2, <1>5, <1>6, <1>12, <1>13, OwnConnection

\* The answer, or the command, is the only message on the way to the server.
LEMMA SendKeeps ==
  ASSUME Parts, Send
  PROVE  PartsKept
<1>1. ClientTypes /\ CallsNest /\ LinkTypes
  BY DEF Parts
<1>2. /\ cpc = "send" /\ cpc' \in {"wait", "retry"}
      /\ UNCHANGED <<calls, exits, sockfd, conn_err, net_active, signalled,
                     server, s2c, up, stale, nprompts>>
  BY DEF Send, counts
<1>3. calls # <<>>
  BY <1>1, <1>2 DEF CallsNest
<1>4. PICK d \in Conns : d = sockfd
  BY <1>1, <1>3 DEF ClientTypes, CallsNest
<1>5. ClientTypes' /\ CallsNest'
  <2>1. signalled' \in BOOLEAN
    BY <1>1, <1>2 DEF ClientTypes
  <2> QED
    BY <1>2, <1>3, <2>1, CallStays
<1>6. ConnInv(d) /\ spc[d] # "none" /\ d = sockfd
  BY <1>4 DEF Parts, ConnInv, Current
<1>7. UNCHANGED <<spc, out, asked, can_send_msg, send_server_cancel, termination_flag>>
  BY <1>2 DEF server, sending
<1>8. CASE ~up[d]
  <2>1. UNCHANGED c2s
    BY <1>6, <1>8 DEF Send
  <2>2. ~Working(d)'
    BY <1>2, <1>8 DEF Working
  <2>3. Balanced(d)'
    BY <1>2, <1>6, <1>7, <1>8, <2>1, <2>2 DEF ConnInv, Balanced
  <2>4. AsksCaller(d)'
    BY <1>2, <1>6, <1>7, <1>8, <2>1, <2>2 DEF ConnInv, AsksCaller
  <2>5. Answered(d)' /\ CancelKept(d)'
    BY <1>2, <1>6, <1>7, <2>1, <2>2 DEF ConnInv, Answered, CancelKept
  <2>6. ConnInv(d)'
    BY <1>2, <1>6, <2>3, <2>4, <2>5, PlaceStays DEF ConnInv
  <2>7. LinkTypes' /\ \A c \in Conns \ {d} : c2s'[c] = c2s[c] /\ s2c'[c] = s2c[c]
    BY <1>1, <1>2, <2>1 DEF LinkTypes
  <2> QED
    BY <1>2, <1>5, <1>6, <2>6, <2>7, OwnConnection
<1>9. CASE up[d]
  <2>1. PICK m : m = IF Top.msg = NoMsg THEN Command(Top) ELSE Top.msg
    OBVIOUS
  <2>2. cpc' = "wait" /\ c2s' = [c2s EXCEPT ![d] = Append(@, m)]
    BY <1>6, <1>9, <2>1 DEF Send
  <2>3. c2s[d] = <<>> /\ ~can_send_msg[d] /\ NoResponses(s2c[d])
    BY <1>2, <1>6, <1>9 DEF ConnInv, Balanced, Working
  <2>4. /\ Len(calls) \in {1, 2} /\ calls[1] \in Calls /\ Top \in Calls
        /\ Len(calls) = 1 => Top = calls[1]
        /\ Len(calls) = 2 => Top = calls[2] /\ Top.cmd \in AsyncCommands /\ Top.msg = NoMsg
    BY <1>1, <1>3, CallsAre
  <2>5. \/ /\ m.t = "answer" /\ Len(calls) = 1 /\ m = calls[1].msg
           /\ calls[1].msg # NoMsg /\ calls[1].cmd = "play_game"
        \/ /\ m.t = "command" /\ Top.msg = NoMsg /\ m.cmd = Top.cmd
           /\ m.cmd \in MenuCommands \cup AsyncCommands
    <3>1. CASE Top.msg = NoMsg
      BY <2>1, <2>4, <3>1 DEF Command, Calls
    <3>2. CASE Top.msg # NoMsg
      BY <1>1, <1>3, <2>1, <2>4, <3>2 DEF CallsNest
    <3> QED
      BY <3>1, <3>2
  <2>6. m \in Messages
    BY <2>1, <2>4 DEF Command, Calls, Messages
  <2>7. PICK q \in Seq(Messages) : q = Append(c2s[d], m)
    BY <1>1, <2>6, AppendProperties DEF LinkTypes
  <2>8. c2s' = [c2s EXCEPT ![d] = q]
    BY <2>2, <2>7
  <2>9. /\ c2s'[d] = q /\ c2s' \in [Conns -> Seq(Messages)]
        /\ \A c \in Conns \ {d} : c2s'[c] = c2s[c]
    BY <1>1, <2>8 DEF LinkTypes
  <2>10. q # <<>> /\ Len(q) <= 1 /\ m \in On(q) /\ \A x \in On(q) : x = m
    <3>1. Len(c2s[d]) = 0
      BY <2>3, EmptySeq
    <3>2. Len(q) = Len(c2s[d]) + 1
      BY <1>1, <2>6, <2>7, AppendProperties DEF LinkTypes
    <3>3. On(q) = On(c2s[d]) \cup {m} /\ On(c2s[d]) = {}
      BY <2>3, <2>6, <2>7, NothingOn, OnAppended
    <3>4. q # <<>>
      BY <3>3, NothingOn
    <3> QED
      BY <3>1, <3>2, <3>3, <3>4
  <2>11. Balanced(d)'
    BY <1>2, <1>6, <1>7, <2>2, <2>3, <2>9, <2>10 DEF ConnInv, Balanced, Working
  <2>12. termination_flag[d] = 0 /\ asked[d] # 0 /\ m.t = "command" => m.cmd \notin MenuCommands
    <3>1. SUFFICES ASSUME termination_flag[d] = 0, asked[d] # 0, m.t = "command"
                   PROVE  m.cmd \notin MenuCommands
      OBVIOUS
    <3>2. calls[1].msg # NoMsg
      BY <1>2, <1>6, <1>9, <3>1 DEF ConnInv, AsksCaller, Working
    <3>3. Top.msg = NoMsg /\ m.cmd = Top.cmd
      BY <2>5, <3>1
    <3>4. Top.cmd \in AsyncCommands
      BY <2>4, <3>2, <3>3
    <3> QED
      BY <3>3, <3>4 DEF MenuCommands, AsyncCommands
  <2>13. AsksCaller(d)'
    <3>1. ~(spc[d] = "game" \/ (spc[d] = "message" /\ out[d].t = "request"))
      BY <1>2, <1>6, <1>9 DEF ConnInv, AsksCaller, Runs
    <3>2. Runs(d)' => Len(calls) = 1 /\ calls[1].cmd = "play_game"
      <4>1. Runs(d)' => m.t = "answer" \/ (m.t = "command" /\ m.cmd = "play_game")
        BY <1>7, <2>9, <2>10, <3>1 DEF Runs
      <4>2. m.t = "command" /\ m.cmd = "play_game" => Len(calls) = 1 /\ calls[1].cmd = "play_game"
        BY <2>4, <2>5 DEF AsyncCommands
      <4> QED
        BY <2>5, <4>1, <4>2
    <3>3. Working(d)
      BY <1>2, <1>9 DEF Working
    <3>4. ~Has(s2c[d], "request")
      BY <2>3 DEF NoResponses, Has, IsResponse
    <3> QED
      BY <1>2, <1>6, <1>7, <2>2, <2>9, <2>10, <2>12, <3>2, <3>3, <3>4
         DEF ConnInv, AsksCaller
  <2>14. Answered(d)'
    <3>1. termination_flag[d] = 0 /\ m.t = "answer" => m.n = asked[d]
      <4>1. SUFFICES ASSUME termination_flag[d] = 0, m.t = "answer" PROVE m.n = asked[d]
        OBVIOUS
      <4>2. m = calls[1].msg /\ calls[1].msg # NoMsg
        BY <2>5, <4>1
      <4>3. spc[d] # "message"
        BY <1>6, <1>9, <2>3 DEF ConnInv, Places
      <4>4. Reply("play_game") \notin On(s2c[d])
        BY <2>3, ReplyIs DEF NoResponses, MenuCommands
      <4> QED
        BY <1>2, <1>3, <1>6, <1>9, <4>1, <4>2, <4>3, <4>4 DEF ConnInv, Answered, Working
    <3>2. \A x \in On(s2c[d]) : x.t # "request" /\ x # Reply("play_game")
      BY <2>3, ReplyIs DEF NoResponses, IsResponse, MenuCommands
    <3>3. CASE Len(calls) = 2
      BY <1>2, <1>6, <1>7, <1>9, <2>2, <2>9, <2>10, <3>1, <3>2, <3>3
         DEF ConnInv, Answered, Working
    <3>4. CASE Len(calls) # 2
      BY <1>2, <1>7, <2>2, <2>9, <2>10, <3>1, <3>2, <3>4 DEF Answered
    <3> QED
      BY <3>3, <3>4
  <2>15. CancelKept(d)'
    <3>1. calls[Len(calls)].msg # NoMsg => Has(c2s'[d], "answer")
      BY <2>5, <2>9, <2>10 DEF Top, Has
    <3> QED
      BY <1>2, <1>6, <1>7, <1>9, <2>2, <2>3, <3>1, NothingOn DEF ConnInv, CancelKept, Working
  <2>16. ConnInv(d)'
    BY <1>2, <1>6, <2>11, <2>13, <2>14, <2>15, PlaceStays DEF ConnInv
  <2>17. LinkTypes' /\ \A c \in Conns \ {d} : c2s'[c] = c2s[c] /\ s2c'[c] = s2c[c]
    BY <1>1, <1>2, <2>9 DEF LinkTypes
  <2> QED
    BY <1>2, <1>5, <1>6, <2>16, <2>17, OwnConnection
<1> QED
  BY <1>8, <1>9

--------------------------------------------------------------------------------
(****************************************************************************)
(* The client receives.                                                     *)
(****************************************************************************)

LEMMA TakeIs ==
  ASSUME LinkTypes, NEW d \in Conns, d = sockfd, s2c[d] # <<>>, Take
  PROVE  /\ s2c' \in [Conns -> Seq(Messages)]
         /\ \A c \in Conns \ {d} : s2c'[c] = s2c[c]
         /\ Head(s2c[d]) \in Messages
         /\ \A m : m \in On(s2c[d]) <=> m = Head(s2c[d]) \/ m \in On(s2c'[d])
         /\ OneResponse(s2c[d]) =>
              OneResponse(s2c'[d]) /\ (IsResponse(Head(s2c[d])) => NoResponses(s2c'[d]))
         /\ ProgressFirst(s2c[d]) => ProgressFirst(s2c'[d]) /\ ~Has(s2c'[d], "load_progress")
<1>1. PICK q \in Seq(Messages) : q = s2c[d]
  BY DEF LinkTypes
<1>2. Tail(q) \in Seq(Messages) /\ Head(q) \in Messages
      /\ \A m : m \in On(q) <=> m = Head(q) \/ m \in On(Tail(q))
  BY <1>1, OnTaken
<1>3. OneResponse(q) => OneResponse(Tail(q)) /\ (IsResponse(Head(q)) => NoResponses(Tail(q)))
  BY <1>1, ResponseTaken
<1>4. ProgressFirst(q) => ProgressFirst(Tail(q)) /\ ~Has(Tail(q), "load_progress")
  BY <1>1, ProgressTaken
<1>5. PICK r \in Seq(Messages) : r = Tail(q)
  BY <1>2
<1>6. s2c' = [s2c EXCEPT ![d] = r]
  BY <1>1, <1>5 DEF Take
<1>7. /\ s2c' \in [Conns -> Seq(Messages)] /\ s2c'[d] = r
      /\ \A c \in Conns \ {d} : s2c'[c] = s2c[c]
  BY <1>6 DEF LinkTypes
<1> QED
  BY <1>1, <1>2, <1>3, <1>4, <1>5, <1>7

\* A message out of turn is taken: the user interface hears of a cancel.
LEMMA AsideTakenKeeps ==
  ASSUME Parts, calls # <<>> \/ cpc = "menu", sockfd # 0, Take,
         Arrives("server_cancel") \/ (cpc = "wait" /\ Arrives("load_progress")),
         cpc \in {"wait", "asked", "menu"},
         signalled' \in BOOLEAN,
         cpc # "menu" /\ (Arrives("server_cancel") \/ signalled) => signalled',
         UNCHANGED <<calls, cpc, exits, sockfd, conn_err, net_active,
                     server, c2s, up, stale, nprompts>>
  PROVE  PartsKept
<1>1. ClientTypes /\ CallsNest /\ LinkTypes
  BY DEF Parts
<1>2. PICK d \in Conns : d = sockfd
  BY <1>1 DEF ClientTypes
<1>3. PICK h : h = Head(s2c[d])
  OBVIOUS
<1>4. s2c[d] # <<>> /\ h.t \in {"server_cancel", "load_progress"}
  BY <1>2, <1>3 DEF Arrives
<1>5. /\ s2c' \in [Conns -> Seq(Messages)]
      /\ \A c \in Conns \ {d} : s2c'[c] = s2c[c]
      /\ \A m : m \in On(s2c[d]) <=> m = h \/ m \in On(s2c'[d])
      /\ OneResponse(s2c[d]) => OneResponse(s2c'[d])
      /\ ProgressFirst(s2c[d]) => ProgressFirst(s2c'[d])
  BY <1>1, <1>2, <1>3, <1>4, TakeIs
<1>6. ~IsResponse(h) /\ h # Reply("play_game") /\ h.t # "request"
  BY <1>4 DEF IsResponse, Reply
<1>7. NoResponses(s2c'[d]) <=> NoResponses(s2c[d])
  BY <1>5, <1>6 DEF NoResponses
<1>8. UNCHANGED <<ex_jmp_buf_valid, exFrame, playgame_jmp_buf_valid, pgFrame>>
  BY DEF exits
<1>9. ClientTypes' /\ CallsNest'
  BY <1>1, <1>8 DEF ClientTypes, CallsNest
<1>10. ConnInv(d) /\ spc[d] # "none" /\ d = sockfd
  BY <1>2 DEF Parts, ConnInv, Current
<1>11. UNCHANGED <<spc, out, asked, can_send_msg, send_server_cancel, termination_flag>>
  BY DEF server, sending
<1>12. Balanced(d)'
  BY <1>5, <1>7, <1>10, <1>11 DEF ConnInv, Balanced, Working
<1>13. AsksCaller(d)'
  <2>1. Runs(d)' <=> Runs(d)
    BY <1>11 DEF Runs
  <2>2. /\ Has(s2c'[d], "request") => Has(s2c[d], "request")
        /\ Has(s2c'[d], "load_progress") => Has(s2c[d], "load_progress")
    BY <1>5 DEF Has
  <2> QED
    BY <1>5, <1>10, <1>11, <2>1, <2>2 DEF ConnInv, AsksCaller, Working
<1>14. Answered(d)'
  BY <1>5, <1>6, <1>10, <1>11 DEF ConnInv, Answered, Working
<1>15. CancelKept(d)'
  <2>1. CASE cpc = "menu"
    BY <2>1 DEF CancelKept
  <2>2. CASE cpc # "menu"
    <3>1. CASE h.t = "server_cancel"
      <4>1. signalled'
        BY <1>2, <1>3, <1>4, <2>2, <3>1 DEF Arrives
      <4> QED
        BY <4>1 DEF CancelKept
    <3>2. CASE h.t = "load_progress"
      <4>1. Has(s2c[d], "server_cancel") => Has(s2c'[d], "server_cancel")
        BY <1>5, <3>2 DEF Has
      <4> QED
        BY <1>10, <1>11, <2>2, <4>1 DEF ConnInv, CancelKept, Working
    <3> QED
      BY <1>4, <3>1, <3>2
  <2> QED
    BY <2>1, <2>2
<1>16. ConnInv(d)'
  BY <1>10, <1>12, <1>13, <1>14, <1>15, PlaceStays DEF ConnInv
<1>17. LinkTypes' /\ \A c \in Conns \ {d} : c2s'[c] = c2s[c] /\ s2c'[c] = s2c[c]
  BY <1>1, <1>5 DEF LinkTypes
<1> QED
  BY <1>9, <1>10, <1>16, <1>17, OwnConnection

LEMMA ReceiveAsideKeeps ==
  ASSUME Parts, ReceiveAside
  PROVE  PartsKept
<1>1. /\ cpc = "wait" /\ Take /\ signalled' = (signalled \/ Arrives("server_cancel"))
      /\ Arrives("server_cancel") \/ Arrives("load_progress")
      /\ UNCHANGED <<calls, cpc, exits, sockfd, conn_err, net_active,
                     server, c2s, up, stale, nprompts>>
  BY DEF ReceiveAside, counts
<1>2. calls # <<>> /\ sockfd # 0
  BY <1>1 DEF Parts, CallsNest
<1>3. signalled' \in BOOLEAN
  BY <1>1 DEF Parts, ClientTypes
<1> QED
  BY <1>1, <1>2, <1>3, AsideTakenKeeps

LEMMA CheckCancelKeeps ==
  ASSUME Parts, CheckCancel
  PROVE  PartsKept
<1>1. /\ cpc \in {"asked", "menu"} /\ Take /\ signalled' = (cpc = "asked")
      /\ Arrives("server_cancel") /\ sockfd # 0
      /\ UNCHANGED <<calls, cpc, exits, sockfd, conn_err, net_active,
                     server, c2s, up, stale, nprompts>>
  BY DEF CheckCancel, counts
<1>2. calls # <<>> \/ cpc = "menu"
  BY <1>1 DEF Parts, CallsNest
<1>3. signalled' \in BOOLEAN
  BY <1>1
<1> QED
  BY <1>1, <1>2, <1>3, AsideTakenKeeps

\* What a message is, by its kind.
LEMMA RequestIs ==
  \A m \in Messages : m.t = "request" => m.n \in 1..MaxPrompts
  BY DEF Messages, NoMsg, Cancel, Progress, Shutdown

\* A request, for which the game waits, becomes what the user has to answer.
LEMMA ReceiveRequestKeeps ==
  ASSUME Parts, ReceiveRequest
  PROVE  PartsKept
<1>1. ClientTypes /\ CallsNest /\ LinkTypes
  BY DEF Parts
<1>2. /\ cpc = "wait" /\ cpc' = "asked" /\ Arrives("request") /\ Take
      /\ calls' = [calls EXCEPT ![Len(calls)].msg = Answer(Head(s2c[sockfd]).n)]
      /\ playgame_jmp_buf_valid' = JumpHere.valid /\ pgFrame' = JumpHere.frame
      /\ UNCHANGED <<ex_jmp_buf_valid, exFrame, sockfd, conn_err, net_active,
                     signalled, server, c2s, up, stale, nprompts>>
  BY DEF ReceiveRequest, counts
<1>3. calls # <<>> /\ sockfd # 0 /\ net_active /\ ~conn_err
  BY <1>1, <1>2 DEF CallsNest
<1>4. PICK d \in Conns : d = sockfd
  BY <1>1, <1>3 DEF ClientTypes
<1>5. PICK h : h = Head(s2c[d])
  OBVIOUS
<1>6. s2c[d] # <<>> /\ h.t = "request"
  BY <1>2, <1>4, <1>5 DEF Arrives
<1>7. /\ s2c' \in [Conns -> Seq(Messages)] /\ h \in Messages
      /\ \A c \in Conns \ {d} : s2c'[c] = s2c[c]
      /\ \A m : m \in On(s2c[d]) <=> m = h \/ m \in On(s2c'[d])
      /\ OneResponse(s2c[d]) =>
           OneResponse(s2c'[d]) /\ (IsResponse(h) => NoResponses(s2c'[d]))
      /\ ProgressFirst(s2c[d]) => ProgressFirst(s2c'[d]) /\ ~Has(s2c'[d], "load_progress")
  BY <1>1, <1>2, <1>4, <1>5, <1>6, TakeIs
<1>8. ConnInv(d) /\ spc[d] # "none" /\ d = sockfd
  BY <1>4 DEF Parts, ConnInv, Current
<1>9. UNCHANGED <<spc, out, asked, can_send_msg, send_server_cancel, termination_flag>>
  BY <1>2 DEF server, sending
<1>10. IsResponse(h) /\ h \in On(s2c[d]) /\ Has(s2c[d], "request")
  BY <1>6, <1>7 DEF IsResponse, Has
<1>11. OneResponse(s2c'[d]) /\ NoResponses(s2c'[d])
  BY <1>2, <1>7, <1>8, <1>10 DEF ConnInv, Balanced
<1>12. Len(calls) = 1 /\ calls[1].cmd = "play_game"
  BY <1>2, <1>8, <1>10 DEF ConnInv, AsksCaller
<1>13. PICK k \in 1..MaxPrompts : k = h.n
  BY <1>6, <1>7, RequestIs
<1>14. PICK a : a = Answer(k)
  OBVIOUS
<1>15. a \in Messages /\ a # NoMsg /\ a.t = "answer" /\ a.n = k
  BY <1>14 DEF Answer, Messages, NoMsg
<1>16. /\ calls' \in Seq(Calls) /\ Len(calls') = 1 /\ calls'[1].cmd = "play_game"
       /\ calls'[1].msg = a
  <2>1. calls \in Seq(Calls) /\ 1 \in 1..Len(calls) /\ calls[1] \in Calls
    BY <1>1, <1>3, <1>12, CallsAre DEF ClientTypes
  <2>2. PICK r : r = [calls[1] EXCEPT !.msg = a]
    OBVIOUS
  <2>3. r \in Calls /\ r.cmd = calls[1].cmd /\ r.msg = a
    BY <1>15, <2>1, <2>2 DEF Calls
  <2>4. PICK q : q = [calls EXCEPT ![1] = r]
    OBVIOUS
  <2>5. calls' = q
    BY <1>2, <1>4, <1>5, <1>12, <1>13, <1>14, <2>2, <2>4
  <2>6. /\ q \in Seq(Calls) /\ Len(q) = Len(calls)
        /\ \A j \in 1..Len(calls) : q[j] = IF j = 1 THEN r ELSE calls[j]
    BY <2>1, <2>3, <2>4, ExceptSeq
  <2> QED
    BY <1>12, <2>1, <2>3, <2>5, <2>6
<1>17. PICK j : j = JumpHere
  OBVIOUS
<1>18. /\ j.valid \in BOOLEAN /\ j.frame \in {0, 1}
       /\ playgame_jmp_buf_valid \/ (Top.cmd = "play_game" /\ Top.msg = NoMsg) => j.valid
       /\ ~j.valid => calls[1].msg = NoMsg
  BY <1>1, <1>3, <1>17, JumpHereIs
<1>19. j.valid
  <2>1. Top = calls[1]
    BY <1>1, <1>3, <1>12, CallsAre
  <2> QED
    BY <1>12, <1>18, <2>1
<1>20. ClientTypes'
  <2>1. exFrame \in 0..1 /\ ex_jmp_buf_valid \in Nat /\ ex_jmp_buf_valid >= 1 /\ j.frame \in 0..1
    BY <1>1, <1>12, <1>18 DEF ClientTypes
  <2>2. playgame_jmp_buf_valid' \in BOOLEAN /\ pgFrame' = j.frame
    BY <1>2, <1>17, <1>18
  <2> QED
    BY <1>1, <1>2, <1>16, <2>1, <2>2 DEF ClientTypes
<1>21. CallsNest'
  <2>1. calls' # <<>> /\ Len(calls') <= 2 /\ Len(calls') # 2
    <3>1. PICK n : n = Len(calls')
      OBVIOUS
    <3>2. n = 1
      BY <1>16, <3>1
    <3>3. n <= 2 /\ n # 2 /\ n # 0
      BY <3>2
    <3> QED
      BY <3>1, <3>3, EmptySeq
  <2>2. exFrame <= 1 /\ pgFrame' <= 1 /\ playgame_jmp_buf_valid'
    <3>1. pgFrame' = j.frame /\ playgame_jmp_buf_valid' = j.valid
      BY <1>2, <1>17
    <3>2. pgFrame' <= 1
      BY <1>18, <3>1
    <3> QED
      BY <1>1, <1>19, <3>1, <3>2 DEF CallsNest
  <2>3. "play_game" \in MenuCommands
    BY DEF MenuCommands
  <2>4. /\ calls'[1].cmd \in MenuCommands /\ calls'[1].msg # NoMsg
        /\ calls'[1].msg.t = "answer" /\ calls'[1].cmd = "play_game"
    BY <1>15, <1>16, <2>3
  <2>5. sockfd' # 0 /\ net_active' /\ ~conn_err' /\ exFrame' <= 1 /\ cpc' = "asked"
    BY <1>2, <1>3, <2>2
  <2> QED
    BY <1>16, <2>1, <2>2, <2>4, <2>5 DEF CallsNest
<1>22. up[d] => c2s[d] = <<>> /\ ~can_send_msg[d]
  <2>1. ~NoResponses(s2c[d])
    BY <1>10 DEF NoResponses
  <2> QED
    BY <1>2, <1>8, <2>1 DEF ConnInv, Balanced, Working
<1>23. Balanced(d)'
  BY <1>2, <1>7, <1>8, <1>9, <1>11, <1>22 DEF ConnInv, Balanced, Working
<1>24. AsksCaller(d)'
  <2>1. ~Has(s2c'[d], "request")
    BY <1>11 DEF NoResponses, Has, IsResponse
  <2>2. ~Has(s2c'[d], "load_progress") /\ ProgressFirst(s2c'[d])
    BY <1>7, <1>8 DEF ConnInv, AsksCaller
  <2>3. ~(up[d] /\ Runs(d)')
    <3>1. up[d] => spc[d] \notin {"game", "message"} /\ \A x : x \notin On(c2s[d])
      BY <1>8, <1>22, NothingOn DEF ConnInv, Places
    <3> QED
      BY <1>2, <1>9, <3>1 DEF Runs
  <2>4. calls' # <<>>
    BY <1>2, <1>21 DEF CallsNest
  <2> QED
    BY <1>2, <1>8, <1>9, <1>15, <1>16, <2>1, <2>2, <2>3, <2>4 DEF ConnInv, AsksCaller
<1>25. Answered(d)'
  <2>1. up[d] /\ termination_flag[d] = 0 => k = asked[d]
    <3>1. up[d] => Working(d)
      BY <1>2 DEF Working
    <3>2. Working(d) /\ termination_flag[d] = 0 =>
            \A m \in On(s2c[d]) : m.t = "request" => m.n = asked[d]
      <4>1. Answered(d)
        BY <1>8 DEF ConnInv
      <4> SUFFICES ASSUME Working(d), termination_flag[d] = 0, NEW m \in On(s2c[d]),
                          m.t = "request"
                   PROVE  m.n = asked[d]
        OBVIOUS
      <4> QED
        BY <4>1 DEF Answered
    <3> QED
      BY <1>6, <1>10, <1>13, <3>1, <3>2
  <2>2. \A m \in On(s2c'[d]) : m \in On(s2c[d])
    BY <1>7
  <2>3. Working(d)' => Working(d)
    BY <1>2 DEF Working
  <2>4. Working(d) => up[d]
    BY DEF Working
  <2> QED
    BY <1>2, <1>8, <1>9, <1>15, <1>16, <2>1, <2>2, <2>3, <2>4 DEF ConnInv, Answered
<1>26. CancelKept(d)'
  <2>1. Has(s2c[d], "server_cancel") => Has(s2c'[d], "server_cancel")
    BY <1>6, <1>7 DEF Has
  <2>2. Working(d)' => Working(d)
    BY <1>2 DEF Working
  <2> QED
    BY <1>2, <1>8, <1>9, <2>1, <2>2 DEF ConnInv, CancelKept
<1>27. ConnInv(d)'
  BY <1>2, <1>8, <1>23, <1>24, <1>25, <1>26, PlaceStays DEF ConnInv
<1>28. LinkTypes' /\ \A c \in Conns \ {d} : c2s'[c] = c2s[c] /\ s2c'[c] = s2c[c]
  BY <1>1, <1>2, <1>7 DEF LinkTypes
<1> QED
  BY <1>2, <1>8, <1>20, <1>21, <1>27, <1>28, OwnConnection

\* A message is taken, and the calls are left: nothing that asks is on the way, and
\* on a connection that works it is the client's turn and no request is unanswered.
LEMMA LeftTakeKeeps ==
  ASSUME Parts, Left, Take, NEW d \in Conns, d = sockfd, s2c[d] # <<>>,
         UNCHANGED <<sockfd, conn_err, net_active, signalled, server, c2s, up, stale,
                     nprompts>>,
         NoResponses(s2c'[d]), ~Has(s2c'[d], "load_progress"),
         up[d] => c2s[d] = <<>> /\ ~can_send_msg[d],
         up[d] /\ termination_flag[d] = 0 => asked[d] = 0
  PROVE  PartsKept
<1>1. ClientTypes /\ LinkTypes
  BY DEF Parts
<1>2. ClientTypes' /\ CallsNest'
  <2>1. /\ sockfd' \in Conns \cup {0} /\ signalled' \in BOOLEAN
        /\ net_active' /\ ~conn_err' => sockfd' # 0
        /\ conn_err' \in BOOLEAN /\ net_active' \in BOOLEAN
    BY <1>1 DEF ClientTypes
  <2> QED
    BY <2>1, LeftIsNested
<1>3. /\ s2c' \in [Conns -> Seq(Messages)]
      /\ \A c \in Conns \ {d} : s2c'[c] = s2c[c]
      /\ \A m \in On(s2c'[d]) : m \in On(s2c[d])
      /\ ProgressFirst(s2c[d]) => ProgressFirst(s2c'[d])
  BY <1>1, TakeIs
<1>4. ConnInv(d) /\ spc[d] # "none"
  BY DEF Parts, ConnInv, Current
<1>5. UNCHANGED <<spc, out, asked, can_send_msg, send_server_cancel, termination_flag>>
  BY DEF server, sending
<1>6. calls' = <<>> /\ cpc' \notin {"asked", "wait", "send", "retry"}
  BY DEF Left
<1>7. Balanced(d)'
  <2>1. OneResponse(s2c'[d])
    BY <1>3 DEF NoResponses, OneResponse, On
  <2> QED
    BY <1>3, <1>4, <1>5, <1>6, <2>1 DEF ConnInv, Balanced, Working
<1>8. AsksCaller(d)'
  <2>1. ~Has(s2c'[d], "request")
    BY DEF NoResponses, Has, IsResponse
  <2>2. ~(up[d] /\ Runs(d)')
    <3>1. up[d] => spc[d] \notin {"game", "message"} /\ \A x : x \notin On(c2s[d])
      BY <1>4, NothingOn DEF ConnInv, Places
    <3> QED
      BY <1>5, <3>1 DEF Runs
  <2> QED
    BY <1>3, <1>4, <1>5, <2>1, <2>2 DEF ConnInv, AsksCaller, Working
<1>9. Answered(d)'
  <2>1. \A m \in On(s2c'[d]) : m.t # "request" /\ m # Reply("play_game")
    BY ReplyIs DEF NoResponses, IsResponse, MenuCommands
  <2> QED
    BY <1>4, <1>5, <1>6, <2>1 DEF ConnInv, Answered
<1>10. CancelKept(d)'
  BY <1>6 DEF CancelKept
<1>11. ConnInv(d)'
  BY <1>4, <1>7, <1>8, <1>9, <1>10, PlaceStays DEF ConnInv
<1>12. LinkTypes' /\ \A c \in Conns \ {d} : c2s'[c] = c2s[c] /\ s2c'[c] = s2c[c]
  BY <1>1, <1>3 DEF LinkTypes
<1> QED
  BY <1>2, <1>11, <1>12, OwnConnection

\* What comes while the client does not wait, and is no cancel, comes on a connection
\* that is gone.
LEMMA CheckOtherKeeps ==
  ASSUME Parts, CheckOther
  PROVE  PartsKept
<1>1. ClientTypes /\ CallsNest /\ LinkTypes
  BY DEF Parts
<1>2. /\ cpc \in {"asked", "menu"} /\ sockfd # 0 /\ s2c[sockfd] # <<>> /\ Take
      /\ ~Arrives("server_cancel")
      /\ UNCHANGED <<sockfd, conn_err, net_active, signalled, server, c2s, up, stale, nprompts>>
  BY DEF CheckOther, counts
<1>3. PICK d \in Conns : d = sockfd
  BY <1>1, <1>2 DEF ClientTypes
<1>4. Left
  <2>1. CASE ex_jmp_buf_valid > 0
    <3>1. playgame_jmp_buf_valid' = FALSE /\ JumpToApi
      BY <2>1 DEF CheckOther
    <3> QED
      BY <1>1, <3>1, JumpToApiLeaves
  <2>2. CASE ~(ex_jmp_buf_valid > 0)
    <3>1. UNCHANGED <<calls, cpc, exits>>
      BY <2>2 DEF CheckOther
    <3>2. ex_jmp_buf_valid = 0
      BY <1>1, <2>2, FramesAre
    <3>3. cpc = "menu"
      BY <1>1, <1>2, <3>2, FramesAre DEF CallsNest
    <3> QED
      BY <1>1, <3>1, <3>3, NoCallLeft
  <2> QED
    BY <2>1, <2>2
<1>5. ConnInv(d)
  BY DEF Parts
<1>6. NoResponses(s2c[d]) /\ ~Has(s2c[d], "load_progress")
  BY <1>2, <1>3, <1>5 DEF ConnInv, Balanced, AsksCaller
<1>7. /\ Head(s2c[d]) \in On(s2c[d]) /\ \A m \in On(s2c'[d]) : m \in On(s2c[d])
  BY <1>1, <1>2, <1>3, TakeIs
<1>8. ~up[d]
  <2>1. Head(s2c[d]).t \notin {"request", "reply", "server_cancel", "load_progress"}
    BY <1>2, <1>3, <1>6, <1>7 DEF NoResponses, IsResponse, Has, Arrives
  <2> QED
    BY <1>5, <1>7, <2>1 DEF ConnInv, Balanced
<1>9. NoResponses(s2c'[d]) /\ ~Has(s2c'[d], "load_progress")
  BY <1>6, <1>7 DEF NoResponses, Has
<1> QED
  BY <1>2, <1>3, <1>4, <1>8, <1>9, LeftTakeKeeps

LEMMA ReplyMessage ==
  \A m \in Messages : m.t = "reply" => m = Reply(m.cmd)
  BY DEF Messages, NoMsg, Cancel, Progress, Shutdown, Reply

\* The innermost call returns to the one that answers a request.
LEMMA InnerReturns ==
  ASSUME Parts, Return(2), Len(calls) = 2
  PROVE  /\ calls' \in Seq(Calls) /\ Len(calls') = 1 /\ calls'[1] = calls[1]
         /\ cpc' = "asked" /\ exFrame' = exFrame /\ pgFrame' = pgFrame
         /\ ex_jmp_buf_valid' \in Nat /\ ex_jmp_buf_valid' >= 1
<1>1. ClientTypes /\ CallsNest
  BY DEF Parts
<1>2. /\ calls' = SubSeq(calls, 1, 1) /\ cpc' = At(1)
      /\ exFrame' = IF exFrame >= 2 THEN 0 ELSE exFrame
      /\ pgFrame' = IF pgFrame >= 2 THEN 0 ELSE pgFrame
      /\ ex_jmp_buf_valid' = ex_jmp_buf_valid - 1
  BY DEF Return, LeaveFrom
<1>3. exFrame' = exFrame /\ pgFrame' = pgFrame
  BY <1>1, <1>2, FramesAre
<1>4. ex_jmp_buf_valid' \in Nat /\ ex_jmp_buf_valid' >= 1
  BY <1>1, <1>2, FramesAre
<1>5. cpc' = "asked"
  BY <1>2 DEF At
<1>6. calls \in Seq(Calls) /\ 1 \in 1..Len(calls)
  BY <1>1 DEF ClientTypes
<1>7. \A i \in 1..1 : calls[i] \in Calls
  BY <1>6, ElementOfSeq
<1>8. PICK q : q = SubSeq(calls, 1, 1)
  OBVIOUS
<1>9. q \in Seq(Calls) /\ Len(q) = 1 /\ q[1] = calls[1]
  BY <1>7, <1>8, SubSeqProperties
<1> QED
  BY <1>2, <1>3, <1>4, <1>5, <1>8, <1>9

LEMMA ReceiveReplyKeeps ==
  ASSUME Parts, ReceiveReply
  PROVE  PartsKept
<1>1. ClientTypes /\ CallsNest /\ LinkTypes
  BY DEF Parts
<1>2. /\ cpc = "wait" /\ Arrives("reply") /\ Take
      /\ UNCHANGED <<sockfd, conn_err, net_active, signalled, server, c2s, up, stale, nprompts>>
  BY DEF ReceiveReply, counts
<1>3. calls # <<>> /\ sockfd # 0 /\ net_active /\ ~conn_err
  BY <1>1, <1>2 DEF CallsNest
<1>4. PICK d \in Conns : d = sockfd
  BY <1>1, <1>3 DEF ClientTypes
<1>5. PICK h : h = Head(s2c[d])
  OBVIOUS
<1>6. s2c[d] # <<>> /\ h.t = "reply"
  BY <1>2, <1>4, <1>5 DEF Arrives
<1>7. /\ s2c' \in [Conns -> Seq(Messages)] /\ h \in Messages
      /\ \A c \in Conns \ {d} : s2c'[c] = s2c[c]
      /\ \A m : m \in On(s2c[d]) <=> m = h \/ m \in On(s2c'[d])
      /\ OneResponse(s2c[d]) =>
           OneResponse(s2c'[d]) /\ (IsResponse(h) => NoResponses(s2c'[d]))
      /\ ProgressFirst(s2c[d]) => ProgressFirst(s2c'[d]) /\ ~Has(s2c'[d], "load_progress")
  BY <1>1, <1>2, <1>4, <1>5, <1>6, TakeIs
<1>8. ConnInv(d) /\ spc[d] # "none" /\ d = sockfd
  BY <1>4 DEF Parts, ConnInv, Current
<1>9. UNCHANGED <<spc, out, asked, can_send_msg, send_server_cancel, termination_flag>>
  BY <1>2 DEF server, sending
<1>10. IsResponse(h) /\ h \in On(s2c[d]) /\ h = Reply(h.cmd)
  BY <1>6, <1>7, ReplyMessage DEF IsResponse
<1>11. OneResponse(s2c'[d]) /\ NoResponses(s2c'[d]) /\ ~Has(s2c'[d], "load_progress")
  BY <1>2, <1>7, <1>8, <1>10 DEF ConnInv, Balanced, AsksCaller
<1>12. up[d] => c2s[d] = <<>> /\ ~can_send_msg[d]
  <2>1. ~NoResponses(s2c[d])
    BY <1>10 DEF NoResponses
  <2> QED
    BY <1>2, <1>8, <2>1 DEF ConnInv, Balanced, Working
<1>13. up[d] => Working(d)
  BY <1>2 DEF Working
<1>14. CASE h.cmd = "play_game" /\ JumpHere.valid /\ JumpToPlayGame(JumpHere.frame)
  <2>1. PICK j : j = JumpHere
    OBVIOUS
  <2>2. j.frame \in {0, 1} /\ (j.frame = 1 => Len(calls) >= 1)
    BY <1>1, <1>3, <2>1, JumpHereIs
  <2>3. JumpToPlayGame(j.frame)
    BY <1>14, <2>1
  <2>4. Left
    BY <1>1, <2>2, <2>3, JumpToPlayGameLeaves
  <2>5. up[d] /\ termination_flag[d] = 0 => asked[d] = 0
    <3>1. Reply("play_game") \in On(s2c[d])
      BY <1>10, <1>14
    <3> QED
      BY <1>8, <1>13, <3>1 DEF ConnInv, Answered
  <2> QED
    BY <1>2, <1>4, <1>6, <1>11, <1>12, <2>4, <2>5, LeftTakeKeeps
<1>15. CASE /\ h.cmd = Top.cmd /\ Top.cmd # "play_game"
            /\ Return(Len(calls)) /\ UNCHANGED playgame_jmp_buf_valid
  <2>1. CASE Len(calls) = 1
    <3>1. LeaveFrom(1) /\ ex_jmp_buf_valid' = ex_jmp_buf_valid - 1
      BY <1>15, <2>1 DEF Return
    <3>2. ex_jmp_buf_valid' \in Nat
      BY <1>1, <2>1, <3>1, FramesAre
    <3>3. playgame_jmp_buf_valid' \in BOOLEAN
      BY <1>1, <1>15 DEF ClientTypes
    <3>4. Left
      BY <1>1, <3>1, <3>2, <3>3, LeaveFirst DEF Left
    <3>5. up[d] /\ termination_flag[d] = 0 => asked[d] = 0
      <4>1. calls[1].cmd # "play_game"
        BY <1>1, <1>3, <1>15, <2>1, CallsAre
      <4> QED
        BY <1>8, <1>13, <4>1 DEF ConnInv, AsksCaller
    <3> QED
      BY <1>2, <1>4, <1>6, <1>11, <1>12, <3>4, <3>5, LeftTakeKeeps
  <2>2. CASE Len(calls) = 2
    <3>1. Return(2)
      BY <1>15, <2>2
    <3>2. /\ calls' \in Seq(Calls) /\ Len(calls') = 1 /\ calls'[1] = calls[1]
          /\ cpc' = "asked" /\ exFrame' = exFrame /\ pgFrame' = pgFrame
          /\ ex_jmp_buf_valid' \in Nat /\ ex_jmp_buf_valid' >= 1
      BY <2>2, <3>1, InnerReturns
    <3>3. /\ calls[1].msg # NoMsg /\ calls[1].cmd \in MenuCommands
          /\ calls[1].msg.t = "answer" /\ calls[1].cmd = "play_game"
          /\ playgame_jmp_buf_valid /\ exFrame <= 1 /\ pgFrame <= 1
      BY <1>1, <1>3, <2>2 DEF CallsNest
    <3>4. exFrame \in 0..1 /\ pgFrame \in 0..1
      BY <1>1, FramesAre
    <3>5. ClientTypes'
      BY <1>1, <1>2, <1>15, <3>2, <3>4 DEF ClientTypes
    <3>6. CallsNest'
      <4>1. calls' # <<>> /\ Len(calls') <= 2 /\ Len(calls') # 2
        <5>1. PICK n : n = Len(calls')
          OBVIOUS
        <5>2. n = 1
          BY <3>2, <5>1
        <5>3. n <= 2 /\ n # 2 /\ n # 0
          BY <5>2
        <5> QED
          BY <5>1, <5>3, EmptySeq
      <4>2. playgame_jmp_buf_valid' /\ exFrame' <= 1 /\ pgFrame' <= 1
        BY <1>15, <3>2, <3>3
      <4> QED
        BY <1>2, <1>3, <3>2, <3>3, <4>1, <4>2 DEF CallsNest
    <3>7. Balanced(d)'
      BY <1>2, <1>7, <1>8, <1>9, <1>11, <1>12, <3>2 DEF ConnInv, Balanced, Working
    <3>8. Working(d)' => Working(d)
      BY <1>2 DEF Working
    <3>9. AsksCaller(d)'
      <4>1. ~Has(s2c'[d], "request")
        BY <1>11 DEF NoResponses, Has, IsResponse
      <4>2. ~(up[d] /\ Runs(d)')
        <5>1. up[d] => spc[d] \notin {"game", "message"} /\ \A x : x \notin On(c2s[d])
          BY <1>8, <1>12, NothingOn DEF ConnInv, Places
        <5> QED
          BY <1>2, <1>9, <5>1 DEF Runs
      <4>3. calls' # <<>>
        BY <3>2, <3>6 DEF CallsNest
      <4>4. ProgressFirst(s2c'[d])
        BY <1>7, <1>8 DEF ConnInv, AsksCaller
      <4> QED
        BY <1>2, <1>8, <1>9, <1>11, <3>2, <3>3, <3>8, <4>1, <4>2, <4>3, <4>4
           DEF ConnInv, AsksCaller
    <3>10. Answered(d)'
      <4>1. h # Reply("play_game")
        <5>1. h.cmd # "play_game" /\ Reply("play_game").cmd = "play_game"
          BY <1>15 DEF Reply
        <5> QED
          BY <5>1
      <4>2. \A m \in On(s2c'[d]) : m.t # "request" /\ m # Reply("play_game")
        BY <1>11, ReplyIs DEF NoResponses, IsResponse, MenuCommands
      <4>3. Reply("play_game") \notin On(s2c[d])
        BY <1>7, <4>1, <4>2
      <4>4. Working(d) /\ termination_flag[d] = 0 =>
              calls[1].msg.n = asked[d] \/ (spc[d] = "message" /\ out[d] = Reply("play_game"))
        BY <1>3, <1>8, <2>2, <3>3, <4>3 DEF ConnInv, Answered
      <4> QED
        BY <1>2, <1>8, <1>9, <3>2, <3>8, <4>2, <4>4 DEF ConnInv, Answered
    <3>11. CancelKept(d)'
      <4>1. Has(s2c[d], "server_cancel") => Has(s2c'[d], "server_cancel")
        BY <1>6, <1>7 DEF Has
      <4> QED
        BY <1>2, <1>8, <1>9, <3>8, <4>1 DEF ConnInv, CancelKept
    <3>12. ConnInv(d)'
      BY <1>2, <1>8, <3>7, <3>9, <3>10, <3>11, PlaceStays DEF ConnInv
    <3>13. LinkTypes' /\ \A c \in Conns \ {d} : c2s'[c] = c2s[c] /\ s2c'[c] = s2c[c]
      BY <1>1, <1>2, <1>7 DEF LinkTypes
    <3> QED
      BY <1>2, <1>8, <3>5, <3>6, <3>12, <3>13, OwnConnection
  <2> QED
    BY <1>1, <1>3, <2>1, <2>2, CallsAre
<1> QED
  BY <1>4, <1>5, <1>14, <1>15 DEF ReceiveReply

--------------------------------------------------------------------------------
(****************************************************************************)
(* The invariant, and what it says.                                         *)
(****************************************************************************)

LEMMA InvariantIs == SessionInv <=> Parts
  BY TypesSplit DEF SessionInv, Parts

LEMMA InvariantJoined == PartsKept => SessionInv'
  BY DEF PartsKept, SessionInv, TypeOK, ClientTypes, ServerTypes, LinkTypes, Calls

LEMMA InitIsGood ==
  ASSUME Init
  PROVE  SessionInv
<1>1. MaxPrompts \in Nat
  BY BoundsAssumption
<1>2. 0 \in 0..MaxPrompts
  BY <1>1
<1>3. Len(<<>>) = 0 /\ <<>> \in Seq(Calls)
  BY EmptySeq
<1>4. ClientTypes
  <2>1. calls \in Seq(Calls) /\ Len(calls) = 0
    BY <1>3 DEF Init
  <2>2. sockfd \in Conns \cup {0}
    BY DEF Init
  <2>3. cpc = "menu" /\ conn_err = FALSE /\ net_active = FALSE
        /\ playgame_jmp_buf_valid = FALSE /\ signalled = FALSE
    BY DEF Init
  <2>4. ex_jmp_buf_valid \in Nat /\ ex_jmp_buf_valid >= Len(calls)
    BY <2>1 DEF Init
  <2>5. exFrame \in 0..Len(calls) /\ pgFrame \in 0..Len(calls)
    BY <2>1 DEF Init
  <2> QED
    BY <2>1, <2>2, <2>3, <2>4, <2>5 DEF ClientTypes
<1>5. NoMsg \in Messages
  BY DEF Messages
<1>6. ServerTypes
  BY <1>2, <1>5 DEF Init, ServerTypes
<1>7. LinkTypes
  BY NothingOn DEF Init, LinkTypes
<1>8. CallsNest
  BY <1>3 DEF Init, CallsNest
<1>9. ASSUME NEW c \in Conns PROVE ConnInv(c)
  <2>1. /\ spc[c] = "none" /\ c2s[c] = <<>> /\ s2c[c] = <<>> /\ ~up[c] /\ ~can_send_msg[c]
        /\ ~currently_sending_message[c] /\ ~send_server_cancel[c] /\ ~playing[c]
        /\ asked[c] = 0 /\ stale[c] = 0 /\ termination_flag[c] = 0
    BY DEF Init
  <2>2. c # sockfd
    BY BoundsAssumption DEF Init, Conns
  <2>3. \A x : x \notin On(<<>>)
    BY NothingOn
  <2>4. Len(<<>>) <= 1 /\ ProgressFirst(<<>>)
    BY NothingOn
  <2>5. Current(c) /\ Places(c)
    BY <2>1, <2>2 DEF Current, Places
  <2>6. Balanced(c) /\ AsksCaller(c)
    BY <2>1, <2>2, <2>3, <2>4 DEF Balanced, AsksCaller, Working
  <2>7. Answered(c) /\ CancelKept(c)
    BY <2>1, <2>3 DEF Answered, CancelKept, Working
  <2> QED
    BY <2>5, <2>6, <2>7 DEF ConnInv
<1> QED
  BY <1>4, <1>6, <1>7, <1>8, <1>9, InvariantIs DEF Parts

\* A step of a server process, of a signal or of the network is about one connection.
LEMMA ServerStepKeeps ==
  ASSUME Parts, NEW c \in Conns, ServerStep(c) \/ Outside(c)
  PROVE  PartsKept
<1>1. ServerTypes /\ LinkTypes /\ ConnInv(c)
  BY DEF Parts
<1>2. ServerKept(c)
  <2>1. CASE SendMessage(c)
    BY <1>1, <2>1, SendMessageKeeps
  <2>2. CASE SendFails(c)
    BY <1>1, <2>2, SendFailsKeeps
  <2>3. CASE DeferredCancel(c)
    BY <1>1, <2>3, DeferredCancelKeeps
  <2>4. CASE SendCancel(c)
    BY <1>1, <2>4, SendCancelKeeps
  <2>5. CASE MessageDone(c)
    BY <1>1, <2>5, MessageDoneKeeps
  <2>6. CASE MainCommand(c)
    BY <1>1, <2>6, MainCommandKeeps
  <2>7. CASE AsyncCommand(c)
    BY <1>1, <2>7, AsyncCommandKeeps
  <2>8. CASE TakeAnswer(c)
    BY <1>1, <2>8, TakeAnswerKeeps
  <2>9. CASE InputLost(c) \/ InactivityTimeout(c)
    BY <1>1, <2>9, InputLostKeeps
  <2>10. CASE Terminated(c)
    BY <1>1, <2>10, TerminatedKeeps
  <2>11. CASE GameAsks(c)
    BY <1>1, <2>11, GameAsksKeeps
  <2>12. CASE GameEnds(c)
    BY <1>1, <2>12, GameEndsKeeps
  <2>13. CASE Update(c)
    BY <1>1, <2>13, UpdateKeeps
  <2>14. CASE MonitorSignal(c)
    BY <1>1, <2>14, MonitorSignalKeeps
  <2>15. CASE SigTerm(c)
    BY <1>1, <2>15, SigTermKeeps
  <2>16. CASE Break(c)
    BY <1>1, <2>16, BreakKeeps
  <2>17. CASE GameLoads(c)
    BY <1>1, <2>17, GameLoadsKeeps
  <2> QED
    BY <2>1, <2>2, <2>3, <2>4, <2>5, <2>6, <2>7, <2>8, <2>9, <2>10, <2>11, <2>12, <2>13,
       <2>14, <2>15, <2>16, <2>17 DEF ServerStep, Outside
<1>3. UNCHANGED client
  BY DEF ServerStep, Outside, SendMessage, SendFails, DeferredCancel, SendCancel, MessageDone,
         MainCommand, AsyncCommand, TakeAnswer, InputLost, InactivityTimeout, Terminated,
         GameAsks, GameEnds, Update, MonitorSignal, SigTerm, Break, GameLoads
<1>4. UNCHANGED <<calls, cpc, sockfd, conn_err, net_active, signalled, ex_jmp_buf_valid,
                  exFrame, playgame_jmp_buf_valid, pgFrame>>
  BY <1>3 DEF client, exits
<1>5. ClientTypes' /\ CallsNest'
  <2>1. ClientTypes'
    BY <1>4 DEF Parts, ClientTypes
  <2>2. CallsNest'
    BY <1>4 DEF Parts, CallsNest
  <2> QED
    BY <2>1, <2>2
<1>6. ASSUME NEW d \in Conns, d # c PROVE ConnInv(d)'
  <2>1. Same(d) /\ ConnInv(d)
    BY <1>2, <1>6 DEF ServerKept, Parts
  <2> QED
    BY <1>4, <2>1, OtherStays
<1> QED
  BY <1>2, <1>5, <1>6 DEF ServerKept, PartsKept

LEMMA ClientStepKeeps ==
  ASSUME Parts, ClientStep \/ User
  PROVE  PartsKept
<1>1. CASE Send
  BY <1>1, SendKeeps
<1>2. CASE NoResponse
  BY <1>2, NoResponseKeeps
<1>3. CASE Retry
  BY <1>3, RetryKeeps
<1>4. CASE ReceiveAside
  BY <1>4, ReceiveAsideKeeps
<1>5. CASE ReceiveRequest
  BY <1>5, ReceiveRequestKeeps
<1>6. CASE ReceiveReply
  BY <1>6, ReceiveReplyKeeps
<1>7. CASE ReceiveError
  BY <1>7, ReceiveErrorKeeps
<1>8. CASE CheckCancel
  BY <1>8, CheckCancelKeeps
<1>9. CASE CheckOther
  BY <1>9, CheckOtherKeeps
<1>10. CASE CheckLost
  BY <1>10, CheckLostKeeps
<1>11. CASE Respond("cancelled") \/ Respond("given")
  BY <1>11, RespondKeeps
<1>12. CASE Connect
  BY <1>12, ConnectKeeps
<1>13. CASE Disconnect
  BY <1>13, DisconnectKeeps
<1>14. CASE \E cmd \in MenuCommands \cup AsyncCommands : Call(cmd)
  BY <1>14, CallKeeps
<1> QED
  BY <1>1, <1>2, <1>3, <1>4, <1>5, <1>6, <1>7, <1>8, <1>9, <1>10, <1>11, <1>12, <1>13, <1>14
     DEF ClientStep, User

LEMMA SessionKept ==
  ASSUME SessionInv, [Next]_vars
  PROVE  SessionInv'
<1>1. Parts
  BY InvariantIs
<1>2. CASE ClientStep \/ User
  BY <1>1, <1>2, ClientStepKeeps, InvariantJoined
<1>3. CASE \E c \in Conns : ServerStep(c) \/ Outside(c)
  BY <1>1, <1>3, ServerStepKeeps, InvariantJoined
<1>4. CASE UNCHANGED vars
  <2>1. UNCHANGED <<client, server, links, stale, counts>>
    BY <1>4 DEF vars
  <2>2. /\ UNCHANGED <<calls, cpc, sockfd, conn_err, net_active, signalled, ex_jmp_buf_valid,
                       exFrame, playgame_jmp_buf_valid, pgFrame>>
        /\ UNCHANGED <<spc, out, after, asked, playing, can_send_msg, currently_sending_message,
                       send_server_cancel, termination_flag, fdsOpen, c2s, s2c, up, stale,
                       nprompts>>
    BY <2>1 DEF client, exits, server, sending, links, counts
  <2>3. ClientTypes' /\ ServerTypes' /\ LinkTypes'
    BY <1>1, <2>2 DEF Parts, ClientTypes, ServerTypes, LinkTypes
  <2>4. CallsNest'
    BY <1>1, <2>2 DEF Parts, CallsNest
  <2>5. ASSUME NEW c \in Conns PROVE ConnInv(c)'
    BY <1>1, <2>2, OtherStays DEF Parts, Same
  <2> QED
    BY <2>3, <2>4, <2>5, InvariantJoined DEF PartsKept
<1> QED
  BY <1>2, <1>3, <1>4 DEF Next

\* The inductive invariant of the protocol: the types, how calls nest, and what ties
\* the two ends of every connection and what is on the way together.
THEOREM SessionInvariance == Spec => []SessionInv
<1>1. Init => SessionInv
  BY InitIsGood
<1>2. SessionInv /\ [Next]_vars => SessionInv'
  BY SessionKept
<1> QED
  BY <1>1, <1>2, PTL DEF Spec

\* Every variable has its type; a call counter is no less than the calls, and a client
\* that is connected and has no error has a socket (send_receive_msg).
THEOREM TypesHold == Spec => []TypeOK
<1>1. SessionInv => TypeOK
  BY DEF SessionInv
<1> QED
  BY <1>1, SessionInvariance, PTL

LEMMA TurnsAre ==
  ASSUME SessionInv, NEW c \in Conns, Working(c), c = sockfd
  PROVE  Turns(c) = 1
<1>1. ConnInv(c) /\ LinkTypes
  BY InvariantIs DEF Parts
<1>2. PICK q \in Seq(Messages) : q = s2c[c]
  BY <1>1 DEF LinkTypes
<1>3. PICK n \in Nat : n = Len(q)
  OBVIOUS
<1>4. PICK I : I = {i \in 1..n : IsTurn(q[i])}
  OBVIOUS
<1>5. PICK k \in Nat : k = Len(c2s[c])
  BY <1>1 DEF LinkTypes
<1>6. \A i \in 1..n : IsTurn(q[i]) <=> IsResponse(q[i])
  <2>1. \A i \in 1..n : q[i].t \in {"request", "reply", "server_cancel", "load_progress"}
    BY <1>1, <1>2, <1>3 DEF ConnInv, Balanced, On, Working
  <2> QED
    BY <2>1 DEF IsTurn, IsResponse
<1>7. OneResponse(q)
  BY <1>1, <1>2 DEF ConnInv, Balanced, Working
<1>8. NoResponses(q) => Cardinality(I) = 0
  <2>1. NoResponses(q) => I = {}
    BY <1>3, <1>4, <1>6 DEF NoResponses, On
  <2> QED
    BY <2>1, FS_EmptySet
<1>9. ~NoResponses(q) => Cardinality(I) = 1
  <2>1. SUFFICES ASSUME ~NoResponses(q) PROVE Cardinality(I) = 1
    OBVIOUS
  <2>2. PICK i \in 1..n : IsResponse(q[i])
    BY <1>3, <2>1 DEF NoResponses, On
  <2>3. \A x : x \in I <=> x \in {i}
    BY <1>3, <1>4, <1>6, <1>7, <2>2 DEF OneResponse
  <2>4. I = {i}
    BY <2>3
  <2> QED
    BY <2>4, FS_Singleton
<1>10. k = 0 <=> c2s[c] = <<>>
  BY <1>1, <1>5, EmptySeq DEF LinkTypes
<1>11. k <= 1 /\ (can_send_msg[c] => k = 0)
  BY <1>1, <1>5, <1>10 DEF ConnInv, Balanced, Working
<1>12. k # 0 \/ can_send_msg[c] => cpc = "wait" /\ NoResponses(q)
  BY <1>1, <1>2, <1>10 DEF ConnInv, Balanced
<1>13. cpc = "wait" => k # 0 \/ can_send_msg[c] \/ ~NoResponses(q)
  BY <1>1, <1>2, <1>10 DEF ConnInv, Balanced
<1>14. cpc # "wait" => NoResponses(q)
  BY <1>1, <1>2 DEF ConnInv, Balanced, Working
<1>15. Turns(c) = (IF cpc = "wait" THEN 0 ELSE 1) + k
                    + (IF can_send_msg[c] THEN 1 ELSE 0) + Cardinality(I)
  BY <1>2, <1>3, <1>4, <1>5 DEF Turns
<1>16. CASE cpc # "wait"
  <2>1. k = 0 /\ ~can_send_msg[c] /\ Cardinality(I) = 0
    BY <1>8, <1>12, <1>14, <1>16
  <2> QED
    BY <1>15, <1>16, <2>1
<1>17. CASE cpc = "wait" /\ NoResponses(q)
  <2>1. Cardinality(I) = 0
    BY <1>8, <1>17
  <2>2. CASE can_send_msg[c]
    BY <1>11, <1>15, <1>17, <2>1, <2>2
  <2>3. CASE ~can_send_msg[c]
    <3>1. k = 1
      BY <1>11, <1>13, <1>17, <2>3
    <3> QED
      BY <1>15, <1>17, <2>1, <2>3, <3>1
  <2> QED
    BY <2>2, <2>3
<1>18. CASE cpc = "wait" /\ ~NoResponses(q)
  <2>1. Cardinality(I) = 1 /\ k = 0 /\ ~can_send_msg[c]
    BY <1>9, <1>12, <1>18
  <2> QED
    BY <1>15, <1>18, <2>1
<1> QED
  BY <1>16, <1>17, <1>18

\* On a connection that works it is exactly one end's turn, whatever signals, nested
\* commands and reconnecting do (client_msg's can_send_msg, receive_json_msg).
THEOREM TurnsAlternateHolds == Spec => []TurnsAlternate
<1>1. SessionInv => TurnsAlternate
  BY TurnsAre DEF TurnsAlternate, Working
<1> QED
  BY <1>1, SessionInvariance, PTL

\* An answer travels only to the process that asked for it and still waits
\* (client_request), however often the client reconnects.
THEOREM AnswersThePromptHolds == Spec => []AnswersThePrompt
<1>1. ASSUME SessionInv PROVE AnswersThePrompt
  <2>1. ASSUME NEW c \in Conns, NEW i \in 1..Len(c2s[c]), c2s[c][i].t = "answer",
               termination_flag[c] = 0
        PROVE  c2s[c][i].n = asked[c]
    <3>1. c2s[c][i] \in On(c2s[c])
      BY DEF On
    <3> QED
      BY <1>1, <2>1, <3>1 DEF SessionInv, ConnInv, Answered
  <2> QED
    BY <2>1 DEF AnswersThePrompt
<1> QED
  BY <1>1, SessionInvariance, PTL

\* A monitor signal that finds a request unanswered leads to a cancel of it, or the
\* client has answered (handle_sigrtmin, send_server_cancel).
THEOREM CancelReachesHolds == Spec => []CancelReaches
<1>1. ASSUME SessionInv PROVE CancelReaches
  <2>1. ASSUME NEW c \in Conns, stale[c] # 0, up[c], termination_flag[c] = 0, c = sockfd,
               cpc \in {"asked", "wait"}
        PROVE  \/ send_server_cancel[c] \/ spc[c] = "cancel" \/ spc[c] = "message"
               \/ \E i \in 1..Len(s2c[c]) : s2c[c][i] = Cancel
               \/ signalled
               \/ c2s[c] # <<>>
    <3>1. ConnInv(c) /\ LinkTypes
      BY <1>1, InvariantIs DEF Parts
    <3>2. Working(c)
      BY <2>1 DEF Working
    <3>3. \/ send_server_cancel[c] \/ spc[c] = "cancel" \/ Has(s2c[c], "server_cancel")
          \/ signalled \/ Has(c2s[c], "answer")
      BY <2>1, <3>1, <3>2 DEF ConnInv, CancelKept
    <3>4. Has(c2s[c], "answer") => c2s[c] # <<>>
      BY NothingOn
    <3>5. Has(s2c[c], "server_cancel") => \E i \in 1..Len(s2c[c]) : s2c[c][i] = Cancel
      <4>1. SUFFICES ASSUME Has(s2c[c], "server_cancel")
                     PROVE  \E i \in 1..Len(s2c[c]) : s2c[c][i] = Cancel
        OBVIOUS
      <4>2. PICK i \in 1..Len(s2c[c]) : s2c[c][i].t = "server_cancel"
        BY <4>1 DEF Has, On
      <4>3. s2c[c] \in Seq(Messages)
        BY <3>1 DEF LinkTypes
      <4>4. s2c[c][i] \in Messages
        BY <4>3, ElementOfSeq
      <4>5. \A m \in Messages : m.t = "server_cancel" => m = Cancel
        BY DEF Messages, NoMsg, Cancel, Progress, Shutdown
      <4> QED
        BY <4>2, <4>4, <4>5
    <3> QED
      BY <3>3, <3>4, <3>5
  <2> QED
    BY <2>1 DEF CancelReaches
<1> QED
  BY <1>1, SessionInvariance, PTL
================================================================================
