--------------------------------- MODULE Shop ---------------------------------
(****************************************************************************)
(* A shop: the shopkeeper's bill, and what the player can do to the goods   *)
(* before paying (shk.c, and what of pickup.c, invent.c, mkobj.c and        *)
(* dothrow.c handles goods).                                                *)
(*                                                                          *)
(* An object that is not paid for is marked on both sides: it is unpaid,    *)
(* and the bill has an entry with its number and the quantity taken.  The   *)
(* two must agree however stacks are split, merged, used up, put into boxes *)
(* or thrown out, whether the shopkeeper is at home, angry or away.         *)
(*                                                                          *)
(* A handler is an operator from a state of the world to the next one, so   *)
(* that handlers can call each other as they do in the code.                *)
(****************************************************************************)
EXTENDS Integers, Sequences, FiniteSets, FiniteSetsExt, SequencesExt

CONSTANTS
  Goods,       \* stacks of goods that lie in the shop
  Box,         \* a box that is for sale, too
  Spares,      \* numbers for objects that are made in the course of the game
  Trades,      \* the kinds of objects this shop deals in: "goods", "box"
  Prices,      \* what one object may cost; it depends on looks and charisma
  Offer,       \* what the shopkeeper offers for one
  Fee,         \* the charge for a use of unpaid goods
  Ransom,      \* what appeases a shopkeeper who was not robbed: 1000
  Quantity,    \* objects in a stack
  BILLSZ,      \* entries of the bill: 200
  Purse, Till, Gold, \* money: the player's, the shopkeeper's, on the floor
  MaxDue,      \* bound: credit and debts
  Wanders,     \* an angry shopkeeper may leave a shop that the player is in
  Hooks        \* goods may be fetched with a hook, from outside of a shop whose
               \* owner is there

Ids == Goods \cup {Box} \cup Spares

VARIABLES
  shop,   \* struct eshk, and where its owner is
  obj,    \* the objects
  hero,   \* where the player is, u.ushops, the money
  wrong   \* the impossible() calls made

shopVars == <<shop, obj, hero, wrong>>

Now == [shop |-> shop, obj |-> obj, hero |-> hero, wrong |-> wrong]

Nothing == [kind |-> "goods", quan |-> 0, unpaid |-> FALSE, no_charge |-> FALSE,
            where |-> "none"]

\* There may be a box, and the player may have money.
ShopInit ==
  /\ shop = [bill |-> <<>>, credit |-> 0, debit |-> 0, loan |-> 0, robbed |-> 0,
             angry |-> FALSE, surcharge |-> FALSE, following |-> FALSE,
             bill_inactive |-> FALSE, at |-> "home", till |-> Till, gold |-> Gold]
  /\ hero \in [place : {"out"}, ushops : {FALSE}, purse : {0, Purse}]
  /\ wrong = {}
  /\ \E place \in {"floor", "none"} :
       obj = [i \in Ids |->
                CASE i \in Goods -> [Nothing EXCEPT !.quan = Quantity, !.where = "floor"]
                  [] i = Box     -> [Nothing EXCEPT !.kind = "box", !.quan = 1, !.where = place]
                  [] OTHER       -> Nothing]

------------------------------------------------------------------------------
(* The bill.                                                                *)

Impossible(g, what) == [g EXCEPT !.wrong = @ \cup {what}]

Contents(g) == {i \in Ids : g.obj[i].where = "box"}
HasContents(g, o) == o = Box /\ Contents(g) # {}

\* The objects, some of them changed.
Changed(new, old) == FoldSet(LAMBDA i, f : [f EXCEPT ![i] = new[i]], old, DOMAIN new)

\* The objects in S are the player's own, or are not.
SetNoCharge(g, S, mine) ==
  [g EXCEPT !.obj = Changed([i \in S |-> [@[i] EXCEPT !.no_charge = mine]], @)]

Unused(g) == {i \in Ids \ {Box} : g.obj[i].where = "none"}
Fresh(g)  == CHOOSE i \in Unused(g) : TRUE

\* The objects of which part is used up: the bill has more of them.
Partial(g) ==
  {i \in Ids : \E k \in DOMAIN g.shop.bill :
                 g.shop.bill[k].id = i /\ g.shop.bill[k].bquan > g.obj[i].quan}

\* onbill: the place of an entry, 0 if there is none; and what it complains of.
OnBill(g, o) ==
  LET places == {k \in DOMAIN g.shop.bill : g.shop.bill[k].id = o}
  IN IF g.shop.bill_inactive \/ places = {} THEN 0 ELSE CHOOSE k \in places : TRUE

Checked(g, o) ==
  CASE g.shop.bill_inactive -> Impossible(g, "adding to inactive bill")
    [] OnBill(g, o) # 0 /\ ~g.obj[o].unpaid -> Impossible(g, "paid object on bill")
    [] OnBill(g, o) = 0 /\ g.obj[o].unpaid -> Impossible(g, "unpaid object not on bill")
    [] OTHER -> g

\* The last entry takes the place of one that is removed.
Without(bill, k) ==
  SubSeq([bill EXCEPT ![k] = bill[Len(bill)]], 1, Len(bill) - 1)

Due(bill) == SumFunction([k \in DOMAIN bill |-> bill[k].price * bill[k].bquan])

Full(g) == Len(g.shop.bill) = BILLSZ

Surcharged(p) == p + (p + 2) \div 3
Reduced(p)    == p - (p + 3) \div 4

\* The same entries with other prices.
Repriced(bill, Price(_)) ==
  <<>> \o [k \in DOMAIN bill |-> [bill[k] EXCEPT !.price = Price(@)]]

pacify_shk(g) ==
  IF g.shop.bill_inactive THEN Impossible(g, "pacifying with inactive bill")
  ELSE [g EXCEPT
          !.shop.angry = FALSE, !.shop.surcharge = FALSE,
          !.shop.bill = IF ~g.shop.surcharge THEN @
                        ELSE Repriced(@, Reduced)]

rile_shk(g) ==
  IF g.shop.bill_inactive THEN Impossible(g, "riling with inactive bill")
  ELSE [g EXCEPT
          !.shop.angry = TRUE, !.shop.surcharge = TRUE,
          !.shop.bill = IF g.shop.surcharge THEN @
                        ELSE Repriced(@, Surcharged)]

\* shop_keeper and next_shkp: whoever looks the shopkeeper up brings the
\* prices into line with the mood.
Keeper(g) ==
  CASE g.shop.angry /\ ~g.shop.surcharge -> rile_shk(g)
    [] ~g.shop.angry /\ g.shop.surcharge -> pacify_shk(g)
    [] OTHER -> g

AtHome(g) == g.shop.at = "home"

hot_pursuit(g) == [rile_shk(g) EXCEPT !.shop.following = TRUE]

\* The object is in none of the lists that clear_unpaid goes through.
Floating(g, o) ==
  LET Loose(i) == g.obj[i].where = "free"
  IN Loose(o) \/ (g.obj[o].where = "box" /\ Loose(Box))

\* clear_unpaid and setpaid: the bill is settled, one way or another.
setpaid(g) ==
  LET paid == {i \in Ids : OnBill(g, i) # 0 /\ ~Floating(g, i)}
      used == {i \in Ids : g.obj[i].where = "billed"}
      s    == [g EXCEPT !.obj = Changed([i \in used |-> Nothing], @)]
      h    == IF s.shop.bill_inactive THEN Impossible(s, "adding to inactive bill") ELSE s
  IN [h EXCEPT
        !.obj = Changed([i \in paid |-> [@[i] EXCEPT !.unpaid = FALSE]], @),
        !.shop.bill = <<>>, !.shop.credit = 0, !.shop.debit = 0, !.shop.loan = 0]

\* What is the player's own is just taken, the rest gets an entry.
Added(c, o, dummy, price) ==
  IF c.obj[o].no_charge THEN [c EXCEPT !.obj[o].no_charge = FALSE]
  ELSE [c EXCEPT
          !.shop.bill = Append(@,
             [id |-> o, bquan |-> c.obj[o].quan, useup |-> dummy,
              price |-> IF c.shop.surcharge THEN Surcharged(price) ELSE price]),
          !.obj[o] = [@ EXCEPT !.unpaid = TRUE,
                               !.where = IF dummy THEN "billed" ELSE c.obj[o].where]]

add_one_tobill(g, o, dummy, price) ==
  LET Seen(s) ==
        IF ~AtHome(s) THEN s
        ELSE IF OnBill(s, o) # 0 \/ Full(s) THEN Checked(s, o)
        ELSE Added(Checked(s, o), o, dummy, price)
  IN IF g.hero.ushops THEN Seen(Keeper(g)) ELSE g

\* bill_box_content, and the box itself.
BoxAndAll(c, o, dummy, price) ==
  FoldSet(LAMBDA i, h : add_one_tobill(h, i, dummy, price),
          IF c.obj[o].no_charge THEN c ELSE add_one_tobill(c, o, dummy, price),
          {i \in Contents(c) : ~c.obj[i].no_charge})

\* addtobill, with picked_container, for all but gold.
addtobill(g, o, dummy, price) ==
  LET Seen(s) ==
        CASE ~AtHome(s) -> s
          [] AtHome(s) /\ (OnBill(s, o) # 0 \/ Full(s)) -> Checked(s, o)
          [] AtHome(s) /\ OnBill(s, o) = 0 /\ ~Full(s) ->
               IF HasContents(s, o)
               THEN SetNoCharge(BoxAndAll(Checked(s, o), o, dummy, price),
                                {Box} \cup Contents(s), FALSE)
               ELSE add_one_tobill(Checked(s, o), o, dummy, price)
  IN IF g.hero.ushops THEN Seen(Keeper(g)) ELSE g


\* The entry at k, for o, is taken off; n is what was used up of it.
Off(h, o, k, n) ==
  LET used == h.shop.bill[k].bquan - h.obj[o].quan
  IN IF k = 0 THEN h
     ELSE IF used > 0
          THEN [h EXCEPT
                  !.shop.bill[k] = [@ EXCEPT !.id = n, !.bquan = used, !.useup = TRUE],
                  !.obj[n] = [h.obj[o] EXCEPT !.quan = used, !.where = "billed"]]
          ELSE [h EXCEPT !.shop.bill = Without(@, k)]

\* An object goes back, or is lost: what is left of it comes off the bill,
\* and what was used up of it becomes an entry of its own.
sub_one_frombill(g, o) ==
  Off([Checked(g, o) EXCEPT !.obj[o].unpaid = FALSE], o, OnBill(g, o), Fresh(g))

\* Mutant of subfrombill: what is in a box stays on the bill.
subfrombill_LeavesContents(g, o) == sub_one_frombill(g, o)

subfrombill(g, o) ==
  FoldSet(LAMBDA i, h : sub_one_frombill(h, i), sub_one_frombill(g, o),
          IF o = Box THEN Contents(g) ELSE {})

------------------------------------------------------------------------------
(* Objects that are on the bill.                                            *)

\* The entry at k, for o, is split: what is now b was part of o.
Split(s, o, b, k) ==
  LET rest  == [s EXCEPT !.shop.bill[k].bquan = @ - s.obj[b].quan]
      told  == IF s.shop.bill[k].bquan <= s.obj[b].quan
               THEN Impossible(rest, "nothing left on bill") ELSE rest
      entry == [id |-> b, bquan |-> s.obj[b].quan, useup |-> FALSE,
                price |-> s.shop.bill[k].price]
  IN CASE k = 0 -> Impossible(Checked(s, o), "not on bill")
       [] k # 0 /\ Full(s) -> [told EXCEPT !.obj[b].unpaid = FALSE]
       [] k # 0 /\ ~Full(s) -> [told EXCEPT !.shop.bill = Append(@, entry)]

splitbill(g, o, b) ==
  LET Seen(s) ==
        IF s.hero.ushops /\ AtHome(s) THEN Split(s, o, b, OnBill(s, o))
        ELSE Impossible(s, "no resident shopkeeper")
  IN Seen(IF g.hero.ushops THEN Keeper(g) ELSE g)

\* splitobj: Fresh(g) is what is split off.
splitobj(g, o, n) ==
  LET b == Fresh(g)
      h == [g EXCEPT !.obj[o].quan = @ - n, !.obj[b] = [g.obj[o] EXCEPT !.quan = n]]
  IN IF g.obj[o].unpaid THEN splitbill(h, o, b) ELSE h

\* The n objects of the stack o that a command is about, and the state with
\* these in a stack of their own.
Part(g, o, n)  == IF n < g.obj[o].quan THEN Fresh(g) ELSE o
Apart(g, o, n) == IF n < g.obj[o].quan THEN splitobj(g, o, n) ELSE g

same_price(g, a, b) ==
  /\ OnBill(g, a) # 0 /\ OnBill(g, b) # 0
  /\ g.shop.bill[OnBill(g, a)].price = g.shop.bill[OnBill(g, b)].price

mergable(g, a, b) ==
  /\ a # b /\ g.obj[a].kind = "goods" /\ g.obj[b].kind = "goods"
  /\ g.obj[a].unpaid = g.obj[b].unpaid /\ g.obj[a].no_charge = g.obj[b].no_charge
  /\ g.obj[a].unpaid => same_price(Keeper(g), a, b)

\* Mutant of merged: the entry does not take the other one's quantity.
merged_KeepsBquan(g, a, b) ==
  LET Entry(s, k, c) ==
        IF k = 0 THEN c
        ELSE IF OnBill(s, a) = 0 THEN Impossible(c, "merged into what is not on bill")
        ELSE [c EXCEPT !.shop.bill = Without(@, k)]
      Merge(s, k) ==
        [Entry(s, k, IF s.hero.ushops \/ k # 0 THEN Checked(Checked(s, b), a) ELSE s)
           EXCEPT !.obj[a].quan = @ + s.obj[b].quan, !.obj[b] = Nothing]
      Seen(s) == Merge(s, OnBill(s, b))
  IN Seen(IF g.hero.ushops \/ g.obj[b].unpaid THEN Keeper(g) ELSE g)

\* The stack b, with the entry at k, becomes part of a, with the one at j.
Joined(s, a, b, k, j) ==
  LET c   == IF s.hero.ushops \/ k # 0 THEN Checked(Checked(s, b), a) ELSE s
      sum == s.shop.bill[j].bquan + s.shop.bill[k].bquan
      d   == CASE k = 0            -> c
               [] k # 0 /\ j = 0 -> Impossible(c, "merged into what is not on bill")
               [] k # 0 /\ j # 0 ->
                    [c EXCEPT !.shop.bill = Without([s.shop.bill EXCEPT ![j].bquan = sum], k)]
  IN [d EXCEPT !.obj[a].quan = @ + s.obj[b].quan, !.obj[b] = Nothing]

\* merged, and obfree of b with the stack a that takes it.
merged(g, a, b) ==
  LET Seen(s) == Joined(s, a, b, OnBill(s, b), OnBill(s, a))
  IN Seen(IF g.hero.ushops \/ g.obj[b].unpaid THEN Keeper(g) ELSE g)

\* The object o comes to where; there it may meet a stack it merges with.
\* In the inventory it must, on the floor they may lie apart.
Put(g, o, where) ==
  LET Met(h, stacks) ==
        {merged(h, a, o) : a \in stacks}
          \cup (IF stacks = {} \/ where = "floor" THEN {h} ELSE {})
      Lies(h) == Met(h, {a \in Ids : h.obj[a].where = where /\ mergable(h, a, o)})
  IN Lies([g EXCEPT !.obj[o].where = where])

\* The last of o, with the entry at k, is gone: obfree without a stack to merge with.
LastOne(s, o, k) ==
  LET c == IF s.hero.ushops \/ k # 0 \/ s.obj[o].unpaid THEN Checked(s, o) ELSE s
  IN IF k = 0 THEN [c EXCEPT !.obj[o] = Nothing]
     ELSE [c EXCEPT !.shop.bill[k].useup = TRUE,
                    !.obj[o].unpaid = FALSE, !.obj[o].where = "billed"]

useup(g, o) ==
  LET Seen(s) == LastOne(s, o, OnBill(s, o))
  IN IF g.obj[o].quan > 1 THEN [g EXCEPT !.obj[o].quan = @ - 1]
     ELSE Seen(IF g.hero.ushops \/ g.obj[o].unpaid THEN Keeper(g) ELSE g)

\* A copy of o is bought, as d.
Bought(s, o, d, price) ==
  LET Own(h) == [h EXCEPT !.obj[d] = IF h.obj[d].where = "free" THEN Nothing ELSE @,
                          !.obj[o].no_charge = TRUE, !.obj[o].unpaid = FALSE]
  IN Own(addtobill([s EXCEPT !.obj[d] = [s.obj[o] EXCEPT !.where = "free"]], d, TRUE, price))

\* bill_dummy_object: the player changed the object, and bought what it was.
bill_dummy_object(g, o, price) ==
  LET Seen(s) == Bought(s, o, Fresh(s), price)
  IN Seen(IF g.obj[o].unpaid THEN subfrombill(Keeper(g), o) ELSE g)

------------------------------------------------------------------------------
(* Money.                                                                   *)

\* Mutant of check_credit: the credit is not looked at first.
check_credit_Overdrawn(g, n) == [due |-> 0, g |-> [g EXCEPT !.shop.credit = @ - n]]

check_credit(g, n) ==
  IF g.shop.credit >= n THEN [due |-> 0, g |-> [g EXCEPT !.shop.credit = @ - n]]
  ELSE [due |-> n - g.shop.credit, g |-> [g EXCEPT !.shop.credit = 0]]

\* money2mon, for what a player with enough money pays.
money2mon(g, n) ==
  IF g.hero.purse < n THEN Impossible(g, "paying without enough money")
  ELSE [g EXCEPT !.hero.purse = @ - n, !.shop.till = @ + n]

money2u(g, n) ==
  IF g.shop.till < n THEN Impossible(g, "paying without enough money")
  ELSE [g EXCEPT !.hero.purse = @ + n, !.shop.till = @ - n]

\* Mutant of pay: what the credit covers leaves it as it was.
pay_KeepsCredit(g, n) ==
  LET Paid(c) == CASE n > 0 /\ c.due > 0 -> money2mon(c.g, c.due)
                   [] n < 0 -> money2u(g, -n)
                   [] OTHER -> g
      left == g.shop.robbed - n
  IN [Paid(check_credit(g, n)) EXCEPT
        !.shop.robbed = IF g.shop.robbed = 0 \/ left < 0 THEN 0 ELSE left]

pay(g, n) ==
  LET Paid(c) == CASE n > 0 /\ c.due > 0 -> money2mon(c.g, c.due)
                   [] n > 0 /\ c.due = 0 -> c.g
                   [] n < 0 -> money2u(g, -n)
                   [] OTHER -> g
      left == g.shop.robbed - n
  IN [Paid(check_credit(g, n)) EXCEPT
        !.shop.robbed = IF g.shop.robbed = 0 \/ left < 0 THEN 0 ELSE left]

\* The shop has lost what is on the bill.
rob_shop(g) ==
  LET due == Due(g.shop.bill) + g.shop.debit - g.shop.credit
  IN IF due <= 0 THEN setpaid(g)
     ELSE hot_pursuit([setpaid(g) EXCEPT !.shop.robbed = @ + due])

\* Mutant of Settled: a debt for usage is forgotten.
Settled_ButDebit(g) == g.shop.bill = <<>>

Settled(g) == g.shop.bill = <<>> /\ g.shop.debit = 0

\* u_left_shop, for a player who is out; and remote_burglary.
u_left_shop(g) ==
  LET Seen(s) == IF ~AtHome(s) \/ Settled(s) THEN s ELSE rob_shop(s)
  IN Seen(Keeper(g))

\* The player is on a square of the shop and was not: u_entered_shop.
u_entered_shop(g) ==
  IF g.shop.at = "dead" THEN [g EXCEPT !.hero.ushops = FALSE]
  ELSE [Keeper(g) EXCEPT !.shop.bill_inactive = (g.shop.at = "away"),
                         !.hero.ushops = (g.shop.at = "home")]

\* check_special_room, as far as a player on a square of the shop goes.
check_special_room(g) ==
  IF g.hero.place = "out" THEN g
  ELSE IF g.hero.ushops THEN Keeper(g) ELSE u_entered_shop(g)

\* The shopkeeper has come home: after_shk_move.
ComesHome(g) ==
  LET h == [g EXCEPT !.shop.at = "home"]
  IN IF ~g.shop.bill_inactive THEN h
     ELSE check_special_room([h EXCEPT !.shop.bill_inactive = FALSE])

make_happy_shk(g) ==
  LET Happy(h) == IF AtHome(h) THEN h ELSE ComesHome(h)
  IN Happy([pacify_shk(g) EXCEPT !.shop.following = FALSE, !.shop.robbed = 0])

make_angry_shk(g) ==
  LET owed == Due(g.shop.bill) + g.shop.debit + g.shop.loan
      left == g.shop.robbed + owed - g.shop.credit
  IN hot_pursuit(
       IF g.shop.bill = <<>> /\ g.shop.debit = 0 /\ g.shop.loan = 0 /\ g.shop.credit = 0
       THEN g
       ELSE [setpaid(g) EXCEPT !.shop.robbed = IF left < 0 THEN 0 ELSE left])

costly_gold(g, n) ==
  LET c == check_credit(g, n)
  IN [c.g EXCEPT !.shop.debit = @ + c.due, !.shop.loan = @ + c.due]

------------------------------------------------------------------------------
(* What the shopkeeper says to an object that comes to lie in the shop.     *)

\* The player's own in the box stay the player's; those the shop buys do not.
dropped_container(g, sale) ==
  SetNoCharge(g, {i \in Contents(g) : ~g.obj[i].unpaid
                                        /\ ~(sale /\ g.obj[i].kind \in Trades)}, TRUE)

NoCharge(g, o) == [g EXCEPT !.obj[o].no_charge = TRUE]

\* What sellobj would pay for a box and what is in it, or for a stack.
InBox(g, o) ==
  IF o # Box THEN 0
  ELSE SumFunction([i \in {i \in Contents(g) : ~g.obj[i].unpaid /\ g.obj[i].kind \in Trades}
                |-> Offer * g.obj[i].quan])
ForItself(g, o) ==
  IF ~g.obj[o].unpaid /\ g.obj[o].kind \in Trades THEN Offer * g.obj[o].quan ELSE 0

\* Not bought: the player's things are marked as the player's.
Unsold(g, o) ==
  LET Mine(h) == IF h.obj[o].unpaid THEN h ELSE NoCharge(h, o)
  IN subfrombill(Mine(IF HasContents(g, o) THEN dropped_container(g, FALSE) ELSE g), o)

\* Bought, for money or for credit.
Sold(g, o, offer) ==
  LET Mine(h) == IF h.obj[o].unpaid \/ h.obj[o].kind \in Trades THEN h ELSE NoCharge(h, o)
  IN pay(subfrombill(Mine(IF HasContents(g, o) THEN dropped_container(g, TRUE) ELSE g), o),
         -(IF offer > g.shop.till THEN g.shop.till ELSE offer))

SoldForCredit(g, o, offer) ==
  [subfrombill(g, o) EXCEPT
     !.shop.credit = @ + (offer * 9) \div 10 + (IF offer <= 1 THEN 1 ELSE 0)]

\* The shopkeeper is willing to buy.
Deal(s, mine, o, offer, yes) ==
  CASE Full(s)         -> NoCharge(mine, o)
    [] ~Full(s) /\ ~yes -> Unsold(s, o)
    [] ~Full(s) /\ yes ->
         IF s.shop.till = 0 THEN SoldForCredit(s, o, offer) ELSE Sold(s, o, offer)

\* The shopkeeper makes an offer; in mine the player's things are marked.
Bargain(s, mine, o, offer, yes) ==
  CASE s.obj[o].unpaid /\ ~HasContents(s, o) -> sub_one_frombill(s, o)
    [] offer = 0 /\ HasContents(s, o) ->
         subfrombill(IF s.obj[o].unpaid \/ s.obj[o].kind \in Trades THEN mine
                     ELSE NoCharge(mine, o), o)
    [] offer = 0 /\ ~HasContents(s, o) /\ ~s.obj[o].unpaid -> NoCharge(s, o)
    [] offer > 0 /\ (s.shop.angry \/ s.shop.robbed > 0) ->
         subfrombill(IF s.shop.angry THEN s ELSE [s EXCEPT !.shop.robbed = 0], o)
    [] offer > 0 /\ ~s.shop.angry /\ s.shop.robbed = 0 -> Deal(s, mine, o, offer, yes)

sellobj(g, o, yes) ==
  LET Seen(s) == Bargain(s, IF HasContents(s, o) THEN dropped_container(s, FALSE) ELSE s,
                         o, InBox(s, o) + ForItself(s, o), yes)
  IN Seen(Keeper(g))

\* sellobj, for gold.
sellgold(g, n) ==
  LET Given(s) ==
        IF n <= s.shop.debit
        THEN [s EXCEPT !.shop.debit = @ - n, !.shop.loan = IF @ >= n THEN @ - n ELSE 0]
        ELSE [s EXCEPT !.shop.debit = 0, !.shop.credit = @ + n - s.shop.debit,
                       !.shop.loan = IF s.shop.debit > 0 THEN 0 ELSE @]
      Seen(s) == CASE s.shop.angry -> s
                   [] ~s.shop.angry /\ s.shop.robbed > 0 -> [s EXCEPT !.shop.robbed = 0]
                   [] OTHER -> Given(s)
  IN Seen(Keeper(g))

\* stolen_value and stolen_container, for what is thrown out of the shop.
\* ininv: there is something unpaid in the box.
Stolen(s, o, one, ininv) ==
  IF HasContents(s, o)
  THEN SumFunction([i \in {i \in Contents(s) :
                             IF ininv THEN s.obj[i].unpaid ELSE ~s.obj[i].no_charge}
                      |-> one * s.obj[i].quan])
         + (IF (ininv /\ s.obj[o].unpaid) \/ ~s.obj[o].no_charge THEN one ELSE 0)
  ELSE IF ~s.obj[o].no_charge /\ s.obj[o].kind \in Trades THEN one ELSE 0

Unmarked(s, o, ininv) ==
  IF ~HasContents(s, o) THEN s
  ELSE SetNoCharge(s, (IF ininv THEN {} ELSE Contents(s))
                        \cup (IF ininv /\ s.obj[o].unpaid THEN {} ELSE {o}), FALSE)

Lost(h, value) ==
  LET Charged(c) == [c.g EXCEPT !.shop.debit = @ + c.due]
  IN CASE value = 0 -> h
       [] value > 0 /\ ~h.shop.angry -> Charged(check_credit(h, value))
       [] value > 0 /\ h.shop.angry -> hot_pursuit([h EXCEPT !.shop.robbed = @ + value])

stolen_value(g, o, price) ==
  LET Looked(s, ininv) ==
        Lost(Unmarked(s, o, ininv),
             Stolen(s, o, IF s.shop.surcharge THEN Surcharged(price) ELSE price, ininv))
      Seen(s) ==
        IF ~AtHome(s) THEN s ELSE Looked(s, \E i \in Contents(s) : s.obj[i].unpaid)
  IN Seen(Keeper(g))

------------------------------------------------------------------------------
(* Paying: dopay.                                                           *)

Wealth(g) == g.hero.purse + g.shop.credit

\* The entry e at at is paid: quan of it, used up if it is the first pass.
PaidOff(h, e, at, used, have, quan) ==
  IF used /\ quan # e.bquan
  THEN [h EXCEPT !.shop.bill[at] = [e EXCEPT !.bquan = have, !.useup = FALSE],
                 !.obj[e.id].unpaid = TRUE]
  ELSE [h EXCEPT !.shop.bill = Without(@, at),
                 !.obj[e.id] = IF used THEN Nothing ELSE [h.obj[e.id] EXCEPT !.unpaid = FALSE]]

\* One entry of the bill, in the first pass for what is used up and in the
\* second for the rest: dopayobj.  at is the place in the bill.
PayEntry(a, yes, itemize) ==
  LET used == a.pass = 0
      Asked(e, skip, have, quan) ==
        CASE itemize /\ Wealth(a.g) = 0 -> [a EXCEPT !.over = TRUE]
          [] itemize /\ Wealth(a.g) > 0
             /\ (<<e.id, a.pass>> \notin yes \/ (~used /\ quan < e.bquan)
                 \/ Wealth(a.g) < e.price * quan) -> skip
          [] ~itemize /\ Wealth(a.g) < e.price * quan -> [skip EXCEPT !.over = TRUE]
          [] OTHER ->
               [a EXCEPT !.g = PaidOff(pay(a.g, e.price * quan), e, a.at, used, have, quan)]
      Looked(e, have) ==
        IF (a.pass = 1) = e.useup /\ have = e.bquan THEN [a EXCEPT !.at = @ + 1]
        ELSE Asked(e, [a EXCEPT !.g.obj[e.id].unpaid = TRUE, !.at = @ + 1], have,
                   IF used /\ e.bquan > have THEN e.bquan - have ELSE have)
      Entry(e) == Looked(e, IF e.useup THEN e.bquan ELSE a.g.obj[e.id].quan)
  IN Entry(a.g.shop.bill[a.at])

PayStep(a, yes, itemize) ==
  CASE a.over \/ a.pass = 2 -> a
    [] ~a.over /\ a.pass < 2 /\ a.at > Len(a.g.shop.bill) ->
         [a EXCEPT !.pass = @ + 1, !.at = 1]
    [] ~a.over /\ a.pass < 2 /\ a.at <= Len(a.g.shop.bill) -> PayEntry(a, yes, itemize)

\* An entry is looked at no more than twice in a pass.
PayBill(g, yes, itemize) ==
  LET start == [g |-> g, pass |-> 0, at |-> 1, over |-> FALSE]
  IN FoldSet(LAMBDA step, a : PayStep(a, yes, itemize), start, 1..(4 * BILLSZ + 2)).g

Cheapest(bill) == Min({bill[k].price * bill[k].bquan : k \in DOMAIN bill})

PayDebit(g) ==
  LET Paid(c) == money2mon([c.g EXCEPT !.shop.debit = 0, !.shop.loan = 0], c.due)
  IN Paid(check_credit(g, g.shop.debit))

\* The player owes something for goods or for their use.
PayDebts(g, yes, itemize) ==
  LET Bill(d) ==
        IF d.shop.bill = <<>> \/ Wealth(d) = 0 \/ Wealth(d) < Cheapest(d.shop.bill) THEN d
        ELSE PayBill(d, yes, itemize)
  IN IF Wealth(g) < g.shop.debit THEN g
     ELSE Bill(IF g.shop.debit > 0 THEN PayDebit(g) ELSE g)

\* The player makes good for a robbery.
PaidRobbed(g) == pay(g, IF g.hero.purse < g.shop.robbed THEN g.hero.purse ELSE g.shop.robbed)
Poor(g)       == g.hero.purse < g.shop.robbed \div 2

dopay(g, yes, itemize, luck) ==
  LET Happy(h, is) == IF is THEN make_happy_shk(h) ELSE h
      Robbed(s, resident) ==
        IF s.shop.robbed = 0 \/ (IF resident THEN Poor(s) ELSE s.hero.purse = 0) THEN s
        ELSE Happy(PaidRobbed(s), ~Poor(s))
      Appeased(s) ==
        IF ~s.shop.angry \/ s.hero.purse < Ransom THEN s ELSE Happy(pay(s, Ransom), luck)
      Seen(s, resident) ==
        CASE s.shop.bill_inactive -> Impossible(s, "paying with inactive bill")
          [] ~s.shop.bill_inactive /\ ~resident /\ ~s.shop.angry -> Robbed(s, FALSE)
          [] ~s.shop.bill_inactive /\ (resident \/ s.shop.angry) /\ Settled(s) ->
               IF s.shop.robbed > 0 THEN Robbed(s, TRUE) ELSE Appeased(s)
          [] ~s.shop.bill_inactive /\ ~resident /\ s.shop.angry /\ ~Settled(s) ->
               Impossible(s, "not to shopkeeper")
          [] ~s.shop.bill_inactive /\ resident /\ ~Settled(s) -> PayDebts(s, yes, itemize)
      Asked(s) == Seen(s, AtHome(s) /\ s.hero.ushops)
  IN Asked(Keeper(g))

------------------------------------------------------------------------------
(* What the player does.                                                    *)

Becomes(g) ==
  /\ wrong = {}
  /\ Due(g.shop.bill) + g.shop.debit + g.shop.robbed + g.shop.credit <= MaxDue
  /\ shop' = g.shop
  /\ obj' = g.obj
  /\ hero' = g.hero
  /\ wrong' = g.wrong

Carried(o) == obj[o].where = "invent"
Reached(o) == Carried(o) \/ (obj[o].where = "floor" /\ hero.place = "in")

\* Bound: there are numbers left for what may be made of the stack o: a part
\* of it, what is used up of it, and a copy.
Numbers(o) ==
  Cardinality(Unused(Now))
    >= (IF obj[o].quan > 1 THEN 2 ELSE 1)
       + Cardinality(Partial(Now))

\* costly_spot, for the square of the player.
OnCostly == hero.place = "in" /\ AtHome(Now)

Enter ==
  /\ hero.place = "out"
  /\ Becomes(check_special_room([Now EXCEPT !.hero.place = "door"]))

Step ==
  /\ hero.place # "out"
  /\ Becomes(check_special_room(
       [Now EXCEPT !.hero.place = IF @ = "in" THEN "door" ELSE "in"]))

\* By the door, or from inside by magic.
Leave ==
  /\ hero.place # "out"
  /\ LET g == IF hero.ushops THEN u_left_shop(Now) ELSE Now
     IN Becomes([g EXCEPT !.hero.place = "out", !.hero.ushops = FALSE])

\* The object b goes on the bill; a player who is out has robbed the shop of it,
\* and as it is in no list then, it remains unpaid when the bill is emptied.
Fetched(s, b, price) ==
  LET Left(g) == IF s.hero.ushops THEN g ELSE u_left_shop(g)
  IN Left([addtobill([s EXCEPT !.hero.ushops = TRUE], b, FALSE, price)
             EXCEPT !.hero.ushops = s.hero.ushops])

\* pick_obj.  What lies in the shop can be fetched from outside, with a hook.
PickUp(o, n, price) ==
  LET Taken(s, b) == IF obj[o].where = "floor" /\ AtHome(s) THEN Fetched(s, b, price) ELSE s
      Had(g, b) == Put([g EXCEPT !.obj[b].no_charge = FALSE], b, "invent")
  IN /\ \/ obj[o].where = "floor" /\ hero.place # "door" /\ (Hooks \/ hero.ushops \/ ~AtHome(Now))
        \/ obj[o].where = "outside" /\ hero.place # "in"
     /\ Numbers(o)
     /\ \E b \in {Part(Now, o, n)} :
          \E h \in Had(Taken([Apart(Now, o, n) EXCEPT !.obj[b].where = "free"], b), b) : Becomes(h)

\* dropx and dropy.
Drop(o, n, yes) ==
  LET where == IF hero.place = "in" THEN "floor" ELSE "outside"
      b     == Part(Now, o, n)
      Offered(s) == IF OnCostly /\ hero.ushops THEN sellobj(s, b, yes) ELSE s
  IN /\ Carried(o) /\ Numbers(o)
     /\ \E h \in Put(Offered([Apart(Now, o, n) EXCEPT !.obj[b].where = where]), b, where) :
          Becomes(h)

\* check_shop_obj, for one that is thrown out of the shop.
ThrowOut(o, price) ==
  LET b == Part(Now, o, 1)
      Out(s) == IF hero.ushops /\ s.obj[b].unpaid
                THEN subfrombill(stolen_value(s, b, price), b) ELSE s
  IN /\ Carried(o) /\ hero.place # "out" /\ Numbers(o)
     /\ \E h \in Put(Out([Apart(Now, o, 1) EXCEPT !.obj[b].where = "free"]), b, "outside") :
          Becomes(h)

\* in_container.
PutIn(o, n, yes) ==
  LET b == Part(Now, o, n)
      In(s) == CASE ~OnCostly \/ Carried(Box) -> s
                 [] OnCostly /\ ~Carried(Box) /\ obj[Box].no_charge /\ ~s.obj[b].unpaid ->
                      NoCharge(s, b)
                 [] OTHER -> IF hero.ushops THEN sellobj(s, b, yes) ELSE s
  IN /\ Carried(o) /\ o # Box /\ Reached(Box) /\ Numbers(o)
     /\ \E h \in Put(In([Apart(Now, o, n) EXCEPT !.obj[b].where = "free"]), b, "box") : Becomes(h)

\* out_container.
TakeOut(o, n, price) ==
  LET b == Part(Now, o, n)
      Out(s) == IF ~s.obj[b].unpaid /\ ~Carried(Box) /\ OnCostly
                THEN addtobill(s, b, FALSE, price) ELSE s
  IN /\ obj[o].where = "box" /\ Reached(Box) /\ Numbers(o)
     /\ \E h \in Put(Out([Apart(Now, o, n) EXCEPT !.obj[b].where = "free"]), b, "invent") :
          Becomes(h)

UseUp(o) == Carried(o) /\ o # Box /\ Becomes(useup(Now, o))

\* Part of the goods is bitten, dipped, cancelled, ...: it is bought as it was.
Alter(o, n, price) ==
  LET b == Part(Now, o, n)
  IN /\ o # Box /\ Numbers(o)
     /\ \/ Carried(o) /\ obj[o].unpaid
        \/ obj[o].where = "floor" /\ OnCostly /\ ~obj[o].no_charge
     /\ Becomes(bill_dummy_object(Apart(Now, o, n), b, price))

\* check_unpaid_usage.
Charge(o) ==
  /\ Carried(o) /\ obj[o].unpaid /\ hero.ushops /\ AtHome(Now)
  /\ Becomes([Keeper(Now) EXCEPT !.shop.debit = @ + Fee])

\* pick_obj, for gold: a full bill lets it pass.
PickGold ==
  LET g == [Now EXCEPT !.hero.purse = @ + 1, !.shop.gold = @ - 1]
  IN /\ shop.gold > 0 /\ hero.place = "in"
     /\ Becomes(CASE ~OnCostly \/ ~hero.ushops -> g
                  [] OnCostly /\ hero.ushops /\ Full(g) -> Keeper(g)
                  [] OTHER -> costly_gold(Keeper(g), 1))

DropGold ==
  LET g == [Now EXCEPT !.hero.purse = @ - 1, !.shop.gold = @ + 1]
  IN /\ hero.purse > 0 /\ hero.place = "in"
     /\ Becomes(IF OnCostly /\ hero.ushops THEN sellgold(g, 1) ELSE g)

\* ghitm: gold is thrown to the shopkeeper, who may be offended.
ThrowGold(mad) ==
  LET g    == [Now EXCEPT !.hero.purse = @ - 1, !.shop.till = @ + 1,
                          !.shop.angry = @ \/ mad]
      left == shop.robbed - 1
  IN /\ hero.purse > 0 /\ shop.at # "dead"
     /\ Becomes(CASE shop.robbed = 1 -> make_happy_shk([g EXCEPT !.shop.robbed = 0])
                  [] shop.robbed > 1 -> [g EXCEPT !.shop.robbed = left]
                  [] shop.robbed = 0 /\ ~g.shop.angry -> [g EXCEPT !.shop.credit = @ + 1]
                  [] OTHER -> g)

Pay(yes, itemize, luck) ==
  shop.at # "dead" /\ Becomes(dopay(Now, yes, itemize, luck))

------------------------------------------------------------------------------
(* What happens to the shopkeeper.                                          *)

\* setmangry; a player outside of the shop is followed.
Attack ==
  /\ shop.at # "dead"
  /\ LET g == [Now EXCEPT !.shop.angry = TRUE]
     IN Becomes(IF hero.ushops THEN g ELSE hot_pursuit(g))

\* rloc_to.
Teleport ==
  /\ AtHome(Now)
  /\ Becomes(make_angry_shk([Now EXCEPT !.shop.at = "away"]))

WalkOut ==
  /\ AtHome(Now) /\ shop.following
  /\ hero.place = "out" \/ Wanders
  /\ Becomes([Now EXCEPT !.shop.at = "away"])

Return == shop.at = "away" /\ Becomes(ComesHome(Now))

\* maybe_tame.
Tame == shop.at # "dead" /\ Becomes(make_happy_shk(Now))

\* shkgone.
Die ==
  LET g    == SetNoCharge([Now EXCEPT !.shop.at = "dead"],
                          {i \in Ids : obj[i].where = "floor"}, FALSE)
      gone == [setpaid(g) EXCEPT !.shop.bill_inactive = TRUE, !.hero.ushops = FALSE]
  IN /\ shop.at # "dead"
     /\ Becomes(IF hero.ushops THEN gone ELSE g)

\* What the player may agree to pay: for each entry what is used up, in the
\* first pass, and what is there, in the second.
Answers ==
  LET asked(e) == (IF e.useup \/ obj[e.id].quan < e.bquan THEN {<<e.id, 0>>} ELSE {})
                    \cup (IF e.useup THEN {} ELSE {<<e.id, 1>>})
  IN SUBSET UNION {asked(shop.bill[k]) : k \in DOMAIN shop.bill}

ShopNext ==
  \/ Enter \/ Step \/ Leave
  \/ \E o \in Ids, price \in Prices :
       \/ ThrowOut(o, price)
       \/ \E n \in 1..obj[o].quan :
            PickUp(o, n, price) \/ TakeOut(o, n, price) \/ Alter(o, n, price)
  \/ \E o \in Ids, yes \in BOOLEAN : \E n \in 1..obj[o].quan : Drop(o, n, yes) \/ PutIn(o, n, yes)
  \/ \E o \in Ids : UseUp(o) \/ Charge(o)
  \/ PickGold \/ DropGold \/ \E mad \in BOOLEAN : ThrowGold(mad)
  \/ \E yes \in Answers : Pay(yes, TRUE, TRUE)
  \/ \E luck \in BOOLEAN : Pay({}, FALSE, luck)
  \/ Attack \/ Teleport \/ WalkOut \/ Return \/ Tame \/ Die

ShopSpec == ShopInit /\ [][ShopNext]_shopVars

------------------------------------------------------------------------------
(* What a shop promises.                                                    *)

Sums == {Surcharged(p) : p \in Prices}

\* The types of the variables: no debt or credit goes below zero, and loan is the
\* part of debit that is gold.  The program finds nothing wrong with its bill; but
\* a shopkeeper who is away while the player goes into the shop has an inactive
\* one, and can be paid, angered or tamed all the same.
ShopTypeOK ==
  /\ shop.bill \in Seq([id : Ids, bquan : Nat \ {0}, useup : BOOLEAN,
                        price : Prices \cup Sums])
  /\ Len(shop.bill) <= BILLSZ
  /\ {shop.credit, shop.debit, shop.loan, shop.robbed, shop.till, shop.gold} \subseteq Nat
  /\ {shop.angry, shop.surcharge, shop.following, shop.bill_inactive} \subseteq BOOLEAN
  /\ shop.at \in {"home", "away", "dead"}
  /\ obj \in [Ids -> [kind : {"goods", "box"}, quan : Nat, unpaid : BOOLEAN,
                      no_charge : BOOLEAN,
                      where : {"none", "floor", "outside", "invent", "box", "billed"}]]
  /\ hero \in [place : {"out", "door", "in"}, ushops : BOOLEAN, purse : Nat]
  /\ shop.loan <= shop.debit
  /\ wrong \subseteq {"paying with inactive bill", "riling with inactive bill",
                    "pacifying with inactive bill"}

\* The invariants that shk.c opens with: an object is unpaid just if the bill
\* has it, unless that entry is for one that is used up; and no more of it is
\* there than the bill says.  Every split, merge and return of a stack has to
\* change both sides.  And however often the shopkeeper is angered and appeased
\* between picking up and paying, a price is what it was, or that and the
\* surcharge.
BillMatches ==
  /\ \A j, k \in DOMAIN shop.bill : shop.bill[j].id = shop.bill[k].id => j = k
  /\ \A k \in DOMAIN shop.bill :
       LET e == shop.bill[k]
           o == obj[e.id]
       IN /\ 0 < o.quan /\ o.quan <= e.bquan
          /\ e.price \in (IF shop.surcharge THEN Sums ELSE Prices)
          /\ IF e.useup THEN o.where = "billed"
             ELSE o.unpaid /\ o.where \notin {"none", "billed"}
  /\ \A i \in Ids :
       obj[i].unpaid \/ obj[i].where = "billed" => \E k \in DOMAIN shop.bill : shop.bill[k].id = i

\* What lies in the shop, in a box or by itself, is not on the bill: the player
\* can give everything back.  Only if the bill had no room for an entry
\* when a box of the player's was put down may it and things in it remain there.
UnpaidIsCarried ==
  \A i \in Ids :
    obj[i].unpaid /\ (obj[i].where = "floor" \/ (obj[i].where = "box" /\ obj[Box].where = "floor"))
      => obj[Box].no_charge /\ (obj[i].where = "floor" => i = Box)

\* A player who is out of a shop whose owner is there owes nothing for goods:
\* it is paid, or was stolen and is counted as such.
NobodyLeavesWithBill ==
  hero.place = "out" /\ AtHome(Now) =>
    /\ shop.bill = <<>> /\ shop.debit = 0
    /\ \A i \in Ids : ~obj[i].unpaid

\* Goods on the bill that are not there any more.
Used ==
  FoldLeft(LAMBDA sum, e : sum + e.bquan - (IF e.useup THEN 0 ELSE obj[e.id].quan),
           0, shop.bill)

\* What is the shop's, and what was and has to be paid for.
Stock ==
  LET inShop(i) == obj[i].where = "floor" \/ (obj[i].where = "box" /\ obj[Box].where = "floor")
      owned     == {i \in Ids : \/ obj[i].unpaid /\ obj[i].where # "billed"
                                \/ ~obj[i].no_charge /\ inShop(i)}
  IN Used + SumFunction([i \in owned |-> obj[i].quan])

\* What the player has, and what of it is the shop's.
Account == hero.purse + shop.credit - shop.debit - Due(shop.bill)

Cleared == shop'.bill = <<>>
Paying ==
  /\ Len(shop'.bill) <= Len(shop.bill) /\ hero'.place = hero.place /\ shop'.gold = shop.gold
  /\ \/ \E yes \in Answers : Pay(yes, TRUE, TRUE)
     \/ \E luck \in BOOLEAN : Pay({}, FALSE, luck)


\* Paying an owner who is not angry changes what the player owns and owes by the
\* same amount, whichever entries, parts of entries and debts are paid.
PayingIsFair ==
  [][~shop.angry /\ shop.robbed = 0 /\ Account' # Account => ~Paying]_<<shop, obj, hero, wrong>>

===============================================================================
