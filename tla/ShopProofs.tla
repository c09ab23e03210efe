------------------------------ MODULE ShopProofs ------------------------------
(* Shops with any goods, prices and sums of money.  First, what a price goes  *)
(* through while a shopkeeper is angered and appeased; then, function by      *)
(* function, that the bill and the objects agree after it: the shopkeeper's   *)
(* moods, goods that are put on the bill, taken off, split and merged.        *)
EXTENDS Shop, FiniteSetTheorems, SequenceTheorems, WellFoundedInduction, TLAPS

\* pacify_shk takes off exactly what rile_shk put on, although both round: the
\* surcharge is a third, rounded up, of the price, and a quarter, rounded up,
\* of the sum.
THEOREM SurchargeComesOff == \A p \in Nat : Reduced(Surcharged(p)) = p
<1> SUFFICES ASSUME NEW p \in Nat
             PROVE  Reduced(Surcharged(p)) = p
  OBVIOUS
<1> DEFINE third == (p + 2) \div 3
<1>1. /\ third \in Nat /\ 3 * third <= p + 2 /\ p + 2 < 3 * third + 3
  BY SMT
<1>2. (p + third + 3) \div 4 = third
  BY <1>1, SMT
<1> QED
  BY <1>1, <1>2, SMT DEF Surcharged, Reduced

\* Whether two stacks cost the same, and may merge (same_price), does not depend
\* on the shopkeeper's mood: no two prices become one by the surcharge.
THEOREM SurchargeKeepsApart ==
  \A p, q \in Nat : Surcharged(p) = Surcharged(q) => p = q
<1> TAKE p, q \in Nat
<1> HAVE Surcharged(p) = Surcharged(q)
<1>1. Reduced(Surcharged(p)) = p /\ Reduced(Surcharged(q)) = q
  BY SurchargeComesOff
<1> QED
  BY <1>1

------------------------------------------------------------------------------
(* Folds over finite sets.                                                  *)

\* Numbers have a least one.
LEMMA LeastOf ==
  ASSUME NEW T, T \subseteq Nat, T # {}
  PROVE  \E x \in T : \A y \in T : x <= y
<1> DEFINE R == OpToRel(<, Nat)
<1>1. IsWellFoundedOn(R, Nat)
  BY NatLessThanWellFounded
<1>2. \A x, y \in Nat : <<y, x>> \in R <=> y < x
  BY DEF OpToRel
<1> HIDE DEF R
<1>3. PICK x \in T : \A y \in T : ~(<<y, x>> \in R)
  BY <1>1, WFMin
<1>4. \A y \in T : x \in Nat /\ y \in Nat /\ ~(y < x)
  BY <1>2, <1>3
<1>5. \A y \in T : x <= y
  BY <1>4
<1> QED
  BY <1>3, <1>5

\* The element that FoldSet takes next.
Pick(s) == CHOOSE x \in s : TRUE

\* What holds for no element, and for one more whenever it holds without it,
\* holds for all: Reached are the sets that it holds for.
LEMMA SetsGrow ==
  ASSUME NEW S, IsFiniteSet(S), NEW Holds, {} \in Holds,
         \A s \in SUBSET S : s # {} /\ s \ {Pick(s)} \in Holds => s \in Holds
  PROVE  S \in Holds
<1> SUFFICES ASSUME S \notin Holds PROVE FALSE
  OBVIOUS
<1> DEFINE Fails == {s \in SUBSET S : s \notin Holds}
           Sizes == {Cardinality(s) : s \in Fails}
<1>1. \A s \in SUBSET S : IsFiniteSet(s) /\ Cardinality(s) \in Nat
  BY FS_Subset, FS_CardinalityType
<1>2. Sizes \subseteq Nat /\ Sizes # {}
  BY <1>1
<1>3. PICK n \in Sizes : \A m \in Sizes : n <= m
  <2> HIDE DEF Sizes
  <2> QED
    BY <1>2, LeastOf
<1>4. PICK s \in Fails : Cardinality(s) = n
  BY <1>3
<1>5. s # {} /\ Pick(s) \in s /\ s \in SUBSET S
  BY <1>4 DEF Pick
<1>6. s \ {Pick(s)} \notin Holds
  BY <1>4, <1>5
<1>7. s \ {Pick(s)} \in Fails
  BY <1>5, <1>6
<1>8. n <= Cardinality(s \ {Pick(s)})
  BY <1>3, <1>7
<1>9. Cardinality(s \ {Pick(s)}) = Cardinality(s) - 1
  BY <1>1, <1>5, FS_RemoveElement
<1> QED
  BY <1>1, <1>4, <1>5, <1>8, <1>9

\* What FoldSet computes for the subsets of S, with a step that stays in D.
IsFold(f, S, D, base, step) ==
  /\ f \in [SUBSET S -> D]
  /\ \A s \in SUBSET S :
       f[s] = IF s = {} THEN base ELSE step[<<Pick(s), f[s \ {Pick(s)}]>>]

LEMMA FoldDefined ==
  ASSUME NEW S, IsFiniteSet(S), NEW D, NEW base \in D, NEW step \in [S \X D -> D]
  PROVE  \E f : IsFold(f, S, D, base, step)
<1> DEFINE Small(f, n) ==
             \A s \in SUBSET S : Cardinality(s) <= n =>
               f[s] = IF s = {} THEN base ELSE step[<<Pick(s), f[s \ {Pick(s)}]>>]
           Fails == {n \in Nat : ~ \E f \in [SUBSET S -> D] : Small(f, n)}
<1>1. \A s \in SUBSET S : /\ IsFiniteSet(s) /\ Cardinality(s) \in Nat
                          /\ Cardinality(s) <= Cardinality(S)
                          /\ Cardinality(s) = 0 <=> s = {}
  BY FS_Subset, FS_CardinalityType, FS_EmptySet
<1>2. \A s \in SUBSET S : s # {} =>
        /\ Pick(s) \in S /\ s \ {Pick(s)} \in SUBSET S
        /\ Cardinality(s \ {Pick(s)}) = Cardinality(s) - 1
  <2> TAKE s \in SUBSET S
  <2> HAVE s # {}
  <2>1. Pick(s) \in s
    BY DEF Pick
  <2> QED
    BY <1>1, <2>1, FS_RemoveElement
<1>3. Cardinality(S) \notin Fails
  <2> SUFFICES ASSUME Cardinality(S) \in Fails PROVE FALSE
    OBVIOUS
  <2>1. PICK n \in Fails : \A m \in Fails : n <= m
    <3>1. Fails \subseteq Nat /\ Fails # {}
      OBVIOUS
    <3> HIDE DEF Fails
    <3> QED
      BY <3>1, LeastOf
  <2>2. n # 0
    <3> SUFFICES ASSUME n = 0 PROVE FALSE
      OBVIOUS
    <3> DEFINE f0 == [s \in SUBSET S |-> base]
    <3>1. f0 \in [SUBSET S -> D]
      OBVIOUS
    <3>2. Small(f0, n)
      BY <1>1
    <3> HIDE DEF f0, Small
    <3> QED
      BY <3>1, <3>2, <2>1
  <2>3. n - 1 \in Nat /\ n - 1 \notin Fails
    <3>1. n \in Nat /\ n - 1 \in Nat /\ ~(n <= n - 1)
      BY <2>1, <2>2
    <3> QED
      BY <2>1, <3>1
  <2>4. PICK f \in [SUBSET S -> D] : Small(f, n - 1)
    BY <2>3
  <2> DEFINE h == [s \in SUBSET S |-> IF Cardinality(s) <= n - 1 THEN f[s]
                                      ELSE IF s = {} THEN base
                                      ELSE step[<<Pick(s), f[s \ {Pick(s)}]>>]]
  <2>5. h \in [SUBSET S -> D]
    <3> SUFFICES ASSUME NEW s \in SUBSET S, s # {}
                 PROVE  step[<<Pick(s), f[s \ {Pick(s)}]>>] \in D
      OBVIOUS
    <3>1. Pick(s) \in S /\ f[s \ {Pick(s)}] \in D
      BY <1>2
    <3> QED
      BY <3>1
  <2>6. \A s \in SUBSET S : Cardinality(s) <= n /\ s # {} =>
          h[s \ {Pick(s)}] = f[s \ {Pick(s)}]
    <3> TAKE s \in SUBSET S
    <3> HAVE Cardinality(s) <= n /\ s # {}
    <3>1. s \ {Pick(s)} \in SUBSET S /\ Cardinality(s \ {Pick(s)}) <= n - 1
      <4>1. Cardinality(s) \in Nat /\ n \in Nat
        BY <1>1, <2>1
      <4>2. s \ {Pick(s)} \in SUBSET S /\ Cardinality(s \ {Pick(s)}) = Cardinality(s) - 1
        BY <1>2
      <4> QED
        BY <4>1, <4>2
    <3> QED
      BY <3>1
  <2>7. Small(h, n)
    <3> SUFFICES ASSUME NEW s \in SUBSET S, Cardinality(s) <= n
                 PROVE  h[s] = IF s = {} THEN base ELSE step[<<Pick(s), h[s \ {Pick(s)}]>>]
      OBVIOUS
    <3>1. CASE Cardinality(s) <= n - 1
      <4>1. h[s] = f[s]
        BY <3>1
      <4>2. f[s] = IF s = {} THEN base ELSE step[<<Pick(s), f[s \ {Pick(s)}]>>]
        BY <2>4, <3>1
      <4> QED
        BY <4>1, <4>2, <2>6
    <3>2. CASE ~(Cardinality(s) <= n - 1)
      <4>1. h[s] = IF s = {} THEN base ELSE step[<<Pick(s), f[s \ {Pick(s)}]>>]
        BY <3>2
      <4> QED
        BY <4>1, <2>6
    <3> QED
      BY <3>1, <3>2
  <2> HIDE DEF h, Small
  <2> QED
    BY <2>1, <2>5, <2>7
<1>4. PICK f \in [SUBSET S -> D] : Small(f, Cardinality(S))
  BY <1>1, <1>3
<1>5. \A s \in SUBSET S :
        f[s] = IF s = {} THEN base ELSE step[<<Pick(s), f[s \ {Pick(s)}]>>]
  BY <1>1, <1>4
<1>6. IsFold(f, S, D, base, step)
  BY <1>5 DEF IsFold
<1> QED
  BY <1>6

------------------------------------------------------------------------------
(* What holds of a world, in the middle of a command, too.                  *)

\* The constants the theorems are about: any goods, prices and sums of money,
\* for a shopkeeper who does not walk out on a player in the shop, and a player
\* who does not fetch goods from outside of it.
ShopConstants ==
  /\ IsFiniteSet(Goods) /\ IsFiniteSet(Spares) /\ Box \notin Goods
  /\ Prices \subseteq Nat /\ Quantity \in Nat \ {0} /\ BILLSZ \in Nat
  /\ Offer \in Nat /\ Fee \in Nat /\ Ransom \in Nat
  /\ Purse \in Nat /\ Till \in Nat /\ Gold \in Nat
  /\ ~Wanders /\ ~Hooks

Entries == [id : Ids, bquan : Nat \ {0}, useup : BOOLEAN, price : Prices \cup Sums]

\* A surcharge does not outlast the anger.
Shops ==
  {s \in [bill : Seq(Entries), credit : Nat, debit : Nat, loan : Nat, robbed : Nat,
          angry : BOOLEAN, surcharge : BOOLEAN, following : BOOLEAN,
          bill_inactive : BOOLEAN, at : {"home", "away", "dead"}, till : Nat, gold : Nat] :
     s.surcharge => s.angry}

\* While a command is about an object, it may be in nobody's hands.
Objects == [kind : {"goods", "box"}, quan : Nat, unpaid : BOOLEAN, no_charge : BOOLEAN,
            where : {"none", "free", "floor", "outside", "invent", "box", "billed"}]

Heroes == [place : {"out", "door", "in"}, ushops : BOOLEAN, purse : Nat]

Worlds == [shop : Shops, obj : [Ids -> Objects], hero : Heroes,
           wrong : SUBSET {"paying with inactive bill", "riling with inactive bill",
                           "pacifying with inactive bill"}]

\* The object is somewhere where the player can find it.
Here(o) == o.where \notin {"none", "billed"}

\* The entry e is for the object o.
IsFor(e, o) ==
  /\ 0 < o.quan /\ o.quan <= e.bquan
  /\ IF e.useup THEN o.where = "billed" ELSE o.unpaid /\ Here(o)

\* The bill b and the objects agree.
Agree(b, objs) ==
  /\ \A j, k \in 1..Len(b) : b[j].id = b[k].id => j = k
  /\ \A k \in 1..Len(b) : IsFor(b[k], objs[b[k].id])
  /\ \A i \in Ids : objs[i].unpaid \/ objs[i].where = "billed" =>
       \E k \in 1..Len(b) : b[k].id = i

Priced(b, surcharge) ==
  \A k \in 1..Len(b) : b[k].price \in (IF surcharge THEN Sums ELSE Prices)

Good(g) ==
  /\ g \in Worlds
  /\ Len(g.shop.bill) <= BILLSZ /\ g.shop.loan <= g.shop.debit
  /\ Priced(g.shop.bill, g.shop.surcharge)
  /\ Agree(g.shop.bill, g.obj)
  /\ \A i \in Ids : Here(g.obj[i]) => g.obj[i].quan > 0

\* Only where the shopkeeper and the player both are in the shop is anything on
\* the bill, or charged for use; and it is inactive for one who is not there.
Resident(g) == g.hero.ushops /\ g.shop.at = "home"

Owing(g) ==
  /\ ~Resident(g) => g.shop.bill = <<>> /\ g.shop.debit = 0
  /\ g.shop.bill_inactive => ~g.hero.ushops /\ g.shop.at # "home"

Fine(g) == Good(g) /\ Owing(g)

\* There are numbers for n objects, apart from those for what is used up.
Room(g, n) == Cardinality(Unused(g)) >= n + Cardinality(Partial(g))

------------------------------------------------------------------------------
(* Bills.                                                                   *)

\* What is in a bill.
LEMMA BillIs ==
  ASSUME NEW b \in Seq(Entries)
  PROVE  /\ Len(b) \in Nat /\ DOMAIN b = 1..Len(b) /\ IsFiniteSet(DOMAIN b)
         /\ \A k \in 1..Len(b) : /\ b[k] \in Entries /\ b[k].id \in Ids
                                 /\ b[k].bquan \in Nat \ {0} /\ b[k].useup \in BOOLEAN
                                 /\ b[k].price \in Prices \cup Sums
<1>1. Len(b) \in Nat /\ DOMAIN b = 1..Len(b)
  OBVIOUS
<1>2. IsFiniteSet(1..Len(b))
  <2>1. 1 \in Int /\ Len(b) \in Int
    BY <1>1
  <2> QED
    BY <2>1, FS_Interval
<1>3. \A k \in 1..Len(b) : b[k] \in Entries
  BY ElementOfSeq
<1> QED
  BY <1>1, <1>2, <1>3 DEF Entries

\* The bill c has the entries of b, at other prices.
SameBill(b, c) ==
  /\ Len(c) = Len(b)
  /\ \A k \in 1..Len(b) : /\ c[k].id = b[k].id /\ c[k].bquan = b[k].bquan
                          /\ c[k].useup = b[k].useup

\* Objects that are as many as they were, as unpaid and in the same place.
LEMMA AgreeSame ==
  ASSUME NEW b \in Seq(Entries), NEW c \in Seq(Entries), SameBill(b, c),
         NEW objs, NEW others,
         \A i \in Ids : /\ others[i].quan = objs[i].quan /\ others[i].where = objs[i].where
                        /\ others[i].unpaid = objs[i].unpaid,
         Agree(b, objs)
  PROVE  Agree(c, others)
<1>1. Len(c) = Len(b)
  BY DEF SameBill
<1>2. \A k \in 1..Len(b) : /\ c[k].id = b[k].id /\ c[k].bquan = b[k].bquan
                           /\ c[k].useup = b[k].useup /\ b[k].id \in Ids
  BY BillIs DEF SameBill
<1>3. \A j, k \in 1..Len(c) : c[j].id = c[k].id => j = k
  BY <1>1, <1>2 DEF Agree
<1>4. \A k \in 1..Len(c) : IsFor(c[k], others[c[k].id])
  <2> TAKE k \in 1..Len(c)
  <2>1. IsFor(b[k], objs[b[k].id])
    BY <1>1 DEF Agree
  <2> QED
    BY <1>1, <1>2, <2>1 DEF IsFor, Here
<1>5. \A i \in Ids : others[i].unpaid \/ others[i].where = "billed" =>
        \E k \in 1..Len(c) : c[k].id = i
  BY <1>1, <1>2 DEF Agree
<1> QED
  BY <1>3, <1>4, <1>5 DEF Agree

\* The place of an entry.
LEMMA OnBillIs ==
  ASSUME NEW g, g.shop.bill \in Seq(Entries), NEW o
  PROVE  \/ /\ OnBill(g, o) = 0
            /\ g.shop.bill_inactive \/ \A k \in 1..Len(g.shop.bill) : g.shop.bill[k].id # o
         \/ /\ ~g.shop.bill_inactive
            /\ OnBill(g, o) \in 1..Len(g.shop.bill) /\ OnBill(g, o) # 0
            /\ g.shop.bill[OnBill(g, o)].id = o
<1> DEFINE places == {k \in DOMAIN g.shop.bill : g.shop.bill[k].id = o}
<1>1. OnBill(g, o) = IF g.shop.bill_inactive \/ places = {} THEN 0 ELSE CHOOSE k \in places : TRUE
  BY DEF OnBill
<1>2. DOMAIN g.shop.bill = 1..Len(g.shop.bill) /\ Len(g.shop.bill) \in Nat
  BY BillIs
<1>3. CASE g.shop.bill_inactive \/ places = {}
  BY <1>1, <1>2, <1>3
<1>4. CASE ~(g.shop.bill_inactive \/ places = {})
  <2>1. OnBill(g, o) \in places
    BY <1>1, <1>4
  <2>2. \A k \in 1..Len(g.shop.bill) : k # 0
    BY <1>2
  <2> QED
    BY <1>2, <1>4, <2>1, <2>2
<1> QED
  BY <1>3, <1>4

\* The bill without one of its entries.
LEMMA WithoutIs ==
  ASSUME NEW b \in Seq(Entries), NEW k \in 1..Len(b)
  PROVE  /\ Without(b, k) \in Seq(Entries) /\ Len(Without(b, k)) = Len(b) - 1
         /\ Len(b) \in Nat /\ Len(b) - 1 \in Nat
         /\ \A j \in 1..(Len(b) - 1) : Without(b, k)[j] = IF j = k THEN b[Len(b)] ELSE b[j]
<1> DEFINE m == Len(b) - 1
           c == [b EXCEPT ![k] = b[Len(b)]]
<1>1. Len(b) \in Nat /\ m \in Nat /\ Len(b) \in 1..Len(b)
  OBVIOUS
<1>2. b[Len(b)] \in Entries
  BY <1>1, ElementOfSeq
<1>3. c \in Seq(Entries) /\ Len(c) = Len(b)
  BY <1>2, ExceptSeq
<1>4. \A j \in 1..Len(b) : c[j] = IF j = k THEN b[Len(b)] ELSE b[j]
  BY <1>2, ExceptSeq
<1>5. Without(b, k) = SubSeq(c, 1, m)
  BY DEF Without
<1> HIDE DEF c
<1>6. m <= Len(c) /\ 1 \in 1..(Len(c) + 1)
  BY <1>1, <1>3
<1>7. SubSeq(c, 1, m) \in Seq(Entries) /\ Len(SubSeq(c, 1, m)) = m
      /\ \A j \in 1..m : SubSeq(c, 1, m)[j] = c[j]
  <2>1. 1 \in Int /\ m \in Int /\ m - 1 + 1 = m /\ \A j \in 1..m : 1 + j - 1 = j
    BY <1>1
  <2>2. \A j \in 1..m : c[j] \in Entries
    <3>1. \A j \in 1..m : j \in 1..Len(c)
      BY <1>1, <1>3
    <3> QED
      BY <1>3, <3>1, ElementOfSeq
  <2>3. /\ SubSeq(c, 1, m) \in Seq(Entries)
        /\ Len(SubSeq(c, 1, m)) = IF 1 <= m THEN m - 1 + 1 ELSE 0
        /\ \A j \in 1..(m - 1 + 1) : SubSeq(c, 1, m)[j] = c[1 + j - 1]
    BY <2>1, <2>2, SubSeqProperties
  <2> QED
    BY <1>1, <2>1, <2>3
<1>8. \A j \in 1..m : j \in 1..Len(b)
  BY <1>1
<1> QED
  BY <1>1, <1>4, <1>5, <1>7, <1>8

------------------------------------------------------------------------------
(* What handlers leave alone.                                               *)

\* Nobody goes anywhere.
Stays(g, h) ==
  /\ h.hero.place = g.hero.place /\ h.hero.ushops = g.hero.ushops
  /\ h.shop.at = g.shop.at /\ h.shop.bill_inactive = g.shop.bill_inactive

\* What can be found is still there, and nothing comes up that was not there.
Like(g, h) ==
  \A i \in Ids :
    IF Here(g.obj[i])
    THEN /\ h.obj[i].where = g.obj[i].where /\ h.obj[i].quan = g.obj[i].quan
         /\ h.obj[i].kind = g.obj[i].kind
    ELSE ~Here(h.obj[i])

\* All objects are where they were, and the bill is for the same.
Mild(g, h) ==
  /\ Stays(g, h) /\ SameBill(g.shop.bill, h.shop.bill)
  /\ \A i \in Ids : /\ h.obj[i].where = g.obj[i].where /\ h.obj[i].quan = g.obj[i].quan
                    /\ h.obj[i].kind = g.obj[i].kind

LEMMA GoodIs ==
  ASSUME NEW g, Good(g)
  PROVE  /\ g.shop.bill \in Seq(Entries)
         /\ Len(g.shop.bill) \in Nat /\ Len(g.shop.bill) <= BILLSZ
         /\ g.shop.credit \in Nat /\ g.shop.debit \in Nat /\ g.shop.loan \in Nat
         /\ g.shop.robbed \in Nat /\ g.shop.till \in Nat /\ g.shop.gold \in Nat
         /\ g.shop.loan <= g.shop.debit
         /\ g.shop.bill_inactive \in BOOLEAN /\ g.shop.angry \in BOOLEAN
         /\ g.shop.surcharge \in BOOLEAN /\ g.shop.following \in BOOLEAN
         /\ g.hero.ushops \in BOOLEAN /\ g.hero.purse \in Nat
         /\ \A i \in Ids : /\ g.obj[i] \in Objects
                           /\ g.obj[i].quan \in Nat /\ g.obj[i].unpaid \in BOOLEAN
                           /\ g.obj[i].no_charge \in BOOLEAN
<1>1. g \in Worlds /\ Len(g.shop.bill) <= BILLSZ /\ g.shop.loan <= g.shop.debit
  BY DEF Good
<1>2. g.shop \in Shops /\ g.obj \in [Ids -> Objects] /\ g.hero \in Heroes
  BY <1>1 DEF Worlds
<1>3. g.shop.bill \in Seq(Entries)
  BY <1>2 DEF Shops
<1>4. Len(g.shop.bill) \in Nat
  BY <1>3
<1> QED
  BY <1>1, <1>2, <1>3, <1>4 DEF Shops, Heroes, Objects

\* A world that is good but for a change that is mild.
LEMMA MildIsGood ==
  ASSUME NEW g, Good(g), NEW h, h \in Worlds, Mild(g, h),
         \A i \in Ids : h.obj[i].unpaid = g.obj[i].unpaid,
         Priced(h.shop.bill, h.shop.surcharge), h.shop.loan <= h.shop.debit
  PROVE  Good(h)
<1>1. h.shop.bill \in Seq(Entries)
  BY DEF Worlds, Shops
<1>2. Agree(g.shop.bill, g.obj) /\ g.shop.bill \in Seq(Entries)
  BY GoodIs DEF Good
<1>3. /\ SameBill(g.shop.bill, h.shop.bill)
      /\ \A i \in Ids : /\ h.obj[i].quan = g.obj[i].quan /\ h.obj[i].where = g.obj[i].where
                        /\ h.obj[i].unpaid = g.obj[i].unpaid
  BY DEF Mild
<1>4. Agree(h.shop.bill, h.obj)
  BY <1>1, <1>2, <1>3, AgreeSame
<1>5. Len(h.shop.bill) <= BILLSZ
  BY <1>3 DEF Good, SameBill
<1>6. \A i \in Ids : Here(h.obj[i]) => h.obj[i].quan > 0
  BY <1>3 DEF Good, Here
<1> QED
  BY <1>4, <1>5, <1>6 DEF Good

LEMMA MildIsLike ==
  ASSUME NEW g, NEW h, Mild(g, h)
  PROVE  Stays(g, h) /\ Like(g, h)
BY DEF Mild, Like, Here

LEMMA MildTwice ==
  ASSUME NEW f, NEW g, NEW h, Mild(f, g), Mild(g, h)
  PROVE  Mild(f, h)
<1>1. Stays(f, h)
  BY DEF Mild, Stays
<1>2. SameBill(f.shop.bill, h.shop.bill)
  BY DEF Mild, SameBill
<1> QED
  BY <1>1, <1>2 DEF Mild

LEMMA LikeTwice ==
  ASSUME NEW f, NEW g, NEW h, Stays(f, g), Like(f, g), Stays(g, h), Like(g, h)
  PROVE  Stays(f, h) /\ Like(f, h)
BY DEF Stays, Like, Here

LEMMA MildRoom ==
  ASSUME NEW g, Good(g), NEW h, Good(h), Mild(g, h)
  PROVE  Unused(h) = Unused(g) /\ Partial(h) = Partial(g)
<1>1. Unused(h) = Unused(g)
  BY DEF Mild, Unused
<1>2. /\ g.shop.bill \in Seq(Entries) /\ h.shop.bill \in Seq(Entries)
      /\ Len(g.shop.bill) = Len(h.shop.bill)
  BY GoodIs DEF Mild, SameBill
<1>3. DOMAIN g.shop.bill = 1..Len(g.shop.bill) /\ DOMAIN h.shop.bill = 1..Len(g.shop.bill)
  BY <1>2, BillIs
<1>4. \A i \in Ids : i \in Partial(h) <=> i \in Partial(g)
  BY <1>3 DEF Mild, SameBill, Partial
<1>5. Partial(h) = Partial(g)
  BY <1>4 DEF Partial
<1> QED
  BY <1>1, <1>5

\* Owing is about the places, the charge and whether there is a bill.
LEMMA StaysOwing ==
  ASSUME NEW g, Owing(g), NEW h, Stays(g, h),
         ~Resident(g) => h.shop.bill = <<>> /\ h.shop.debit = 0
  PROVE  Owing(h)
BY DEF Stays, Owing, Resident

------------------------------------------------------------------------------
(* The shopkeeper's mood.                                                   *)

\* The surcharge is put on the prices of a bill.
LEMMA BillSurcharged ==
  ASSUME ShopConstants, NEW b \in Seq(Entries), Priced(b, FALSE)
  PROVE  /\ Repriced(b, Surcharged) \in Seq(Entries) /\ SameBill(b, Repriced(b, Surcharged))
         /\ Priced(Repriced(b, Surcharged), TRUE)
<1> DEFINE c == [k \in 1..Len(b) |-> [b[k] EXCEPT !.price = Surcharged(@)]]
<1>1. \A k \in 1..Len(b) : b[k] \in Entries /\ b[k].price \in Prices
  BY BillIs DEF Priced
<1>2. \A k \in 1..Len(b) : c[k] \in Entries /\ c[k].price \in Sums
  BY <1>1 DEF Entries, Sums
<1>3. c \in Seq(Entries) /\ Len(c) = Len(b)
  <2> HIDE DEF c
  <2>1. Len(b) \in Nat /\ \A k \in 1..Len(b) : c[k] \in Entries
    BY <1>2
  <2>2. c \in [1..Len(b) -> Entries]
    BY <1>1 DEF c, Entries, Sums
  <2> QED
    BY <2>1, <2>2
<1>4. Repriced(b, Surcharged) = <<>> \o c
  BY BillIs DEF Repriced
<1>5. <<>> \o c = c
  BY <1>3, ConcatEmptySeq
<1>6. SameBill(b, c)
  BY <1>1, <1>3 DEF SameBill, Entries
<1> QED
  BY <1>2, <1>3, <1>4, <1>5, <1>6 DEF Priced

\* It is taken off again.
LEMMA BillReduced ==
  ASSUME ShopConstants, NEW b \in Seq(Entries), Priced(b, TRUE)
  PROVE  /\ Repriced(b, Reduced) \in Seq(Entries) /\ SameBill(b, Repriced(b, Reduced))
         /\ Priced(Repriced(b, Reduced), FALSE)
<1> DEFINE c == [k \in 1..Len(b) |-> [b[k] EXCEPT !.price = Reduced(@)]]
<1>1. \A k \in 1..Len(b) : b[k] \in Entries /\ b[k].price \in Sums
  BY BillIs DEF Priced
<1>2. \A p \in Sums : Reduced(p) \in Prices
  BY SurchargeComesOff DEF Sums, ShopConstants
<1>3. \A k \in 1..Len(b) : c[k] \in Entries /\ c[k].price \in Prices
  BY <1>1, <1>2 DEF Entries
<1>4. c \in Seq(Entries) /\ Len(c) = Len(b)
  <2> HIDE DEF c
  <2>1. c \in [1..Len(b) -> Entries]
    BY <1>1, <1>2 DEF c, Entries
  <2> QED
    BY <2>1
<1>5. Repriced(b, Reduced) = <<>> \o c
  BY BillIs DEF Repriced
<1>6. <<>> \o c = c
  BY <1>4, ConcatEmptySeq
<1>7. SameBill(b, c)
  BY <1>1, <1>4 DEF SameBill, Entries
<1> QED
  BY <1>3, <1>4, <1>5, <1>6, <1>7 DEF Priced

\* What a change of mood leaves as it is.
Moody(g, h) ==
  /\ h.obj = g.obj /\ h.hero = g.hero
  /\ SameBill(g.shop.bill, h.shop.bill)
  /\ h.shop.credit = g.shop.credit /\ h.shop.debit = g.shop.debit
  /\ h.shop.loan = g.shop.loan /\ h.shop.robbed = g.shop.robbed
  /\ h.shop.till = g.shop.till /\ h.shop.gold = g.shop.gold
  /\ h.shop.at = g.shop.at /\ h.shop.bill_inactive = g.shop.bill_inactive

LEMMA MoodyIsMild ==
  ASSUME NEW g, NEW h, Moody(g, h)
  PROVE  Mild(g, h)
BY DEF Moody, Mild, Stays

LEMMA MoodyIsFine ==
  ASSUME NEW g, Fine(g), NEW h, Moody(g, h), Good(h)
  PROVE  Fine(h)
<1>1. g.shop.bill = <<>> => h.shop.bill = <<>>
  <2>1. g.shop.bill \in Seq(Entries) /\ h.shop.bill \in Seq(Entries)
    BY GoodIs DEF Fine
  <2> QED
    BY <2>1 DEF Moody, SameBill
<1> QED
  BY <1>1, MoodyIsMild, StaysOwing DEF Moody, Mild, Fine, Owing

LEMMA SameBillSelf ==
  ASSUME NEW b
  PROVE  SameBill(b, b)
BY DEF SameBill

\* That much is enough for the mood to change.
Tidy(g) == g \in Worlds /\ Priced(g.shop.bill, g.shop.surcharge)

LEMMA MoodyIsGood ==
  ASSUME NEW g, Good(g), NEW h, Tidy(h), Moody(g, h)
  PROVE  Good(h)
<1>1. \A i \in Ids : h.obj[i].unpaid = g.obj[i].unpaid
  BY DEF Moody
<1>2. h.shop.loan <= h.shop.debit
  BY DEF Moody, Good
<1> QED
  BY <1>1, <1>2, MildIsGood, MoodyIsMild DEF Tidy

LEMMA RileTidy ==
  ASSUME ShopConstants, NEW g, Tidy(g)
  PROVE  Tidy(rile_shk(g)) /\ Moody(g, rile_shk(g))
<1>1. g \in Worlds /\ g.shop.bill \in Seq(Entries) /\ g.shop.surcharge \in BOOLEAN
  BY DEF Tidy, Worlds, Shops
<1>2. PICK b : b = IF g.shop.surcharge THEN g.shop.bill ELSE Repriced(g.shop.bill, Surcharged)
  OBVIOUS
<1>3. b \in Seq(Entries) /\ SameBill(g.shop.bill, b) /\ Priced(b, TRUE)
  <2>1. Priced(g.shop.bill, g.shop.surcharge)
    BY DEF Tidy
  <2>2. CASE g.shop.surcharge = TRUE
    BY <1>1, <1>2, <2>1, <2>2, SameBillSelf
  <2>3. CASE g.shop.surcharge = FALSE
    <3>1. Priced(g.shop.bill, FALSE)
      BY <2>1, <2>3
    <3> QED
      BY <1>1, <1>2, <2>3, <3>1, BillSurcharged
  <2> QED
    BY <1>1, <2>2, <2>3
<1>4. CASE g.shop.bill_inactive
  <2>1. PICK h : h = rile_shk(g)
    OBVIOUS
  <2>2. h = [g EXCEPT !.wrong = @ \cup {"riling with inactive bill"}]
    BY <1>4, <2>1 DEF rile_shk, Impossible
  <2>3. h \in Worlds /\ h.shop = g.shop /\ h.obj = g.obj /\ h.hero = g.hero
    BY <1>1, <2>2 DEF Worlds
  <2>4. Moody(g, h)
    BY <2>3, SameBillSelf DEF Moody
  <2>5. Tidy(h)
    BY <2>3 DEF Tidy
  <2> QED
    BY <2>1, <2>4, <2>5
<1>5. CASE ~g.shop.bill_inactive
  <2>1. PICK h : h = rile_shk(g)
    OBVIOUS
  <2>2. h = [g EXCEPT !.shop.angry = TRUE, !.shop.surcharge = TRUE, !.shop.bill = b]
    BY <1>2, <1>5, <2>1 DEF rile_shk
  <2>3. h \in Worlds
    BY <1>1, <1>3, <2>2 DEF Worlds, Shops
  <2>4. h.shop.bill = b /\ h.shop.surcharge = TRUE
    BY <1>1, <2>2 DEF Worlds, Shops
  <2>5. Moody(g, h)
    BY <1>1, <1>3, <2>2 DEF Moody, Worlds, Shops
  <2>6. Tidy(h)
    BY <1>3, <2>3, <2>4 DEF Tidy
  <2> QED
    BY <2>1, <2>5, <2>6
<1> QED
  BY <1>4, <1>5

LEMMA PacifyTidy ==
  ASSUME ShopConstants, NEW g, Tidy(g)
  PROVE  Tidy(pacify_shk(g)) /\ Moody(g, pacify_shk(g))
<1>1. g \in Worlds /\ g.shop.bill \in Seq(Entries) /\ g.shop.surcharge \in BOOLEAN
  BY DEF Tidy, Worlds, Shops
<1>2. PICK b : b = IF ~g.shop.surcharge THEN g.shop.bill ELSE Repriced(g.shop.bill, Reduced)
  OBVIOUS
<1>3. b \in Seq(Entries) /\ SameBill(g.shop.bill, b) /\ Priced(b, FALSE)
  <2>1. Priced(g.shop.bill, g.shop.surcharge)
    BY DEF Tidy
  <2>2. CASE g.shop.surcharge = FALSE
    BY <1>1, <1>2, <2>1, <2>2, SameBillSelf
  <2>3. CASE g.shop.surcharge = TRUE
    <3>1. Priced(g.shop.bill, TRUE)
      BY <2>1, <2>3
    <3> QED
      BY <1>1, <1>2, <2>3, <3>1, BillReduced
  <2> QED
    BY <1>1, <2>2, <2>3
<1>4. CASE g.shop.bill_inactive
  <2>1. PICK h : h = pacify_shk(g)
    OBVIOUS
  <2>2. h = [g EXCEPT !.wrong = @ \cup {"pacifying with inactive bill"}]
    BY <1>4, <2>1 DEF pacify_shk, Impossible
  <2>3. h \in Worlds /\ h.shop = g.shop /\ h.obj = g.obj /\ h.hero = g.hero
    BY <1>1, <2>2 DEF Worlds
  <2>4. Moody(g, h)
    BY <2>3, SameBillSelf DEF Moody
  <2>5. Tidy(h)
    BY <2>3 DEF Tidy
  <2> QED
    BY <2>1, <2>4, <2>5
<1>5. CASE ~g.shop.bill_inactive
  <2>1. PICK h : h = pacify_shk(g)
    OBVIOUS
  <2>2. h = [g EXCEPT !.shop.angry = FALSE, !.shop.surcharge = FALSE, !.shop.bill = b]
    BY <1>2, <1>5, <2>1 DEF pacify_shk
  <2>3. h \in Worlds
    BY <1>1, <1>3, <2>2 DEF Worlds, Shops
  <2>4. h.shop.bill = b /\ h.shop.surcharge = FALSE
    BY <1>1, <2>2 DEF Worlds, Shops
  <2>5. Moody(g, h)
    BY <1>1, <1>3, <2>2 DEF Moody, Worlds, Shops
  <2>6. Tidy(h)
    BY <1>3, <2>3, <2>4 DEF Tidy
  <2> QED
    BY <2>1, <2>5, <2>6
<1> QED
  BY <1>4, <1>5

LEMMA KeeperTidy ==
  ASSUME ShopConstants, NEW g, Tidy(g)
  PROVE  Tidy(Keeper(g)) /\ Moody(g, Keeper(g))
<1>1. Moody(g, g)
  BY SameBillSelf DEF Moody
<1> QED
  BY <1>1, RileTidy, PacifyTidy DEF Keeper

LEMMA Rile ==
  ASSUME ShopConstants, NEW g, Good(g)
  PROVE  Good(rile_shk(g)) /\ Moody(g, rile_shk(g))
BY RileTidy, MoodyIsGood DEF Good, Tidy

LEMMA Pacify ==
  ASSUME ShopConstants, NEW g, Good(g)
  PROVE  Good(pacify_shk(g)) /\ Moody(g, pacify_shk(g))
BY PacifyTidy, MoodyIsGood DEF Good, Tidy

\* Whoever looks the shopkeeper up.
LEMMA KeeperIs ==
  ASSUME ShopConstants, NEW g, Good(g)
  PROVE  Good(Keeper(g)) /\ Moody(g, Keeper(g))
<1>1. Moody(g, g)
  BY SameBillSelf DEF Moody
<1> QED
  BY <1>1, Rile, Pacify DEF Keeper

\* hot_pursuit.
LEMMA Pursuit ==
  ASSUME ShopConstants, NEW g, Good(g)
  PROVE  Good(hot_pursuit(g)) /\ Moody(g, hot_pursuit(g))
<1>1. PICK r : r = rile_shk(g)
  OBVIOUS
<1>2. Good(r) /\ Moody(g, r)
  BY <1>1, Rile
<1>3. PICK h : h = [r EXCEPT !.shop.following = TRUE]
  OBVIOUS
<1>4. h \in Worlds /\ h.obj = r.obj /\ h.hero = r.hero /\ h.shop \in Shops
      /\ \A f \in {"bill", "credit", "debit", "loan", "robbed", "till", "gold", "at",
                   "bill_inactive", "surcharge"} : h.shop[f] = r.shop[f]
  BY <1>2, <1>3 DEF Good, Worlds, Shops
<1>5. Moody(g, h)
  BY <1>2, <1>4 DEF Moody
<1>6. Good(h)
  BY <1>2, <1>4 DEF Good
<1> QED
  BY <1>1, <1>3, <1>5, <1>6 DEF hot_pursuit

------------------------------------------------------------------------------
(* Changes of many objects.                                                 *)

LEMMA IdsFinite ==
  ASSUME ShopConstants
  PROVE  IsFiniteSet(Ids) /\ \A T \in SUBSET Ids : IsFiniteSet(T)
<1>1. IsFiniteSet({Box})
  BY FS_Singleton
<1>2. IsFiniteSet(Ids)
  BY <1>1, FS_Union DEF ShopConstants, Ids
<1> QED
  BY <1>2, FS_Subset

\* All are changed, and nothing else is.
LEMMA ChangedIs ==
  ASSUME NEW A, NEW B, NEW old \in [A -> B], NEW T \in SUBSET A, IsFiniteSet(T),
         NEW new \in [T -> B]
  PROVE  /\ Changed(new, old) \in [A -> B]
         /\ \A i \in A : Changed(new, old)[i] = IF i \in T THEN new[i] ELSE old[i]
<1> DEFINE D == [A -> B]
           step == [p \in T \X D |-> [p[2] EXCEPT ![p[1]] = new[p[1]]]]
           Eq(f) == f = [s \in SUBSET T |->
                           IF s = {} THEN old
                           ELSE [f[s \ {CHOOSE x \in s : TRUE}] EXCEPT
                                   ![CHOOSE x \in s : TRUE] = new[CHOOSE x \in s : TRUE]]]
           it == CHOOSE f : Eq(f)
           Got(s) == [i \in A |-> IF i \in s THEN new[i] ELSE old[i]]
           Holds == {s \in SUBSET T : it[s] = Got(s)}
<1>1. DOMAIN new = T
  OBVIOUS
<1>2. Changed(new, old) = it[T]
  BY <1>1, Zenon DEF Changed, FoldSet, MapThenFoldSet
<1>3. step \in [T \X D -> D]
  OBVIOUS
<1>4. PICK f : IsFold(f, T, D, old, step)
  <2> HIDE DEF step, D, Eq, it, Got, Holds
  <2>1. old \in D
    BY DEF D
  <2> QED
    BY <1>3, <2>1, FoldDefined
<1>5. Eq(f)
  <2>1. ASSUME NEW s \in SUBSET T, s # {}
        PROVE  step[<<Pick(s), f[s \ {Pick(s)}]>>]
                 = [f[s \ {Pick(s)}] EXCEPT ![Pick(s)] = new[Pick(s)]]
    <3>1. Pick(s) \in T
      BY <2>1 DEF Pick
    <3>2. f[s \ {Pick(s)}] \in D
      BY <1>4 DEF IsFold
    <3> QED
      BY <3>1, <3>2
  <2>2. f = [s \in SUBSET T |->
               IF s = {} THEN old ELSE [f[s \ {Pick(s)}] EXCEPT ![Pick(s)] = new[Pick(s)]]]
    <3> HIDE DEF step
    <3> QED
      BY <1>4, <2>1 DEF IsFold
  <2> QED
    BY <2>2 DEF Pick
<1>6. Eq(it)
  <2> HIDE DEF Eq
  <2> QED
    BY <1>5, Zenon
<1>7. \A s \in SUBSET T :
        it[s] = IF s = {} THEN old ELSE [it[s \ {Pick(s)}] EXCEPT ![Pick(s)] = new[Pick(s)]]
  <2> HIDE DEF it
  <2> QED
    BY <1>6 DEF Pick
<1> HIDE DEF it, Eq, step
<1>8. {} \in Holds
  BY <1>7
<1>9. ASSUME NEW s \in SUBSET T, s # {}, s \ {Pick(s)} \in Holds PROVE s \in Holds
  <2>1. Pick(s) \in s
    BY <1>9 DEF Pick
  <2>2. it[s] = [Got(s \ {Pick(s)}) EXCEPT ![Pick(s)] = new[Pick(s)]]
    BY <1>7, <1>9
  <2>3. Got(s) = [Got(s \ {Pick(s)}) EXCEPT ![Pick(s)] = new[Pick(s)]]
    BY <2>1
  <2> QED
    BY <2>2, <2>3
<1>10. T \in Holds
  <2> HIDE DEF Holds
  <2> QED
    BY <1>8, <1>9, SetsGrow
<1> QED
  BY <1>2, <1>10

\* SetNoCharge marks the objects, and does nothing else.
LEMMA SetNoChargeIs ==
  ASSUME ShopConstants, NEW g, Good(g), NEW S \in SUBSET Ids, NEW mine \in BOOLEAN
  PROVE  /\ Good(SetNoCharge(g, S, mine)) /\ Mild(g, SetNoCharge(g, S, mine))
         /\ SetNoCharge(g, S, mine).shop = g.shop /\ SetNoCharge(g, S, mine).hero = g.hero
         /\ \A i \in Ids : SetNoCharge(g, S, mine).obj[i]
                             = [g.obj[i] EXCEPT !.no_charge = IF i \in S THEN mine ELSE @]
<1>1. g \in Worlds /\ g.obj \in [Ids -> Objects]
  BY DEF Good, Worlds
<1> DEFINE new == [i \in S |-> [g.obj[i] EXCEPT !.no_charge = mine]]
<1>2. new \in [S -> Objects]
  BY <1>1 DEF Objects
<1>3. IsFiniteSet(S)
  BY IdsFinite
<1>4. PICK objs : objs = Changed(new, g.obj)
  OBVIOUS
<1>5. objs \in [Ids -> Objects]
      /\ \A i \in Ids : objs[i] = IF i \in S THEN new[i] ELSE g.obj[i]
  <2> HIDE DEF new
  <2> QED
    BY <1>1, <1>2, <1>3, <1>4, ChangedIs
<1>6. objs \in [Ids -> Objects]
  BY <1>1, <1>2, <1>5
<1>7. \A i \in Ids : objs[i] = [g.obj[i] EXCEPT !.no_charge = IF i \in S THEN mine ELSE @]
  BY <1>1, <1>5 DEF Objects
<1>8. PICK h : h = SetNoCharge(g, S, mine)
  OBVIOUS
<1>9. h = [g EXCEPT !.obj = objs]
  BY <1>4, <1>8 DEF SetNoCharge
<1>10. h \in Worlds /\ h.shop = g.shop /\ h.hero = g.hero /\ h.obj = objs
  BY <1>1, <1>6, <1>9 DEF Worlds
<1>11. \A i \in Ids : /\ h.obj[i].where = g.obj[i].where /\ h.obj[i].quan = g.obj[i].quan
                      /\ h.obj[i].kind = g.obj[i].kind /\ h.obj[i].unpaid = g.obj[i].unpaid
  BY <1>1, <1>7, <1>10 DEF Objects
<1>12. Mild(g, h)
  BY <1>10, <1>11, SameBillSelf DEF Mild, Stays
<1>13. Good(h)
  BY <1>10, <1>11, <1>12, MildIsGood DEF Good
<1> QED
  BY <1>7, <1>8, <1>10, <1>12, <1>13

\* What that means for the single objects.
Marked(g, h, S, mine) ==
  /\ h.shop = g.shop /\ h.hero = g.hero
  /\ \A i \in Ids : /\ h.obj[i].where = g.obj[i].where /\ h.obj[i].quan = g.obj[i].quan
                    /\ h.obj[i].kind = g.obj[i].kind /\ h.obj[i].unpaid = g.obj[i].unpaid
                    /\ h.obj[i].no_charge = IF i \in S THEN mine ELSE g.obj[i].no_charge

LEMMA MarksAre ==
  ASSUME ShopConstants, NEW g, Good(g), NEW S \in SUBSET Ids, NEW mine \in BOOLEAN
  PROVE  /\ Good(SetNoCharge(g, S, mine)) /\ Mild(g, SetNoCharge(g, S, mine))
         /\ Marked(g, SetNoCharge(g, S, mine), S, mine)
<1>1. PICK h : h = SetNoCharge(g, S, mine)
  OBVIOUS
<1>2. Good(h) /\ Mild(g, h) /\ h.shop = g.shop /\ h.hero = g.hero
  <2>1. /\ Good(SetNoCharge(g, S, mine)) /\ Mild(g, SetNoCharge(g, S, mine))
        /\ SetNoCharge(g, S, mine).shop = g.shop /\ SetNoCharge(g, S, mine).hero = g.hero
    BY SetNoChargeIs
  <2> QED
    BY <1>1, <2>1
<1>3. ASSUME NEW i \in Ids
      PROVE  /\ h.obj[i].where = g.obj[i].where /\ h.obj[i].quan = g.obj[i].quan
             /\ h.obj[i].kind = g.obj[i].kind /\ h.obj[i].unpaid = g.obj[i].unpaid
             /\ h.obj[i].no_charge = IF i \in S THEN mine ELSE g.obj[i].no_charge
  <2>1. g.obj[i] \in Objects
    BY GoodIs
  <2>2. SetNoCharge(g, S, mine).obj[i]
          = [g.obj[i] EXCEPT !.no_charge = IF i \in S THEN mine ELSE @]
    BY SetNoChargeIs
  <2>3. h.obj[i] = [g.obj[i] EXCEPT !.no_charge = IF i \in S THEN mine ELSE @]
    BY <1>1, <2>2
  <2> QED
    BY <2>1, <2>3 DEF Objects
<1> QED
  BY <1>1, <1>2, <1>3 DEF Marked

\* So does the mark for one object.
LEMMA NoChargeIs ==
  ASSUME ShopConstants, NEW g, Good(g), NEW o \in Ids, NEW mine \in BOOLEAN
  PROVE  LET h == [g EXCEPT !.obj[o].no_charge = mine]
         IN /\ Good(h) /\ Mild(g, h) /\ h.shop = g.shop /\ h.hero = g.hero
            /\ \A i \in Ids : h.obj[i] = [g.obj[i] EXCEPT !.no_charge = IF i = o THEN mine ELSE @]
<1>1. g \in Worlds /\ g.obj \in [Ids -> Objects]
  BY DEF Good, Worlds
<1>2. PICK h : h = [g EXCEPT !.obj[o].no_charge = mine]
  OBVIOUS
<1>3. h \in Worlds /\ h.shop = g.shop /\ h.hero = g.hero
      /\ h.obj = [g.obj EXCEPT ![o] = [g.obj[o] EXCEPT !.no_charge = mine]]
  <2>1. h = [g EXCEPT !.obj = [g.obj EXCEPT ![o] = [g.obj[o] EXCEPT !.no_charge = mine]]]
    BY <1>2
  <2>2. [g.obj[o] EXCEPT !.no_charge = mine] \in Objects
    BY <1>1 DEF Objects
  <2> QED
    BY <1>1, <2>1, <2>2 DEF Worlds
<1>4. \A i \in Ids : h.obj[i] = [g.obj[i] EXCEPT !.no_charge = IF i = o THEN mine ELSE @]
  BY <1>1, <1>3 DEF Objects
<1>5. \A i \in Ids : /\ h.obj[i].where = g.obj[i].where /\ h.obj[i].quan = g.obj[i].quan
                     /\ h.obj[i].kind = g.obj[i].kind /\ h.obj[i].unpaid = g.obj[i].unpaid
  <2> TAKE i \in Ids
  <2>1. g.obj[i] \in Objects
    BY <1>1
  <2>2. h.obj[i] = [g.obj[i] EXCEPT !.no_charge = IF i = o THEN mine ELSE @]
    BY <1>4
  <2> QED
    BY <2>1, <2>2 DEF Objects
<1>6. Mild(g, h)
  BY <1>3, <1>5, SameBillSelf DEF Mild, Stays
<1>7. Priced(h.shop.bill, h.shop.surcharge) /\ h.shop.loan <= h.shop.debit
  BY <1>3 DEF Good
<1>8. Good(h)
  BY <1>3, <1>5, <1>6, <1>7, MildIsGood
<1> QED
  BY <1>2, <1>3, <1>4, <1>6, <1>8

------------------------------------------------------------------------------
(* Money.                                                                   *)

\* What changes hands is money only.
Pays(g, h) ==
  /\ h.obj = g.obj /\ Stays(g, h) /\ h.wrong = g.wrong
  /\ h.shop.bill = g.shop.bill /\ h.shop.surcharge = g.shop.surcharge
  /\ h.shop.angry = g.shop.angry

LEMMA PaysIsGood ==
  ASSUME NEW g, Good(g), NEW h, Pays(g, h), h \in Worlds, h.shop.loan <= h.shop.debit
  PROVE  Good(h) /\ Mild(g, h)
<1>1. Mild(g, h)
  BY SameBillSelf DEF Pays, Mild
<1> QED
  BY <1>1 DEF Good, Pays

LEMMA PaysTwice ==
  ASSUME NEW f, NEW g, NEW h, Pays(f, g), Pays(g, h)
  PROVE  Pays(f, h)
BY DEF Pays, Stays

LEMMA PaysIsFine ==
  ASSUME NEW g, Fine(g), NEW h, Good(h), Pays(g, h), ~Resident(g) => h.shop.debit = 0
  PROVE  Fine(h)
BY StaysOwing DEF Fine, Pays, Owing, Resident, Stays

\* The credit is used first; the rest is due.
LEMMA CreditIs ==
  ASSUME NEW g, Good(g), NEW n \in Nat
  PROVE  LET c == check_credit(g, n)
         IN /\ c.due \in Nat /\ Good(c.g) /\ Pays(g, c.g)
            /\ c.g.shop.debit = g.shop.debit /\ c.g.shop.loan = g.shop.loan
            /\ c.g.shop.robbed = g.shop.robbed /\ c.g.shop.till = g.shop.till
            /\ c.g.shop.following = g.shop.following
            /\ c.g.shop.gold = g.shop.gold /\ c.g.hero = g.hero
            /\ c.due = n - (g.shop.credit - c.g.shop.credit)
            /\ c.due > 0 => c.g.shop.credit = 0
<1>1. g \in Worlds /\ g.shop.credit \in Nat /\ g.shop.loan <= g.shop.debit
  BY GoodIs DEF Good
<1>2. PICK left : left = IF g.shop.credit >= n THEN g.shop.credit - n ELSE 0
  OBVIOUS
<1>3. left \in Nat
  BY <1>1, <1>2
<1>4. PICK h : h = [g EXCEPT !.shop.credit = left]
  OBVIOUS
<1>5. PICK c : c = check_credit(g, n)
  OBVIOUS
<1>6. c.g = h /\ c.due = IF g.shop.credit >= n THEN 0 ELSE n - g.shop.credit
  BY <1>2, <1>4, <1>5 DEF check_credit
<1>7. h \in Worlds
  BY <1>1, <1>3, <1>4 DEF Worlds, Shops
<1>8. /\ h.obj = g.obj /\ h.wrong = g.wrong /\ h.hero = g.hero /\ h.shop.credit = left
      /\ h.shop.bill = g.shop.bill /\ h.shop.surcharge = g.shop.surcharge
      /\ h.shop.angry = g.shop.angry /\ h.shop.at = g.shop.at
      /\ h.shop.bill_inactive = g.shop.bill_inactive
      /\ h.shop.debit = g.shop.debit /\ h.shop.loan = g.shop.loan
      /\ h.shop.robbed = g.shop.robbed /\ h.shop.till = g.shop.till
      /\ h.shop.gold = g.shop.gold /\ h.shop.following = g.shop.following
  BY <1>1, <1>4 DEF Worlds, Shops
<1>9. Pays(g, h)
  BY <1>8 DEF Pays, Stays
<1>10. Good(h)
  BY <1>1, <1>7, <1>8, <1>9, PaysIsGood
<1>11. c.due \in Nat /\ c.due = n - (g.shop.credit - left) /\ (c.due > 0 => left = 0)
  BY <1>1, <1>2, <1>6
<1> QED
  BY <1>5, <1>6, <1>8, <1>9, <1>10, <1>11

\* A payment by the player who has the money, or to the player.
LEMMA PayIs ==
  ASSUME NEW g, Good(g), NEW n \in Int,
         n > 0 => n <= Wealth(g), n < 0 => -n <= g.shop.till
  PROVE  /\ Good(pay(g, n)) /\ Pays(g, pay(g, n))
         /\ pay(g, n).shop.debit = g.shop.debit /\ pay(g, n).shop.loan = g.shop.loan
         /\ Wealth(pay(g, n)) = Wealth(g) - n
         /\ pay(g, n).shop.gold = g.shop.gold
         /\ g.shop.robbed = 0 => pay(g, n).shop.robbed = 0
<1>1. /\ g \in Worlds /\ g.shop.credit \in Nat /\ g.shop.till \in Nat
      /\ g.hero.purse \in Nat /\ g.shop.robbed \in Nat /\ g.shop.loan <= g.shop.debit
  BY GoodIs DEF Good
<1>2. PICK c : c = check_credit(g, n)
  OBVIOUS
<1> DEFINE Moved(p) == /\ Good(p) /\ Pays(g, p) /\ p.shop.robbed = g.shop.robbed
                       /\ p.shop.debit = g.shop.debit /\ p.shop.loan = g.shop.loan
                       /\ p.shop.gold = g.shop.gold
                       /\ Wealth(p) = Wealth(g) - n
<1>3. PICK p : p = CASE n > 0 /\ c.due > 0 -> money2mon(c.g, c.due)
                     [] n > 0 /\ c.due = 0 -> c.g
                     [] n < 0 -> money2u(g, -n)
                     [] OTHER -> g
  OBVIOUS
<1>4. Moved(p)
  <2>1. CASE n > 0
    <3>1. /\ c.due \in Nat /\ Good(c.g) /\ Pays(g, c.g)
          /\ c.g.shop.debit = g.shop.debit /\ c.g.shop.loan = g.shop.loan
          /\ c.g.shop.robbed = g.shop.robbed /\ c.g.shop.till = g.shop.till
          /\ c.g.shop.gold = g.shop.gold /\ c.g.hero = g.hero
          /\ c.due = n - (g.shop.credit - c.g.shop.credit)
          /\ c.due > 0 => c.g.shop.credit = 0
      <4>1. n \in Nat
        BY <2>1
      <4> QED
        BY <4>1, <1>2, CreditIs
    <3>2. c.g.shop.credit \in Nat /\ c.g \in Worlds
      BY <3>1, GoodIs DEF Good
    <3>3. CASE c.due = 0
      <4>1. p = c.g
        <5>1. ~(n > 0 /\ c.due > 0)
          BY <3>1, <3>3
        <5> QED
          BY <1>3, <2>1, <3>3, <5>1
      <4>2. Wealth(p) = Wealth(g) - n
        BY <1>1, <3>1, <3>2, <3>3, <4>1 DEF Wealth
      <4> QED
        BY <3>1, <4>1, <4>2
    <3>4. CASE c.due > 0
      <4>1. c.due <= g.hero.purse
        BY <1>1, <2>1, <3>1, <3>4 DEF Wealth
      <4>2. PICK left : left = g.hero.purse - c.due
        OBVIOUS
      <4>3. PICK more : more = g.shop.till + c.due
        OBVIOUS
      <4>4. left \in Nat /\ more \in Nat
        BY <1>1, <3>1, <4>1, <4>2, <4>3
      <4>5. p = money2mon(c.g, c.due)
        <5>1. n > 0 /\ c.due > 0
          BY <2>1, <3>4
        <5>2. ~(n > 0 /\ c.due = 0) /\ ~(n < 0)
          BY <2>1, <3>1, <3>4
        <5> QED
          BY <1>3, <5>1, <5>2
      <4>6. p = [c.g EXCEPT !.hero.purse = left, !.shop.till = more]
        <5>1. ~(c.g.hero.purse < c.due)
          BY <1>1, <3>1, <4>1
        <5>2. p = [c.g EXCEPT !.hero.purse = @ - c.due, !.shop.till = @ + c.due]
          BY <4>5, <5>1 DEF money2mon
        <5> QED
          BY <3>1, <4>2, <4>3, <5>2
      <4>7. p \in Worlds
        BY <3>2, <4>4, <4>6 DEF Worlds, Shops, Heroes
      <4>8. /\ p.obj = c.g.obj /\ p.wrong = c.g.wrong /\ p.hero.place = c.g.hero.place
            /\ p.hero.ushops = c.g.hero.ushops /\ p.hero.purse = left
            /\ p.shop.credit = c.g.shop.credit
            /\ p.shop.bill = c.g.shop.bill /\ p.shop.surcharge = c.g.shop.surcharge
            /\ p.shop.angry = c.g.shop.angry /\ p.shop.at = c.g.shop.at
            /\ p.shop.bill_inactive = c.g.shop.bill_inactive
            /\ p.shop.debit = c.g.shop.debit /\ p.shop.loan = c.g.shop.loan
            /\ p.shop.robbed = c.g.shop.robbed /\ p.shop.gold = c.g.shop.gold
        BY <3>2, <4>6 DEF Worlds, Shops, Heroes
      <4>9. Pays(c.g, p) /\ Pays(g, p)
        <5>1. Pays(c.g, p)
          BY <4>8 DEF Pays, Stays
        <5> QED
          BY <3>1, <5>1, PaysTwice
      <4>10. Good(p)
        <5>1. p.shop.loan <= p.shop.debit
          BY <1>1, <3>1, <4>8
        <5> QED
          BY <3>1, <4>7, <4>9, <5>1, PaysIsGood
      <4>11. Wealth(p) = Wealth(g) - n
        BY <1>1, <3>1, <3>2, <3>4, <4>2, <4>8 DEF Wealth
      <4> QED
        BY <3>1, <4>8, <4>9, <4>10, <4>11
    <3> QED
      BY <3>1, <3>3, <3>4
  <2>2. CASE n = 0
    <3>1. p = g
      BY <1>3, <2>2
    <3>2. Pays(g, g)
      BY DEF Pays, Stays
    <3>3. Wealth(g) = Wealth(g) - n
      BY <1>1, <2>2 DEF Wealth
    <3> QED
      BY <3>1, <3>2, <3>3
  <2>3. CASE n < 0
    <3>1. PICK left : left = g.shop.till - (-n)
      OBVIOUS
    <3>2. PICK more : more = g.hero.purse + (-n)
      OBVIOUS
    <3>3. left \in Nat /\ more \in Nat
      BY <1>1, <2>3, <3>1, <3>2
    <3>4. p = money2u(g, -n)
      <4>1. ~(n > 0 /\ c.due > 0) /\ ~(n > 0 /\ c.due = 0)
        BY <2>3
      <4> QED
        BY <1>3, <2>3, <4>1
    <3>5. p = [g EXCEPT !.hero.purse = more, !.shop.till = left]
      <4>1. ~(g.shop.till < -n)
        BY <1>1, <2>3
      <4>2. p = [g EXCEPT !.hero.purse = @ + (-n), !.shop.till = @ - (-n)]
        BY <3>4, <4>1 DEF money2u
      <4> QED
        BY <3>1, <3>2, <4>2
    <3>6. p \in Worlds
      BY <1>1, <3>3, <3>5 DEF Worlds, Shops, Heroes
    <3>7. /\ p.obj = g.obj /\ p.wrong = g.wrong /\ p.hero.place = g.hero.place
          /\ p.hero.ushops = g.hero.ushops /\ p.hero.purse = more
          /\ p.shop.credit = g.shop.credit
          /\ p.shop.bill = g.shop.bill /\ p.shop.surcharge = g.shop.surcharge
          /\ p.shop.angry = g.shop.angry /\ p.shop.at = g.shop.at
          /\ p.shop.bill_inactive = g.shop.bill_inactive
          /\ p.shop.debit = g.shop.debit /\ p.shop.loan = g.shop.loan
          /\ p.shop.robbed = g.shop.robbed /\ p.shop.gold = g.shop.gold
      BY <1>1, <3>5 DEF Worlds, Shops, Heroes
    <3>8. Pays(g, p)
      BY <3>7 DEF Pays, Stays
    <3>9. Good(p)
      BY <1>1, <3>6, <3>7, <3>8, PaysIsGood
    <3>10. Wealth(p) = Wealth(g) - n
      BY <1>1, <3>2, <3>7 DEF Wealth
    <3> QED
      BY <3>7, <3>8, <3>9, <3>10
  <2> QED
    BY <2>1, <2>2, <2>3
<1>5. PICK debt : debt = IF g.shop.robbed = 0 \/ g.shop.robbed - n < 0 THEN 0
                         ELSE g.shop.robbed - n
  OBVIOUS
<1>6. debt \in Nat /\ (g.shop.robbed = 0 => debt = 0)
  BY <1>1, <1>5
<1>7. PICK h : h = [p EXCEPT !.shop.robbed = debt]
  OBVIOUS
<1>8. h = pay(g, n)
  BY <1>2, <1>3, <1>5, <1>7 DEF pay
<1>9. p \in Worlds /\ p.shop.loan <= p.shop.debit
  BY <1>4 DEF Good
<1>10. h \in Worlds
  BY <1>6, <1>7, <1>9 DEF Worlds, Shops
<1>11. /\ h.obj = p.obj /\ h.wrong = p.wrong /\ h.hero = p.hero
       /\ h.shop.credit = p.shop.credit
       /\ h.shop.bill = p.shop.bill /\ h.shop.surcharge = p.shop.surcharge
       /\ h.shop.angry = p.shop.angry /\ h.shop.at = p.shop.at
       /\ h.shop.bill_inactive = p.shop.bill_inactive
       /\ h.shop.debit = p.shop.debit /\ h.shop.loan = p.shop.loan
       /\ h.shop.gold = p.shop.gold /\ h.shop.robbed = debt
  BY <1>7, <1>9 DEF Worlds, Shops
<1>12. Pays(p, h)
  BY <1>11 DEF Pays, Stays
<1>13. Good(h)
  BY <1>4, <1>9, <1>10, <1>11, <1>12, PaysIsGood
<1>14. Pays(g, h)
  BY <1>4, <1>12, PaysTwice
<1>15. Wealth(h) = Wealth(p)
  BY <1>11 DEF Wealth
<1> QED
  BY <1>4, <1>6, <1>8, <1>11, <1>13, <1>14, <1>15

------------------------------------------------------------------------------
(* The bill is settled.                                                     *)

\* In a world that is good an active bill has an entry for what is unpaid.
LEMMA OnBillGood ==
  ASSUME NEW g, Good(g), ~g.shop.bill_inactive, NEW i \in Ids
  PROVE  /\ OnBill(g, i) \in 0..Len(g.shop.bill)
         /\ OnBill(g, i) # 0 => /\ OnBill(g, i) \in 1..Len(g.shop.bill)
                                /\ g.shop.bill[OnBill(g, i)].id = i
                                /\ IsFor(g.shop.bill[OnBill(g, i)], g.obj[i])
         /\ OnBill(g, i) = 0 => /\ ~g.obj[i].unpaid /\ g.obj[i].where # "billed"
                                /\ \A k \in 1..Len(g.shop.bill) : g.shop.bill[k].id # i
         /\ Here(g.obj[i]) => (g.obj[i].unpaid <=> OnBill(g, i) # 0)
<1>1. g.shop.bill \in Seq(Entries) /\ Len(g.shop.bill) \in Nat
  BY GoodIs
<1>2. Agree(g.shop.bill, g.obj)
  BY DEF Good
<1>3. CASE OnBill(g, i) = 0
  <2>1. \A k \in 1..Len(g.shop.bill) : g.shop.bill[k].id # i
    BY <1>1, <1>3, OnBillIs
  <2>2. ~g.obj[i].unpaid /\ g.obj[i].where # "billed"
    BY <1>2, <2>1 DEF Agree
  <2> QED
    BY <1>1, <1>3, <2>1, <2>2
<1>4. CASE OnBill(g, i) # 0
  <2>1. OnBill(g, i) \in 1..Len(g.shop.bill) /\ g.shop.bill[OnBill(g, i)].id = i
    BY <1>1, <1>4, OnBillIs
  <2>2. IsFor(g.shop.bill[OnBill(g, i)], g.obj[i])
    BY <1>2, <2>1 DEF Agree
  <2>3. Here(g.obj[i]) => g.obj[i].unpaid
    BY <2>2 DEF IsFor, Here
  <2>4. OnBill(g, i) \in 0..Len(g.shop.bill)
    BY <1>1, <2>1
  <2> QED
    BY <1>4, <2>1, <2>2, <2>3, <2>4
<1> QED
  BY <1>3, <1>4

\* The sum of what c has for each of the elements of a set, taken one by one:
\* t has it for the subsets of S, too.
IsSum(t, S, c) ==
  /\ t \in [SUBSET S -> Nat]
  /\ \A s \in SUBSET S : t[s] = IF s = {} THEN 0 ELSE c[Pick(s)] + t[s \ {Pick(s)}]

\* A sum of natural numbers.
LEMMA SumDefined ==
  ASSUME NEW S, IsFiniteSet(S), NEW c \in [S -> Nat]
  PROVE  \E t : IsSum(t, S, c) /\ SumFunction(c) = t[S]
<1> DEFINE step == [p \in S \X Nat |-> c[p[1]] + p[2]]
<1>1. DOMAIN c = S
  OBVIOUS
<1>2. step \in [S \X Nat -> Nat]
  OBVIOUS
<1> HIDE DEF step
<1>3. PICK f : IsFold(f, S, Nat, 0, step)
  BY <1>2, FoldDefined
<1> DEFINE Eq(h) == h = [s \in SUBSET S |->
                           IF s = {} THEN 0
                           ELSE c[CHOOSE x \in s : TRUE] + h[s \ {CHOOSE x \in s : TRUE}]]
           it == CHOOSE h : Eq(h)
<1>4. SumFunction(c) = it[S]
  BY <1>1, Zenon DEF SumFunction, SumFunctionOnSet, FoldFunctionOnSet, MapThenFoldSet
<1>5. \A s \in SUBSET S : s # {} => Pick(s) \in S /\ s \ {Pick(s)} \in SUBSET S
  BY DEF Pick
<1>6. f \in [SUBSET S -> Nat]
  BY <1>3 DEF IsFold
<1>7. ASSUME NEW s \in SUBSET S
      PROVE  f[s] = IF s = {} THEN 0 ELSE c[Pick(s)] + f[s \ {Pick(s)}]
  <2>1. f[s] = IF s = {} THEN 0 ELSE step[<<Pick(s), f[s \ {Pick(s)}]>>]
    BY <1>3 DEF IsFold
  <2>2. s # {} => step[<<Pick(s), f[s \ {Pick(s)}]>>] = c[Pick(s)] + f[s \ {Pick(s)}]
    BY <1>5, <1>6 DEF step
  <2> QED
    BY <2>1, <2>2
<1>8. Eq(f)
  BY <1>6, <1>7 DEF Pick
<1>9. Eq(it)
  <2> HIDE DEF Eq
  <2> QED
    BY <1>8, Zenon
<1>10. \A s \in SUBSET S : it[s] = IF s = {} THEN 0 ELSE c[Pick(s)] + it[s \ {Pick(s)}]
  <2> HIDE DEF it
  <2> QED
    BY <1>9 DEF Pick
<1> HIDE DEF it, Eq
<1> DEFINE Holds == {s \in SUBSET S : it[s] \in Nat}
<1>11. {} \in Holds
  <2>1. {} \in SUBSET S /\ it[{}] = 0
    BY <1>10
  <2> QED
    BY <2>1
<1>12. ASSUME NEW s \in SUBSET S, s # {}, s \ {Pick(s)} \in Holds PROVE s \in Holds
  <2>1. it[s] = c[Pick(s)] + it[s \ {Pick(s)}]
    BY <1>10, <1>12
  <2>2. it[s \ {Pick(s)}] \in Nat /\ c[Pick(s)] \in Nat
    BY <1>5, <1>12
  <2> QED
    BY <2>1, <2>2
<1>13. ASSUME NEW r \in SUBSET S PROVE r \in Holds
  <2>1. IsFiniteSet(r)
    BY FS_Subset
  <2>2. ASSUME NEW s \in SUBSET r, s # {}, s \ {Pick(s)} \in Holds PROVE s \in Holds
    BY <1>12, <2>2
  <2> HIDE DEF Holds
  <2> QED
    BY <1>11, <2>1, <2>2, SetsGrow
<1>14. PICK t : t = [s \in SUBSET S |-> it[s]]
  OBVIOUS
<1>15. t \in [SUBSET S -> Nat] /\ \A s \in SUBSET S : t[s] = it[s]
  BY <1>13, <1>14
<1>16. IsSum(t, S, c)
  BY <1>5, <1>10, <1>15 DEF IsSum
<1> QED
  BY <1>4, <1>15, <1>16

LEMMA SumIs ==
  ASSUME NEW S, IsFiniteSet(S), NEW c \in [S -> Nat]
  PROVE  SumFunction(c) \in Nat
<1>1. PICK t : IsSum(t, S, c) /\ SumFunction(c) = t[S]
  BY SumDefined
<1>2. t \in [SUBSET S -> Nat] /\ S \in SUBSET S
  BY <1>1 DEF IsSum
<1> QED
  BY <1>1, <1>2

\* The sum of a bill.
LEMMA DueIs ==
  ASSUME ShopConstants, NEW bill \in Seq(Entries)
  PROVE  Due(bill) \in Nat
<1>1. IsFiniteSet(DOMAIN bill)
  BY BillIs
<1>2. ASSUME NEW k \in DOMAIN bill PROVE bill[k].price * bill[k].bquan \in Nat
  <2>1. bill[k].price \in Prices \cup Sums /\ bill[k].bquan \in Nat
    BY BillIs
  <2>2. \A p \in Prices : p \in Nat /\ Surcharged(p) \in Nat
    BY DEF ShopConstants, Surcharged
  <2>3. bill[k].price \in Nat
    BY <2>1, <2>2 DEF Sums
  <2> QED
    BY <2>1, <2>3
<1>3. PICK c : c = [k \in DOMAIN bill |-> bill[k].price * bill[k].bquan]
  OBVIOUS
<1>4. c \in [DOMAIN bill -> Nat]
  BY <1>2, <1>3
<1>5. SumFunction(c) \in Nat
  BY <1>1, <1>4, SumIs
<1> QED
  BY <1>3, <1>5 DEF Due

\* Every object is in a list.
NoneFloats(g) == \A i \in Ids : g.obj[i].where # "free"

\* setpaid empties the bill: nothing is unpaid, what was used up is gone.
LEMMA SetpaidIs ==
  ASSUME ShopConstants, NEW g, Good(g), ~g.shop.bill_inactive, NoneFloats(g)
  PROVE  LET h == setpaid(g)
         IN /\ Good(h) /\ Stays(g, h) /\ Like(g, h) /\ h.hero = g.hero /\ h.wrong = g.wrong
            /\ h.shop = [g.shop EXCEPT !.bill = <<>>, !.credit = 0, !.debit = 0, !.loan = 0]
            /\ \A i \in Ids : /\ ~h.obj[i].unpaid /\ h.obj[i].where # "billed"
                              /\ Here(g.obj[i]) => h.obj[i].no_charge = g.obj[i].no_charge
<1>1. g \in Worlds /\ g.obj \in [Ids -> Objects] /\ g.shop \in Shops
  BY DEF Good, Worlds
<1> DEFINE paid == {i \in Ids : OnBill(g, i) # 0}
           used == {i \in Ids : g.obj[i].where = "billed"}
           gone == [i \in used |-> Nothing]
<1>2. IsFiniteSet(paid) /\ IsFiniteSet(used)
  BY IdsFinite
<1>3. PICK left : left = Changed(gone, g.obj)
  OBVIOUS
<1>4. /\ left \in [Ids -> Objects]
      /\ \A i \in Ids : left[i] = IF g.obj[i].where = "billed" THEN Nothing ELSE g.obj[i]
  <2>1. gone \in [used -> Objects]
    BY DEF Nothing, Objects
  <2>2. used \in SUBSET Ids
    OBVIOUS
  <2>3. /\ left \in [Ids -> Objects]
        /\ \A i \in Ids : left[i] = IF i \in used THEN gone[i] ELSE g.obj[i]
    <3>1. PICK old : old = g.obj
      OBVIOUS
    <3> HIDE DEF gone, used
    <3>2. old \in [Ids -> Objects] /\ IsFiniteSet(used) /\ left = Changed(gone, old)
      BY <1>1, <1>2, <1>3, <3>1
    <3>3. /\ left \in [Ids -> Objects]
          /\ \A i \in Ids : left[i] = IF i \in used THEN gone[i] ELSE old[i]
      BY <2>1, <2>2, <3>2, ChangedIs
    <3> QED
      BY <3>1, <3>3
  <2> QED
    BY <2>3
<1> DEFINE new == [i \in paid |-> [left[i] EXCEPT !.unpaid = FALSE]]
<1>5. PICK objs : objs = Changed(new, left)
  OBVIOUS
<1>6. /\ objs \in [Ids -> Objects]
      /\ \A i \in Ids : objs[i] = IF OnBill(g, i) # 0 THEN [left[i] EXCEPT !.unpaid = FALSE]
                                  ELSE left[i]
  <2>1. new \in [paid -> Objects]
    BY <1>4 DEF Objects
  <2>2. paid \in SUBSET Ids
    OBVIOUS
  <2>3. /\ objs \in [Ids -> Objects]
        /\ \A i \in Ids : objs[i] = IF i \in paid THEN new[i] ELSE left[i]
    <3> HIDE DEF new, paid
    <3> QED
      BY <1>2, <1>4, <1>5, <2>1, <2>2, ChangedIs
  <2> QED
    BY <2>3
<1>7. PICK h : h = setpaid(g)
  OBVIOUS
<1>8. PICK s : s = [g EXCEPT !.obj = left]
  OBVIOUS
<1>9. s \in Worlds /\ s.shop = g.shop /\ s.obj = left /\ s.hero = g.hero /\ s.wrong = g.wrong
  BY <1>1, <1>4, <1>8 DEF Worlds
<1>10. h = [s EXCEPT !.obj = objs, !.shop.bill = <<>>, !.shop.credit = 0,
                     !.shop.debit = 0, !.shop.loan = 0]
  <2>1. s = [g EXCEPT !.obj = Changed(gone, @)]
    BY <1>3, <1>8
  <2>2. objs = Changed([i \in paid |-> [left[i] EXCEPT !.unpaid = FALSE]], left)
    BY <1>5
  <2>4. Box \in Ids
    BY DEF Ids
  <2>3. h = [s EXCEPT
               !.obj = Changed([i \in paid |-> [@[i] EXCEPT !.unpaid = FALSE]], @),
               !.shop.bill = <<>>, !.shop.credit = 0, !.shop.debit = 0, !.shop.loan = 0]
    <3>1. \A i \in Ids : ~Floating(g, i)
      BY <2>4 DEF Floating, NoneFloats
    <3>2. paid = {i \in Ids : OnBill(g, i) # 0 /\ ~Floating(g, i)}
      BY <3>1
    <3> HIDE DEF paid
    <3> QED
      BY <1>7, <1>9, <2>1, <3>2, Zenon DEF setpaid
  <2> HIDE DEF paid
  <2> QED
    BY <1>9, <2>2, <2>3
<1>11. <<>> \in Seq(Entries)
  OBVIOUS
<1>12. h \in Worlds /\ h.obj = objs /\ h.hero = g.hero /\ h.wrong = g.wrong
       /\ h.shop = [g.shop EXCEPT !.bill = <<>>, !.credit = 0, !.debit = 0, !.loan = 0]
  BY <1>1, <1>6, <1>9, <1>10, <1>11 DEF Worlds, Shops
<1>13. ASSUME NEW i \in Ids
       PROVE  /\ ~objs[i].unpaid /\ objs[i].where # "billed"
              /\ Here(g.obj[i]) => /\ objs[i].where = g.obj[i].where
                                   /\ objs[i].quan = g.obj[i].quan
                                   /\ objs[i].kind = g.obj[i].kind
                                   /\ objs[i].no_charge = g.obj[i].no_charge
              /\ ~Here(g.obj[i]) => ~Here(objs[i])
  <2>1. OnBill(g, i) = 0 => ~g.obj[i].unpaid
    BY OnBillGood
  <2>2. left[i] = IF g.obj[i].where = "billed" THEN Nothing ELSE g.obj[i]
    BY <1>4
  <2>3. objs[i] = IF OnBill(g, i) # 0 THEN [left[i] EXCEPT !.unpaid = FALSE] ELSE left[i]
    BY <1>6
  <2>4. g.obj[i] \in Objects
    BY <1>1
  <2>5. CASE g.obj[i].where = "billed"
    <3>1. objs[i].where = "none" /\ objs[i].unpaid = FALSE
      BY <2>2, <2>3, <2>5 DEF Nothing
    <3> QED
      BY <2>5, <3>1 DEF Here
  <2>6. CASE g.obj[i].where # "billed"
    <3>1. objs[i] = IF OnBill(g, i) # 0 THEN [g.obj[i] EXCEPT !.unpaid = FALSE] ELSE g.obj[i]
      BY <2>2, <2>3, <2>6
    <3> QED
      BY <2>1, <2>4, <2>6, <3>1 DEF Objects, Here
  <2> QED
    BY <2>5, <2>6
<1>14. Stays(g, h)
  BY <1>1, <1>12 DEF Stays, Shops
<1>15. Like(g, h)
  BY <1>12, <1>13 DEF Like
<1>16. h.shop.bill = <<>> /\ h.shop.loan = 0 /\ h.shop.debit = 0
  BY <1>1, <1>12 DEF Shops
<1>17. Agree(h.shop.bill, h.obj) /\ Priced(h.shop.bill, h.shop.surcharge)
  <2>1. Len(h.shop.bill) = 0
    BY <1>16
  <2>2. \A k \in 1..Len(h.shop.bill) : FALSE
    BY <2>1
  <2> QED
    BY <1>12, <1>13, <2>2 DEF Agree, Priced
<1>18. Len(h.shop.bill) <= BILLSZ
  BY <1>16 DEF ShopConstants
<1>7a. \A i \in Ids : Here(h.obj[i]) => h.obj[i].quan > 0
  <2> TAKE i \in Ids
  <2>1. Here(g.obj[i]) => g.obj[i].quan > 0
    BY DEF Good
  <2> QED
    BY <1>12, <1>13, <2>1
<1>20. Good(h)
  BY <1>12, <1>16, <1>17, <1>18, <1>7a DEF Good
<1> QED
  BY <1>7, <1>12, <1>13, <1>14, <1>15, <1>20

------------------------------------------------------------------------------
(* The player comes and goes, the shopkeeper is angry or not.               *)

\* Nothing gets unpaid, and what is the player's remains so.
Meek(g, h) ==
  \A i \in Ids : Here(h.obj[i]) =>
    /\ h.obj[i].unpaid => g.obj[i].unpaid
    /\ g.obj[i].no_charge => h.obj[i].no_charge

Keeps(g, h) == Stays(g, h) /\ Like(g, h) /\ Meek(g, h)

LEMMA KeepsTwice ==
  ASSUME NEW f, NEW g, NEW h, Keeps(f, g), Keeps(g, h)
  PROVE  Keeps(f, h)
<1>1. Stays(f, h) /\ Like(f, h)
  BY LikeTwice DEF Keeps
<1>2. Meek(f, h)
  <2> SUFFICES ASSUME NEW i \in Ids, Here(h.obj[i])
               PROVE  /\ h.obj[i].unpaid => f.obj[i].unpaid
                      /\ f.obj[i].no_charge => h.obj[i].no_charge
    BY DEF Meek
  <2>1. Here(g.obj[i])
    BY DEF Keeps, Like
  <2> QED
    BY <2>1 DEF Keeps, Meek
<1> QED
  BY <1>1, <1>2 DEF Keeps

LEMMA KeepsSame ==
  ASSUME NEW g, NEW h, h.obj = g.obj, Stays(g, h)
  PROVE  Keeps(g, h)
BY DEF Keeps, Like, Meek

LEMMA MoodyKeeps ==
  ASSUME NEW g, NEW h, Moody(g, h)
  PROVE  Keeps(g, h) /\ Mild(g, h)
BY MoodyIsMild, KeepsSame DEF Moody, Mild

LEMMA PaysKeeps ==
  ASSUME NEW g, NEW h, Pays(g, h)
  PROVE  Keeps(g, h) /\ Mild(g, h)
BY KeepsSame, SameBillSelf DEF Pays, Mild

\* What can be found, apart from S, is where it was, is unpaid only if it was, and is
\* the player's if it was.
Eased(g, h, S) ==
  \A i \in Ids : i \notin S /\ Here(h.obj[i]) =>
    /\ h.obj[i].where = g.obj[i].where
    /\ h.obj[i].unpaid => g.obj[i].unpaid
    /\ g.obj[i].no_charge => h.obj[i].no_charge

LEMMA EasedTwice ==
  ASSUME NEW f, NEW g, NEW h, NEW S, NEW T, NEW R, S \subseteq R, T \subseteq R,
         Eased(f, g, S), Eased(g, h, T)
  PROVE  Eased(f, h, R)
<1> SUFFICES ASSUME NEW i \in Ids, i \notin R, Here(h.obj[i])
             PROVE  /\ h.obj[i].where = f.obj[i].where
                    /\ h.obj[i].unpaid => f.obj[i].unpaid
                    /\ f.obj[i].no_charge => h.obj[i].no_charge
  BY DEF Eased
<1>1. /\ h.obj[i].where = g.obj[i].where
      /\ h.obj[i].unpaid => g.obj[i].unpaid
      /\ g.obj[i].no_charge => h.obj[i].no_charge
  BY DEF Eased
<1>2. /\ g.obj[i].where = f.obj[i].where
      /\ g.obj[i].unpaid => f.obj[i].unpaid
      /\ f.obj[i].no_charge => g.obj[i].no_charge
  BY <1>1 DEF Eased, Here
<1> QED
  BY <1>1, <1>2

LEMMA KeepsEases ==
  ASSUME NEW g, NEW h, Keeps(g, h), NEW S
  PROVE  Eased(g, h, S)
BY DEF Keeps, Like, Meek, Eased

LEMMA SameEases ==
  ASSUME NEW g, NEW h, h.obj = g.obj, NEW S
  PROVE  Eased(g, h, S)
BY DEF Eased

\* The shopkeeper's accounts change, the bill and the objects do not.
LEMMA AccountIs ==
  ASSUME NEW g, Good(g), NEW h, h \in Worlds, h.obj = g.obj,
         h.shop.bill = g.shop.bill, h.shop.surcharge = g.shop.surcharge,
         h.shop.loan <= h.shop.debit
  PROVE  Good(h)
BY DEF Good

\* The shop is robbed of what is on the bill.
LEMMA RobShop ==
  ASSUME ShopConstants, NEW g, Good(g), ~g.shop.bill_inactive, NoneFloats(g)
  PROVE  LET h == rob_shop(g)
         IN /\ Good(h) /\ Keeps(g, h) /\ h.hero = g.hero
            /\ h.shop.bill = <<>> /\ h.shop.debit = 0
<1>1. PICK p : p = setpaid(g)
  OBVIOUS
<1>2. /\ Good(p) /\ Stays(g, p) /\ Like(g, p) /\ p.hero = g.hero
      /\ p.shop = [g.shop EXCEPT !.bill = <<>>, !.credit = 0, !.debit = 0, !.loan = 0]
      /\ \A i \in Ids : /\ ~p.obj[i].unpaid
                        /\ Here(g.obj[i]) => p.obj[i].no_charge = g.obj[i].no_charge
  BY <1>1, SetpaidIs
<1>3. Keeps(g, p)
  BY <1>2 DEF Keeps, Meek, Like
<1>4. p \in Worlds /\ p.shop.bill = <<>> /\ p.shop.debit = 0 /\ p.shop.loan = 0
      /\ p.shop.robbed = g.shop.robbed /\ p.shop.bill \in Seq(Entries)
  BY <1>2, GoodIs DEF Good, Worlds, Shops
<1>5. PICK due : due = Due(g.shop.bill) + g.shop.debit - g.shop.credit
  OBVIOUS
<1>6. due \in Int
  BY <1>5, GoodIs, DueIs
<1>7. CASE due <= 0
  BY <1>1, <1>2, <1>3, <1>4, <1>5, <1>7 DEF rob_shop
<1>8. CASE ~(due <= 0)
  <2>1. PICK debt : debt = p.shop.robbed + due
    OBVIOUS
  <2>2. debt \in Nat
    BY <1>2, <1>6, <1>8, <2>1, GoodIs
  <2>3. PICK q : q = [p EXCEPT !.shop.robbed = debt]
    OBVIOUS
  <2>4. q \in Worlds
    BY <1>4, <2>2, <2>3 DEF Worlds, Shops
  <2>5. /\ q.obj = p.obj /\ q.hero = p.hero
        /\ q.shop.bill = <<>> /\ q.shop.surcharge = p.shop.surcharge
        /\ q.shop.loan = 0 /\ q.shop.debit = 0
        /\ q.shop.at = p.shop.at /\ q.shop.bill_inactive = p.shop.bill_inactive
    BY <1>4, <2>3 DEF Worlds, Shops
  <2>6. Good(q)
    <3>1. q.shop.bill = p.shop.bill /\ q.shop.loan <= q.shop.debit
      BY <1>4, <2>5
    <3> QED
      BY <1>2, <2>4, <2>5, <3>1, AccountIs
  <2>7. Keeps(p, q)
    BY <2>5, KeepsSame DEF Stays
  <2>8. PICK h : h = hot_pursuit(q)
    OBVIOUS
  <2>9. Good(h) /\ Moody(q, h)
    BY <2>6, <2>8, Pursuit
  <2>10. Keeps(g, h)
    BY <1>3, <2>7, <2>9, MoodyKeeps, KeepsTwice
  <2>11. h = rob_shop(g)
    BY <1>1, <1>5, <1>8, <2>1, <2>3, <2>8 DEF rob_shop
  <2>12. h.shop.bill = <<>> /\ h.shop.debit = 0 /\ h.hero = g.hero
    <3>1. h.shop.bill \in Seq(Entries)
      BY <2>9, GoodIs
    <3>2. Len(h.shop.bill) = 0
      BY <2>5, <2>9 DEF Moody, SameBill
    <3> QED
      BY <1>2, <2>5, <2>9, <3>1, <3>2 DEF Moody
  <2> QED
    BY <2>9, <2>10, <2>11, <2>12
<1> QED
  BY <1>6, <1>7, <1>8

\* A player who is out of a shop whose owner is there leaves nothing on the bill.
LEMMA LeftShop ==
  ASSUME ShopConstants, NEW g, Good(g), g.shop.bill_inactive => g.shop.at # "home",
         NoneFloats(g)
  PROVE  LET h == u_left_shop(g)
         IN /\ Good(h) /\ Keeps(g, h) /\ h.hero = g.hero
            /\ g.shop.at = "home" => h.shop.bill = <<>> /\ h.shop.debit = 0
            /\ g.shop.bill = <<>> => h.shop.bill = <<>>
            /\ g.shop.debit = 0 => h.shop.debit = 0
<1>1. PICK s : s = Keeper(g)
  OBVIOUS
<1>2. Good(s) /\ Moody(g, s) /\ Keeps(g, s)
  BY <1>1, KeeperIs, MoodyKeeps
<1>3. s.shop.at = g.shop.at /\ s.shop.bill_inactive = g.shop.bill_inactive
      /\ s.hero = g.hero /\ s.shop.debit = g.shop.debit
  BY <1>2 DEF Moody
<1>4. g.shop.bill = <<>> => s.shop.bill = <<>>
  <2>1. g.shop.bill \in Seq(Entries) /\ s.shop.bill \in Seq(Entries)
    BY <1>2, GoodIs
  <2> QED
    BY <1>2, <2>1 DEF Moody, SameBill
<1>5. PICK h : h = u_left_shop(g)
  OBVIOUS
<1>6. CASE ~AtHome(s) \/ Settled(s)
  <2>1. h = s
    BY <1>1, <1>5, <1>6 DEF u_left_shop
  <2> QED
    BY <1>2, <1>3, <1>4, <1>5, <1>6, <2>1 DEF AtHome, Settled
<1>7. CASE ~(~AtHome(s) \/ Settled(s))
  <2>1. h = rob_shop(s)
    BY <1>1, <1>5, <1>7 DEF u_left_shop
  <2>2. ~s.shop.bill_inactive
    BY <1>3, <1>7 DEF AtHome
  <2>4. NoneFloats(s)
    BY <1>2 DEF Moody, NoneFloats
  <2>3. /\ Good(h) /\ Keeps(s, h) /\ h.hero = s.hero
        /\ h.shop.bill = <<>> /\ h.shop.debit = 0
    BY <1>2, <2>1, <2>2, <2>4, RobShop
  <2> QED
    BY <1>2, <1>3, <1>5, <2>3, KeepsTwice
<1> QED
  BY <1>6, <1>7

\* A player comes to a square of the shop, or the shopkeeper does: the place of
\* the hero stays, and nothing is on the bill of a shop that was left.
LEMMA EnteredShop ==
  ASSUME ShopConstants, NEW g, Good(g), ~g.hero.ushops,
         g.shop.bill = <<>>, g.shop.debit = 0,
         g.shop.bill_inactive => g.shop.at # "home"
  PROVE  LET h == u_entered_shop(g)
         IN /\ Fine(h) /\ h.hero.place = g.hero.place /\ h.obj = g.obj
            /\ h.shop.at = g.shop.at
<1>1. PICK h : h = u_entered_shop(g)
  OBVIOUS
<1>2. CASE g.shop.at = "dead"
  <2>1. h = [g EXCEPT !.hero.ushops = FALSE]
    BY <1>1, <1>2 DEF u_entered_shop
  <2>2. h \in Worlds /\ h.shop = g.shop /\ h.obj = g.obj /\ h.hero.ushops = FALSE
        /\ h.hero.place = g.hero.place
    BY <2>1 DEF Good, Worlds, Heroes
  <2>3. Good(h)
    BY <2>2 DEF Good
  <2> QED
    BY <1>1, <1>2, <2>2, <2>3 DEF Fine, Owing, Resident
<1>3. CASE g.shop.at # "dead"
  <2>1. PICK s : s = Keeper(g)
    OBVIOUS
  <2>2. Good(s) /\ Moody(g, s)
    BY <2>1, KeeperIs
  <2>3. s.shop.bill = <<>> /\ s.shop.debit = 0
    <3>1. s.shop.bill \in Seq(Entries)
      BY <2>2, GoodIs
    <3>2. Len(s.shop.bill) = 0
      BY <2>2 DEF Moody, SameBill
    <3> QED
      BY <2>2, <3>1, <3>2 DEF Moody
  <2>4. h = [s EXCEPT !.shop.bill_inactive = (g.shop.at = "away"),
                      !.hero.ushops = (g.shop.at = "home")]
    BY <1>1, <1>3, <2>1 DEF u_entered_shop
  <2>5. s \in Worlds
    BY <2>2 DEF Good
  <2>6. h \in Worlds
    BY <2>4, <2>5 DEF Worlds, Shops, Heroes
  <2>7. /\ h.obj = s.obj /\ h.shop.bill = s.shop.bill /\ h.shop.surcharge = s.shop.surcharge
        /\ h.shop.loan = s.shop.loan /\ h.shop.debit = s.shop.debit /\ h.shop.at = s.shop.at
        /\ h.hero.place = s.hero.place /\ h.hero.ushops = (g.shop.at = "home")
        /\ h.shop.bill_inactive = (g.shop.at = "away")
    BY <2>4, <2>5 DEF Worlds, Shops, Heroes
  <2>8. Good(h)
    <3>1. s.shop.loan <= s.shop.debit
      BY <2>2 DEF Good
    <3> QED
      BY <2>2, <2>6, <2>7, <3>1, AccountIs
  <2>9. s.shop.at = g.shop.at /\ s.obj = g.obj /\ s.hero = g.hero
    BY <2>2 DEF Moody
  <2>10. Owing(h)
    BY <2>3, <2>7, <2>9 DEF Owing, Resident
  <2> QED
    BY <1>1, <2>7, <2>8, <2>9, <2>10 DEF Fine
<1> QED
  BY <1>2, <1>3

LEMMA SpecialRoom ==
  ASSUME ShopConstants, NEW g, Fine(g)
  PROVE  LET h == check_special_room(g)
         IN /\ Fine(h) /\ h.hero.place = g.hero.place /\ h.obj = g.obj
            /\ h.shop.at = g.shop.at
            /\ h.hero.ushops => g.hero.ushops \/ g.hero.place # "out"
<1>1. CASE g.hero.place = "out"
  BY <1>1 DEF check_special_room
<1>2. CASE g.hero.place # "out" /\ g.hero.ushops
  <2>1. Good(Keeper(g)) /\ Moody(g, Keeper(g))
    BY KeeperIs DEF Fine
  <2>2. Fine(Keeper(g))
    BY <2>1, MoodyIsFine
  <2> QED
    BY <1>2, <2>1, <2>2 DEF check_special_room, Moody
<1>3. CASE g.hero.place # "out" /\ ~g.hero.ushops
  <2>1. g.shop.bill = <<>> /\ g.shop.debit = 0 /\ (g.shop.bill_inactive => g.shop.at # "home")
    BY <1>3 DEF Fine, Owing, Resident
  <2>2. /\ Fine(u_entered_shop(g)) /\ u_entered_shop(g).hero.place = g.hero.place
        /\ u_entered_shop(g).obj = g.obj /\ u_entered_shop(g).shop.at = g.shop.at
    BY <1>3, <2>1, EnteredShop DEF Fine
  <2> QED
    BY <1>3, <2>2 DEF check_special_room
<1> QED
  BY <1>1, <1>2, <1>3

\* The shopkeeper is at home again.
LEMMA HomeAgain ==
  ASSUME ShopConstants, NEW g, Fine(g), g.shop.at # "home"
  PROVE  LET h == ComesHome(g)
         IN /\ Fine(h) /\ h.hero.place = g.hero.place /\ h.obj = g.obj
            /\ h.hero.ushops => g.hero.ushops \/ g.hero.place # "out"
<1>1. g \in Worlds /\ g.shop.loan <= g.shop.debit /\ g.shop.bill_inactive \in BOOLEAN
  BY GoodIs DEF Fine, Good
<1>2. g.shop.bill = <<>> /\ g.shop.debit = 0
  BY DEF Fine, Owing, Resident
<1>3. PICK h : h = [g EXCEPT !.shop.at = "home"]
  OBVIOUS
<1>4. PICK r : r = [h EXCEPT !.shop.bill_inactive = FALSE]
  OBVIOUS
<1>5. h \in Worlds /\ r \in Worlds
  BY <1>1, <1>3, <1>4 DEF Worlds, Shops
<1>6. /\ h.obj = g.obj /\ h.hero = g.hero /\ r.obj = g.obj /\ r.hero = g.hero
      /\ h.shop.bill = g.shop.bill /\ r.shop.bill = g.shop.bill
      /\ h.shop.surcharge = g.shop.surcharge /\ r.shop.surcharge = g.shop.surcharge
      /\ h.shop.loan = g.shop.loan /\ h.shop.debit = g.shop.debit
      /\ r.shop.loan = g.shop.loan /\ r.shop.debit = g.shop.debit
      /\ h.shop.bill_inactive = g.shop.bill_inactive /\ r.shop.bill_inactive = FALSE
  BY <1>1, <1>3, <1>4 DEF Worlds, Shops
<1>7. Good(h) /\ Good(r)
  <2>1. Good(g) /\ h.shop.loan <= h.shop.debit /\ r.shop.loan <= r.shop.debit
    BY <1>1, <1>6 DEF Fine
  <2>2. Good(h)
    BY <1>5, <1>6, <2>1, AccountIs
  <2>3. Good(r)
    BY <1>5, <1>6, <2>1, AccountIs
  <2> QED
    BY <2>2, <2>3
<1>8. Fine(r)
  BY <1>2, <1>6, <1>7 DEF Fine, Owing
<1>9. CASE ~g.shop.bill_inactive
  <2>1. ComesHome(g) = h
    BY <1>3, <1>9 DEF ComesHome
  <2>2. Fine(h)
    BY <1>2, <1>6, <1>7, <1>9 DEF Fine, Owing
  <2> QED
    BY <1>6, <2>1, <2>2
<1>10. CASE g.shop.bill_inactive
  <2>1. ComesHome(g) = check_special_room(r)
    BY <1>3, <1>4, <1>10 DEF ComesHome
  <2>2. /\ Fine(check_special_room(r)) /\ check_special_room(r).hero.place = r.hero.place
        /\ check_special_room(r).obj = r.obj
        /\ check_special_room(r).hero.ushops => r.hero.ushops \/ r.hero.place # "out"
    BY <1>8, SpecialRoom
  <2> QED
    BY <1>6, <2>1, <2>2
<1> QED
  BY <1>9, <1>10

LEMMA MakeHappy ==
  ASSUME ShopConstants, NEW g, Fine(g)
  PROVE  LET h == make_happy_shk(g)
         IN /\ Fine(h) /\ h.hero.place = g.hero.place /\ h.obj = g.obj
            /\ h.hero.ushops => g.hero.ushops \/ g.hero.place # "out"
<1>1. PICK p : p = pacify_shk(g)
  OBVIOUS
<1>2. Good(p) /\ Moody(g, p) /\ Fine(p)
  <2>1. Good(p) /\ Moody(g, p)
    BY <1>1, Pacify DEF Fine
  <2> QED
    BY <2>1, MoodyIsFine
<1>3. PICK q : q = [p EXCEPT !.shop.following = FALSE, !.shop.robbed = 0]
  OBVIOUS
<1>4. p \in Worlds /\ p.shop.loan <= p.shop.debit
  BY <1>2 DEF Good
<1>5. /\ q \in Worlds /\ q.obj = p.obj /\ q.hero = p.hero /\ q.shop.bill = p.shop.bill
      /\ q.shop.surcharge = p.shop.surcharge /\ q.shop.loan = p.shop.loan
      /\ q.shop.debit = p.shop.debit /\ q.shop.at = p.shop.at
      /\ q.shop.bill_inactive = p.shop.bill_inactive
  BY <1>3, <1>4 DEF Worlds, Shops
<1>6. Good(q)
  <2>1. q.shop.loan <= q.shop.debit
    BY <1>4, <1>5
  <2> QED
    BY <1>2, <1>5, <2>1, AccountIs
<1>7. Fine(q)
  BY <1>2, <1>5, <1>6 DEF Fine, Owing, Resident
<1>8. make_happy_shk(g) = IF AtHome(q) THEN q ELSE ComesHome(q)
  BY <1>1, <1>3 DEF make_happy_shk
<1>9. q.obj = g.obj /\ q.hero = g.hero
  BY <1>2, <1>5 DEF Moody
<1>10. CASE AtHome(q)
  BY <1>7, <1>8, <1>9, <1>10
<1>11. CASE ~AtHome(q)
  <2>1. q.shop.at # "home"
    BY <1>11 DEF AtHome
  <2>2. /\ Fine(ComesHome(q)) /\ ComesHome(q).hero.place = q.hero.place
        /\ ComesHome(q).obj = q.obj
        /\ ComesHome(q).hero.ushops => q.hero.ushops \/ q.hero.place # "out"
    BY <1>7, <2>1, HomeAgain
  <2> QED
    BY <1>8, <1>9, <1>11, <2>2
<1> QED
  BY <1>10, <1>11

\* Whoever angers the shopkeeper has robbed the shop.
LEMMA MakeAngry ==
  ASSUME ShopConstants, NEW g, Good(g), ~g.shop.bill_inactive, NoneFloats(g)
  PROVE  LET h == make_angry_shk(g)
         IN /\ Good(h) /\ Keeps(g, h) /\ h.hero = g.hero
            /\ h.shop.bill = <<>> /\ h.shop.debit = 0
<1>1. PICK p : p = setpaid(g)
  OBVIOUS
<1>2. /\ Good(p) /\ Stays(g, p) /\ Like(g, p) /\ p.hero = g.hero
      /\ p.shop = [g.shop EXCEPT !.bill = <<>>, !.credit = 0, !.debit = 0, !.loan = 0]
      /\ \A i \in Ids : /\ ~p.obj[i].unpaid
                        /\ Here(g.obj[i]) => p.obj[i].no_charge = g.obj[i].no_charge
  BY <1>1, SetpaidIs
<1>3. Keeps(g, p)
  BY <1>2 DEF Keeps, Meek, Like
<1>4. p \in Worlds /\ p.shop.bill = <<>> /\ p.shop.debit = 0 /\ p.shop.loan = 0
  BY <1>2, GoodIs DEF Good, Worlds, Shops
<1>5. PICK left : left = g.shop.robbed + (Due(g.shop.bill) + g.shop.debit + g.shop.loan)
                           - g.shop.credit
  OBVIOUS
<1>6. PICK debt : debt = IF left < 0 THEN 0 ELSE left
  OBVIOUS
<1>7. debt \in Nat
  <2>1. Due(g.shop.bill) \in Nat
    BY GoodIs, DueIs
  <2> QED
    BY <1>5, <1>6, <2>1, GoodIs
<1>8. PICK paid : paid = [p EXCEPT !.shop.robbed = debt]
  OBVIOUS
<1>9. PICK q : q = IF g.shop.bill = <<>> /\ g.shop.debit = 0 /\ g.shop.loan = 0
                      /\ g.shop.credit = 0
                   THEN g ELSE paid
  OBVIOUS
<1>10. make_angry_shk(g) = hot_pursuit(q)
  BY <1>1, <1>5, <1>6, <1>8, <1>9 DEF make_angry_shk
<1>11. Good(q) /\ Keeps(g, q) /\ q.hero = g.hero /\ q.shop.bill = <<>> /\ q.shop.debit = 0
  <2>1. CASE q = g
    <3>1. Stays(g, g)
      BY DEF Stays
    <3>2. Keeps(g, g)
      BY <3>1, KeepsSame
    <3>3. CASE g.shop.bill = <<>> /\ g.shop.debit = 0
      BY <2>1, <3>2, <3>3
    <3>4. CASE ~(g.shop.bill = <<>> /\ g.shop.debit = 0)
      <4>1. q = paid
        BY <1>9, <3>4
      <4>2. paid.shop.bill = <<>> /\ paid.shop.debit = 0
        BY <1>4, <1>8 DEF Worlds, Shops
      <4> QED
        BY <2>1, <3>4, <4>1, <4>2
    <3> QED
      BY <3>3, <3>4
  <2>2. CASE q = paid
    <3>1. paid \in Worlds
      BY <1>4, <1>7, <1>8 DEF Worlds, Shops
    <3>2. /\ paid.obj = p.obj /\ paid.hero = p.hero
          /\ paid.shop.bill = p.shop.bill /\ paid.shop.surcharge = p.shop.surcharge
          /\ paid.shop.loan = 0 /\ paid.shop.debit = 0
          /\ paid.shop.at = p.shop.at /\ paid.shop.bill_inactive = p.shop.bill_inactive
      BY <1>4, <1>8 DEF Worlds, Shops
    <3>3. paid.shop.loan <= paid.shop.debit
      BY <3>2
    <3>4. Good(paid)
      BY <1>2, <3>1, <3>2, <3>3, AccountIs
    <3>5. Keeps(p, paid)
      BY <3>2, KeepsSame DEF Stays
    <3>6. Keeps(g, paid)
      BY <1>3, <3>5, KeepsTwice
    <3> QED
      BY <1>2, <1>4, <2>2, <3>2, <3>4, <3>6
  <2> QED
    BY <1>9, <2>1, <2>2
<1>12. PICK h : h = hot_pursuit(q)
  OBVIOUS
<1>13. Good(h) /\ Moody(q, h)
  BY <1>11, <1>12, Pursuit
<1>14. Keeps(g, h)
  BY <1>11, <1>13, MoodyKeeps, KeepsTwice
<1>15. h.shop.bill = <<>> /\ h.shop.debit = 0 /\ h.hero = g.hero
  <2>1. h.shop.bill \in Seq(Entries)
    BY <1>13, GoodIs
  <2>2. Len(h.shop.bill) = 0
    BY <1>11, <1>13 DEF Moody, SameBill
  <2> QED
    BY <1>11, <1>13, <2>1, <2>2 DEF Moody
<1> QED
  BY <1>10, <1>12, <1>13, <1>14, <1>15

\* Gold that is picked up is lent; gold that is put down pays debts.
LEMMA CostlyGold ==
  ASSUME NEW g, Fine(g), NEW n \in Nat, Resident(g)
  PROVE  LET h == costly_gold(g, n)
         IN Fine(h) /\ Pays(g, h)
<1>1. PICK c : c = check_credit(g, n)
  OBVIOUS
<1>2. Good(g)
  BY DEF Fine
<1>3. /\ c.due \in Nat /\ Good(c.g) /\ Pays(g, c.g)
      /\ c.g.shop.debit = g.shop.debit /\ c.g.shop.loan = g.shop.loan
  BY <1>1, <1>2, CreditIs
<1>4. PICK debit : debit = c.g.shop.debit + c.due
  OBVIOUS
<1>5. PICK loan : loan = c.g.shop.loan + c.due
  OBVIOUS
<1>6. debit \in Nat /\ loan \in Nat /\ loan <= debit /\ c.g \in Worlds
  <2>1. c.g.shop.debit \in Nat /\ c.g.shop.loan \in Nat /\ c.g.shop.loan <= c.g.shop.debit
    BY <1>3, GoodIs
  <2>2. c.g \in Worlds
    BY <1>3 DEF Good
  <2> QED
    BY <1>3, <1>4, <1>5, <2>1, <2>2
<1>7. PICK h : h = [c.g EXCEPT !.shop.debit = debit, !.shop.loan = loan]
  OBVIOUS
<1>8. h = costly_gold(g, n)
  BY <1>1, <1>4, <1>5, <1>7 DEF costly_gold
<1>9. h \in Worlds
  BY <1>6, <1>7 DEF Worlds, Shops
<1>10. /\ h.obj = c.g.obj /\ h.wrong = c.g.wrong /\ h.hero = c.g.hero
       /\ h.shop.bill = c.g.shop.bill /\ h.shop.surcharge = c.g.shop.surcharge
       /\ h.shop.angry = c.g.shop.angry /\ h.shop.at = c.g.shop.at
       /\ h.shop.bill_inactive = c.g.shop.bill_inactive
       /\ h.shop.debit = debit /\ h.shop.loan = loan
  BY <1>6, <1>7 DEF Worlds, Shops
<1>11. Pays(c.g, h)
  BY <1>10 DEF Pays, Stays
<1>12. Good(h)
  <2>1. h.shop.loan <= h.shop.debit
    BY <1>6, <1>10
  <2> QED
    BY <1>3, <1>9, <1>11, <2>1, PaysIsGood
<1>13. Pays(g, h)
  BY <1>3, <1>11, PaysTwice
<1>14. Fine(h)
  BY <1>12, <1>13, PaysIsFine
<1> QED
  BY <1>8, <1>13, <1>14

LEMMA SellGold ==
  ASSUME ShopConstants, NEW g, Fine(g), NEW n \in Nat
  PROVE  LET h == sellgold(g, n)
         IN Fine(h) /\ Keeps(g, h) /\ h.obj = g.obj
<1>1. PICK s : s = Keeper(g)
  OBVIOUS
<1>2. Good(s) /\ Moody(g, s) /\ Fine(s)
  <2>1. Good(s) /\ Moody(g, s)
    BY <1>1, KeeperIs DEF Fine
  <2> QED
    BY <2>1, MoodyIsFine
<1>3. /\ s \in Worlds /\ s.shop.debit \in Nat /\ s.shop.loan \in Nat /\ s.shop.credit \in Nat
      /\ s.shop.robbed \in Nat /\ s.shop.loan <= s.shop.debit
  BY <1>2, GoodIs DEF Good
<1>4. PICK h : h = sellgold(g, n)
  OBVIOUS
<1> DEFINE Is(debit, loan, credit, robbed) ==
             [s EXCEPT !.shop.debit = debit, !.shop.loan = loan, !.shop.credit = credit,
                       !.shop.robbed = robbed]
           Ok(debit, loan, credit, robbed) ==
             /\ loan <= debit /\ debit <= s.shop.debit
             /\ h = Is(debit, loan, credit, robbed)
<1>5. \E debit, loan, credit, robbed \in Nat : Ok(debit, loan, credit, robbed)
  <2>1. CASE s.shop.angry
    <3>1. h = s
      BY <1>1, <1>4, <2>1 DEF sellgold
    <3>2. s = Is(s.shop.debit, s.shop.loan, s.shop.credit, s.shop.robbed)
      BY <1>3 DEF Worlds, Shops
    <3>9. Ok(s.shop.debit, s.shop.loan, s.shop.credit, s.shop.robbed)
      BY <1>3, <3>1, <3>2
    <3> HIDE DEF Ok
    <3> QED
      BY <1>3, <3>9
  <2>2. CASE ~s.shop.angry /\ s.shop.robbed > 0
    <3>1. h = [s EXCEPT !.shop.robbed = 0]
      BY <1>1, <1>4, <2>2 DEF sellgold
    <3>2. h = Is(s.shop.debit, s.shop.loan, s.shop.credit, 0)
      BY <1>3, <3>1 DEF Worlds, Shops
    <3>9. Ok(s.shop.debit, s.shop.loan, s.shop.credit, 0)
      BY <1>3, <3>2
    <3> HIDE DEF Ok
    <3> QED
      BY <1>3, <3>9
  <2>3. CASE ~s.shop.angry /\ ~(s.shop.robbed > 0) /\ n <= s.shop.debit
    <3>1. h = [s EXCEPT !.shop.debit = @ - n, !.shop.loan = IF @ >= n THEN @ - n ELSE 0]
      BY <1>1, <1>4, <2>3 DEF sellgold
    <3>2. PICK debit : debit = s.shop.debit - n
      OBVIOUS
    <3>3. PICK loan : loan = IF s.shop.loan >= n THEN s.shop.loan - n ELSE 0
      OBVIOUS
    <3>4. debit \in Nat /\ loan \in Nat /\ loan <= debit /\ debit <= s.shop.debit
      BY <1>3, <2>3, <3>2, <3>3
    <3>5. h = [s EXCEPT !.shop.debit = debit, !.shop.loan = loan]
      BY <3>1, <3>2, <3>3
    <3>6. h = Is(debit, loan, s.shop.credit, s.shop.robbed)
      BY <1>3, <3>5 DEF Worlds, Shops
    <3>9. Ok(debit, loan, s.shop.credit, s.shop.robbed)
      BY <1>3, <3>4, <3>6
    <3> HIDE DEF Ok
    <3> QED
      BY <1>3, <3>4, <3>9
  <2>4. CASE ~s.shop.angry /\ ~(s.shop.robbed > 0) /\ ~(n <= s.shop.debit)
    <3>1. h = [s EXCEPT !.shop.debit = 0, !.shop.credit = @ + n - s.shop.debit,
                        !.shop.loan = IF s.shop.debit > 0 THEN 0 ELSE @]
      BY <1>1, <1>4, <2>4 DEF sellgold
    <3>2. PICK credit : credit = s.shop.credit + n - s.shop.debit
      OBVIOUS
    <3>3. credit \in Nat
      BY <1>3, <2>4, <3>2
    <3>4. (IF s.shop.debit > 0 THEN 0 ELSE s.shop.loan) = 0
      BY <1>3
    <3>5. h = [s EXCEPT !.shop.debit = 0, !.shop.credit = credit, !.shop.loan = 0]
      BY <3>1, <3>2, <3>4
    <3>6. h = Is(0, 0, credit, s.shop.robbed)
      BY <1>3, <3>5 DEF Worlds, Shops
    <3>9. Ok(0, 0, credit, s.shop.robbed)
      BY <1>3, <3>3, <3>6
    <3> HIDE DEF Ok
    <3> QED
      BY <1>3, <3>3, <3>9
  <2> QED
    BY <2>1, <2>2, <2>3, <2>4
<1>6. PICK debit, loan, credit, robbed \in Nat : Ok(debit, loan, credit, robbed)
  <2> HIDE DEF Ok
  <2> QED
    BY <1>5
<1>7. /\ h \in Worlds /\ h.obj = s.obj /\ h.wrong = s.wrong /\ h.hero = s.hero
      /\ h.shop.bill = s.shop.bill /\ h.shop.surcharge = s.shop.surcharge
      /\ h.shop.angry = s.shop.angry /\ h.shop.at = s.shop.at
      /\ h.shop.bill_inactive = s.shop.bill_inactive
      /\ h.shop.debit = debit /\ h.shop.loan = loan
  BY <1>3, <1>6 DEF Worlds, Shops
<1>8. Pays(s, h)
  BY <1>7 DEF Pays, Stays
<1>9. Good(h)
  <2>1. h.shop.loan <= h.shop.debit
    BY <1>6, <1>7
  <2> QED
    BY <1>2, <1>7, <1>8, <2>1, PaysIsGood
<1>10. ~Resident(s) => h.shop.debit = 0
  <2>1. ~Resident(s) => s.shop.debit = 0
    BY <1>2 DEF Fine, Owing
  <2> QED
    BY <1>3, <1>6, <1>7, <2>1
<1>11. Fine(h)
  BY <1>2, <1>8, <1>9, <1>10, PaysIsFine
<1>12. Keeps(g, h)
  BY <1>2, <1>8, MoodyKeeps, PaysKeeps, KeepsTwice
<1> QED
  BY <1>2, <1>4, <1>7, <1>11, <1>12 DEF Moody

------------------------------------------------------------------------------
(* Entries come and go.                                                     *)

\* As many as there were, in the same place and as unpaid.
Same(p, q) == p.quan = q.quan /\ p.where = q.where /\ p.unpaid = q.unpaid

\* An entry is replaced by one for the same object, or for one the bill has not.
LEMMA AgreeReplaced ==
  ASSUME NEW b \in Seq(Entries), NEW objs, Agree(b, objs), NEW k \in 1..Len(b),
         NEW e \in Entries, NEW others,
         \A i \in Ids : i # e.id /\ i # b[k].id => Same(others[i], objs[i]),
         IsFor(e, others[e.id]),
         e.id # b[k].id => /\ \A j \in 1..Len(b) : b[j].id # e.id
                           /\ ~others[b[k].id].unpaid /\ others[b[k].id].where # "billed"
  PROVE  /\ Agree([b EXCEPT ![k] = e], others)
         /\ [b EXCEPT ![k] = e] \in Seq(Entries) /\ Len([b EXCEPT ![k] = e]) = Len(b)
         /\ \A j \in 1..Len(b) : [b EXCEPT ![k] = e][j] = IF j = k THEN e ELSE b[j]
<1>1. PICK c : c = [b EXCEPT ![k] = e]
  OBVIOUS
<1>2. /\ c \in Seq(Entries) /\ Len(c) = Len(b)
      /\ \A j \in 1..Len(b) : c[j] = IF j = k THEN e ELSE b[j]
  BY <1>1, ExceptSeq
<1>3. \A j \in 1..Len(b) : b[j].id \in Ids
  BY BillIs
<1>4. /\ \A i, j \in 1..Len(b) : b[i].id = b[j].id => i = j
      /\ \A j \in 1..Len(b) : IsFor(b[j], objs[b[j].id])
      /\ \A i \in Ids : objs[i].unpaid \/ objs[i].where = "billed" =>
           \E j \in 1..Len(b) : b[j].id = i
  BY DEF Agree
<1>5. \A j \in 1..Len(b) : j # k => b[j].id # e.id /\ b[j].id # b[k].id
  BY <1>4
<1>6. \A i, j \in 1..Len(c) : c[i].id = c[j].id => i = j
  BY <1>2, <1>4, <1>5
<1>7. \A j \in 1..Len(c) : IsFor(c[j], others[c[j].id])
  <2> TAKE j \in 1..Len(c)
  <2>1. CASE j = k
    BY <1>2, <2>1
  <2>2. CASE j # k
    <3>1. c[j] = b[j] /\ IsFor(b[j], objs[b[j].id]) /\ Same(others[b[j].id], objs[b[j].id])
      BY <1>2, <1>3, <1>4, <1>5, <2>2
    <3> QED
      BY <3>1 DEF IsFor, Here, Same
  <2> QED
    BY <2>1, <2>2
<1>8. \A i \in Ids : others[i].unpaid \/ others[i].where = "billed" =>
        \E j \in 1..Len(c) : c[j].id = i
  <2> SUFFICES ASSUME NEW i \in Ids, others[i].unpaid \/ others[i].where = "billed"
               PROVE  \E j \in 1..Len(c) : c[j].id = i
    OBVIOUS
  <2>1. CASE i = e.id
    BY <1>2, <2>1
  <2>2. CASE i # e.id
    <3>1. i # b[k].id
      BY <2>2
    <3>2. PICK j \in 1..Len(b) : b[j].id = i
      BY <1>4, <2>2, <3>1 DEF Same
    <3>3. j # k /\ c[j] = b[j]
      BY <1>2, <3>1, <3>2
    <3> QED
      BY <1>2, <3>2, <3>3
  <2> QED
    BY <2>1, <2>2
<1> QED
  BY <1>1, <1>2, <1>6, <1>7, <1>8 DEF Agree

\* An entry is taken off, for an object that is paid or gone.
LEMMA AgreeWithout ==
  ASSUME NEW b \in Seq(Entries), NEW objs, Agree(b, objs), NEW k \in 1..Len(b), NEW others,
         \A i \in Ids : i # b[k].id => Same(others[i], objs[i]),
         ~others[b[k].id].unpaid /\ others[b[k].id].where # "billed"
  PROVE  /\ Agree(Without(b, k), others)
         /\ \A i \in Ids : (\E j \in 1..Len(Without(b, k)) : Without(b, k)[j].id = i)
                              <=> i # b[k].id /\ \E j \in 1..Len(b) : b[j].id = i
<1>1. PICK c : c = Without(b, k)
  OBVIOUS
<1>2. /\ c \in Seq(Entries) /\ Len(c) = Len(b) - 1 /\ Len(b) \in Nat /\ Len(b) - 1 \in Nat
      /\ \A j \in 1..(Len(b) - 1) : c[j] = IF j = k THEN b[Len(b)] ELSE b[j]
  BY <1>1, WithoutIs
<1>3. PICK from : from = [j \in 1..Len(c) |-> IF j = k THEN Len(b) ELSE j]
  OBVIOUS
<1>4. \A j \in 1..Len(c) : /\ from[j] \in 1..Len(b) /\ from[j] # k /\ c[j] = b[from[j]]
                           /\ \A i \in 1..Len(c) : from[i] = from[j] => i = j
  BY <1>2, <1>3
<1>5. \A j \in 1..Len(b) : j # k => \E i \in 1..Len(c) : from[i] = j
  <2> SUFFICES ASSUME NEW j \in 1..Len(b), j # k PROVE \E i \in 1..Len(c) : from[i] = j
    OBVIOUS
  <2>1. CASE j = Len(b)
    <3>1. k \in 1..Len(c)
      BY <1>2, <2>1
    <3> QED
      BY <1>3, <2>1, <3>1
  <2>2. CASE j # Len(b)
    <3>1. j \in 1..Len(c)
      BY <1>2, <2>2
    <3> QED
      BY <1>3, <3>1
  <2> QED
    BY <2>1, <2>2
<1>6. \A j \in 1..Len(b) : b[j].id \in Ids
  BY BillIs
<1>7. /\ \A i, j \in 1..Len(b) : b[i].id = b[j].id => i = j
      /\ \A j \in 1..Len(b) : IsFor(b[j], objs[b[j].id])
      /\ \A i \in Ids : objs[i].unpaid \/ objs[i].where = "billed" =>
           \E j \in 1..Len(b) : b[j].id = i
  BY DEF Agree
<1>8. \A i, j \in 1..Len(c) : c[i].id = c[j].id => i = j
  <2> TAKE i, j \in 1..Len(c)
  <2> HAVE c[i].id = c[j].id
  <2>1. c[i] = b[from[i]] /\ c[j] = b[from[j]] /\ from[i] \in 1..Len(b) /\ from[j] \in 1..Len(b)
    BY <1>4
  <2>2. from[i] = from[j]
    BY <1>7, <2>1
  <2> QED
    BY <1>4, <2>2
<1>9. \A j \in 1..Len(c) : IsFor(c[j], others[c[j].id])
  <2> TAKE j \in 1..Len(c)
  <2>1. from[j] \in 1..Len(b) /\ from[j] # k /\ c[j] = b[from[j]]
    BY <1>4
  <2>2. IsFor(b[from[j]], objs[b[from[j]].id]) /\ b[from[j]].id # b[k].id
    BY <1>7, <2>1
  <2>3. Same(others[b[from[j]].id], objs[b[from[j]].id])
    BY <1>6, <2>1, <2>2
  <2> QED
    BY <2>1, <2>2, <2>3 DEF IsFor, Here, Same
<1>10. \A i \in Ids : (\E j \in 1..Len(c) : c[j].id = i)
                        <=> i # b[k].id /\ \E j \in 1..Len(b) : b[j].id = i
  <2> TAKE i \in Ids
  <2>1. ASSUME NEW j \in 1..Len(c), c[j].id = i
        PROVE  i # b[k].id /\ \E l \in 1..Len(b) : b[l].id = i
    BY <1>4, <1>7, <2>1
  <2>2. ASSUME i # b[k].id, NEW j \in 1..Len(b), b[j].id = i
        PROVE  \E l \in 1..Len(c) : c[l].id = i
    <3>1. PICK l \in 1..Len(c) : from[l] = j
      BY <1>5, <2>2
    <3> QED
      BY <1>4, <2>2, <3>1
  <2> QED
    BY <2>1, <2>2
<1>11. \A i \in Ids : others[i].unpaid \/ others[i].where = "billed" =>
         \E j \in 1..Len(c) : c[j].id = i
  <2> SUFFICES ASSUME NEW i \in Ids, others[i].unpaid \/ others[i].where = "billed"
               PROVE  \E j \in 1..Len(c) : c[j].id = i
    OBVIOUS
  <2>1. i # b[k].id
    OBVIOUS
  <2>2. Same(others[i], objs[i])
    BY <2>1
  <2>3. \E j \in 1..Len(b) : b[j].id = i
    BY <1>7, <2>2 DEF Same
  <2> QED
    BY <1>10, <2>1, <2>3
<1> QED
  BY <1>1, <1>8, <1>9, <1>10, <1>11 DEF Agree

\* An entry is added, for an object that the bill has not.
LEMMA AgreeAppended ==
  ASSUME NEW b \in Seq(Entries), NEW objs, Agree(b, objs), NEW e \in Entries, NEW others,
         \A i \in Ids : i # e.id => Same(others[i], objs[i]),
         \A j \in 1..Len(b) : b[j].id # e.id, IsFor(e, others[e.id])
  PROVE  /\ Agree(Append(b, e), others) /\ Append(b, e) \in Seq(Entries)
         /\ Len(Append(b, e)) = Len(b) + 1 /\ Append(b, e)[Len(b) + 1] = e
         /\ \A j \in 1..Len(b) : Append(b, e)[j] = b[j]
<1>1. PICK c : c = Append(b, e)
  OBVIOUS
<1>2. /\ c \in Seq(Entries) /\ Len(c) = Len(b) + 1 /\ Len(b) \in Nat /\ c[Len(b) + 1] = e
      /\ \A j \in 1..Len(b) : c[j] = b[j]
  BY <1>1, AppendProperties
<1>3. \A j \in 1..Len(c) : j = Len(b) + 1 \/ j \in 1..Len(b)
  BY <1>2
<1>4. \A j \in 1..Len(b) : b[j].id \in Ids /\ j \in 1..Len(c)
  BY <1>2, BillIs
<1>5. /\ \A i, j \in 1..Len(b) : b[i].id = b[j].id => i = j
      /\ \A j \in 1..Len(b) : IsFor(b[j], objs[b[j].id])
      /\ \A i \in Ids : objs[i].unpaid \/ objs[i].where = "billed" =>
           \E j \in 1..Len(b) : b[j].id = i
  BY DEF Agree
<1>6. \A i, j \in 1..Len(c) : c[i].id = c[j].id => i = j
  BY <1>2, <1>3, <1>5
<1>7. \A j \in 1..Len(c) : IsFor(c[j], others[c[j].id])
  <2> TAKE j \in 1..Len(c)
  <2>1. CASE j = Len(b) + 1
    BY <1>2, <2>1
  <2>2. CASE j \in 1..Len(b)
    <3>1. c[j] = b[j] /\ IsFor(b[j], objs[b[j].id]) /\ Same(others[b[j].id], objs[b[j].id])
      BY <1>2, <1>4, <1>5, <2>2
    <3> QED
      BY <3>1 DEF IsFor, Here, Same
  <2> QED
    BY <1>3, <2>1, <2>2
<1>8. \A i \in Ids : others[i].unpaid \/ others[i].where = "billed" =>
        \E j \in 1..Len(c) : c[j].id = i
  <2> SUFFICES ASSUME NEW i \in Ids, others[i].unpaid \/ others[i].where = "billed"
               PROVE  \E j \in 1..Len(c) : c[j].id = i
    OBVIOUS
  <2>1. CASE i = e.id
    <3>1. Len(b) + 1 \in 1..Len(c)
      BY <1>2
    <3> QED
      BY <1>2, <2>1, <3>1
  <2>2. CASE i # e.id
    <3>1. PICK j \in 1..Len(b) : b[j].id = i
      BY <1>5, <2>2 DEF Same
    <3> QED
      BY <1>2, <1>4, <3>1
  <2> QED
    BY <2>1, <2>2
<1> QED
  BY <1>1, <1>2, <1>6, <1>7, <1>8 DEF Agree

------------------------------------------------------------------------------
(* Goods that go back.                                                      *)

\* onbill complains of nothing: that is for goods that are used up.
LEMMA CheckedIs ==
  ASSUME NEW g, Good(g), ~g.shop.bill_inactive, NEW o \in Ids, Here(g.obj[o])
  PROVE  Checked(g, o) = g
<1>1. OnBill(g, o) # 0 => g.obj[o].unpaid
  BY OnBillGood
<1>2. OnBill(g, o) = 0 => ~g.obj[o].unpaid
  BY OnBillGood
<1>3. ~(OnBill(g, o) # 0 /\ ~g.obj[o].unpaid) /\ ~(OnBill(g, o) = 0 /\ g.obj[o].unpaid)
  BY <1>1, <1>2
<1> QED
  BY <1>3 DEF Checked

\* Nothing but the bill and the objects changes.
Books(g, h) ==
  /\ h.hero = g.hero /\ h.wrong = g.wrong
  /\ h.shop.at = g.shop.at /\ h.shop.bill_inactive = g.shop.bill_inactive
  /\ h.shop.credit = g.shop.credit /\ h.shop.debit = g.shop.debit
  /\ h.shop.loan = g.shop.loan /\ h.shop.robbed = g.shop.robbed
  /\ h.shop.till = g.shop.till /\ h.shop.gold = g.shop.gold
  /\ h.shop.surcharge = g.shop.surcharge /\ h.shop.angry = g.shop.angry

NewBooks(g, h, b, objs) == h = [g EXCEPT !.shop.bill = b, !.obj = objs]

LEMMA NewBooksAre ==
  ASSUME NEW g \in Worlds, NEW b \in Seq(Entries), NEW objs \in [Ids -> Objects],
         NEW h, NewBooks(g, h, b, objs)
  PROVE  h \in Worlds /\ Books(g, h) /\ h.obj = objs /\ h.shop.bill = b
<1>1. /\ h \in Worlds /\ h.obj = objs /\ h.shop = [g.shop EXCEPT !.bill = b]
      /\ h.hero = g.hero /\ h.wrong = g.wrong
  BY DEF NewBooks, Worlds, Shops
<1> QED
  BY <1>1 DEF Books, Worlds, Shops

NewBill(g, h, b) == h = [g EXCEPT !.shop.bill = b]

LEMMA NewBillIs ==
  ASSUME NEW g \in Worlds, NEW b \in Seq(Entries), NEW h, NewBill(g, h, b)
  PROVE  h \in Worlds /\ Books(g, h) /\ h.obj = g.obj /\ h.shop.bill = b
<1>1. /\ h \in Worlds /\ h.obj = g.obj /\ h.shop = [g.shop EXCEPT !.bill = b]
      /\ h.hero = g.hero /\ h.wrong = g.wrong
  BY DEF NewBill, Worlds, Shops
<1> QED
  BY <1>1 DEF Books, Worlds, Shops

LEMMA BooksAreGood ==
  ASSUME NEW g, g.shop.loan <= g.shop.debit, NEW h \in Worlds, Books(g, h),
         Len(h.shop.bill) <= BILLSZ, Priced(h.shop.bill, g.shop.surcharge),
         Agree(h.shop.bill, h.obj), \A i \in Ids : Here(h.obj[i]) => h.obj[i].quan > 0
  PROVE  Good(h) /\ Stays(g, h)
BY DEF Good, Books, Stays

\* A world that is good with another bill, and other objects.
LEMMA NewBillIsGood ==
  ASSUME NEW g \in Worlds, g.shop.loan <= g.shop.debit,
         NEW b \in Seq(Entries), NEW objs \in [Ids -> Objects], Len(b) <= BILLSZ, Priced(b, g.shop.surcharge), Agree(b, objs),
         \A i \in Ids : Here(objs[i]) => objs[i].quan > 0,
         NEW h, NewBooks(g, h, b, objs)
  PROVE  Good(h) /\ Books(g, h) /\ Stays(g, h) /\ h.obj = objs /\ h.shop.bill = b
<1>1. h \in Worlds /\ Books(g, h) /\ h.obj = objs /\ h.shop.bill = b
  BY NewBooksAre
<1> QED
  BY <1>1, BooksAreGood

\* A number that is not used yet is not on the bill.
LEMMA FreshIs ==
  ASSUME NEW g, Good(g), Unused(g) # {}
  PROVE  /\ Fresh(g) \in Unused(g) /\ Fresh(g) \in Ids /\ Fresh(g) # Box
         /\ g.obj[Fresh(g)].where = "none" /\ ~g.obj[Fresh(g)].unpaid
         /\ \A k \in 1..Len(g.shop.bill) : g.shop.bill[k].id # Fresh(g)
<1>1. Fresh(g) \in Unused(g)
  BY DEF Fresh
<1>2. Fresh(g) \in Ids /\ Fresh(g) # Box /\ g.obj[Fresh(g)].where = "none"
  BY <1>1 DEF Unused
<1>3. \A k \in 1..Len(g.shop.bill) : g.shop.bill[k].id # Fresh(g)
  <2> SUFFICES ASSUME NEW k \in 1..Len(g.shop.bill), g.shop.bill[k].id = Fresh(g)
               PROVE  FALSE
    OBVIOUS
  <2>1. IsFor(g.shop.bill[k], g.obj[Fresh(g)])
    BY DEF Good, Agree
  <2> QED
    BY <1>2, <2>1 DEF IsFor, Here
<1>4. ~g.obj[Fresh(g)].unpaid
  BY <1>2, <1>3 DEF Good, Agree
<1> QED
  BY <1>1, <1>2, <1>3, <1>4

\* The other operators over finite sets of numbers.
LEMMA RoomIs ==
  ASSUME ShopConstants, NEW g
  PROVE  /\ Unused(g) \in SUBSET Ids /\ Partial(g) \in SUBSET Ids
         /\ IsFiniteSet(Unused(g)) /\ IsFiniteSet(Partial(g))
         /\ Cardinality(Unused(g)) \in Nat /\ Cardinality(Partial(g)) \in Nat
<1>1. Unused(g) \in SUBSET Ids /\ Partial(g) \in SUBSET Ids
  BY DEF Unused, Partial
<1> QED
  BY <1>1, IdsFinite, FS_CardinalityType

LEMMA RoomLeft ==
  ASSUME ShopConstants, NEW g, NEW n \in Nat, Room(g, n), n > 0 \/ Partial(g) # {}
  PROVE  Unused(g) # {}
<1>1. Cardinality(Partial(g)) = 0 <=> Partial(g) = {}
  BY RoomIs, FS_EmptySet
<1>2. Cardinality(Unused(g)) # 0
  BY <1>1, RoomIs DEF Room
<1> QED
  BY <1>2, FS_EmptySet

\* What goods that go back leave: there is still room for n objects.
Returned(g, h, n) ==
  /\ Good(h) /\ Keeps(g, h) /\ Books(g, h) /\ Room(h, n)
  /\ g.shop.bill = <<>> => h.shop.bill = <<>>
  /\ Len(h.shop.bill) <= Len(g.shop.bill)
  /\ \A i \in Ids : Here(g.obj[i]) => h.obj[i].no_charge = g.obj[i].no_charge

\* One that is paid, or goes back: what was used up of it stays on the bill.
LEMMA SubOne ==
  ASSUME ShopConstants, NEW g, Good(g), ~g.shop.bill_inactive, NEW o \in Ids,
         Here(g.obj[o]), NEW n \in Nat, Room(g, n)
  PROVE  Returned(g, sub_one_frombill(g, o), n) /\ ~sub_one_frombill(g, o).obj[o].unpaid
<1>1. g \in Worlds /\ g.obj \in [Ids -> Objects] /\ g.shop.bill \in Seq(Entries)
  BY GoodIs DEF Good, Worlds
<1>2. PICK k : k = OnBill(g, o)
  OBVIOUS
<1>3. PICK h : h = sub_one_frombill(g, o)
  OBVIOUS
<1>4. PICK paid : paid = [g.obj EXCEPT ![o] = [g.obj[o] EXCEPT !.unpaid = FALSE]]
  OBVIOUS
<1>5. /\ paid \in [Ids -> Objects]
      /\ paid[o].quan = g.obj[o].quan /\ paid[o].where = g.obj[o].where
      /\ paid[o].kind = g.obj[o].kind /\ paid[o].no_charge = g.obj[o].no_charge
      /\ paid[o].unpaid = FALSE
      /\ \A i \in Ids : i # o => paid[i] = g.obj[i]
  <2>1. g.obj[o] \in Objects
    BY <1>1
  <2>2. [g.obj[o] EXCEPT !.unpaid = FALSE] \in Objects
    BY <2>1 DEF Objects
  <2> QED
    BY <1>1, <1>4, <2>1, <2>2 DEF Objects
<1>6. [g EXCEPT !.obj[o].unpaid = FALSE] = [g EXCEPT !.obj = paid]
  BY <1>4
<1>7. PICK used : used = g.shop.bill[k].bquan - g.obj[o].quan
  OBVIOUS
<1>8. PICK p : p = [g EXCEPT !.obj = paid]
  OBVIOUS
<1>9. p \in Worlds /\ p.obj = paid /\ p.shop = g.shop /\ p.hero = g.hero /\ p.wrong = g.wrong
  BY <1>1, <1>5, <1>8 DEF Worlds
<1>10. Checked(g, o) = g
  BY CheckedIs
<1>11. h = IF k = 0 THEN p
           ELSE IF used > 0
           THEN [p EXCEPT
                   !.shop.bill[k] = [@ EXCEPT !.id = Fresh(g), !.bquan = used, !.useup = TRUE],
                   !.obj[Fresh(g)] = [p.obj[o] EXCEPT !.quan = used, !.where = "billed"]]
           ELSE [p EXCEPT !.shop.bill = Without(@, k)]
  <2>1. [Checked(g, o) EXCEPT !.obj[o].unpaid = FALSE] = p
    BY <1>6, <1>8, <1>10
  <2> QED
    <3>1. h = Off(p, o, k, Fresh(g))
      BY <1>2, <1>3, <2>1 DEF sub_one_frombill
    <3>2. p.shop.bill[k].bquan - p.obj[o].quan = used
      BY <1>5, <1>7, <1>9
    <3>3. h = IF k = 0 THEN p
              ELSE IF p.shop.bill[k].bquan - p.obj[o].quan > 0
              THEN [p EXCEPT
                      !.shop.bill[k] = [@ EXCEPT !.id = Fresh(g),
                                          !.bquan = p.shop.bill[k].bquan - p.obj[o].quan,
                                          !.useup = TRUE],
                      !.obj[Fresh(g)] = [p.obj[o] EXCEPT
                                           !.quan = p.shop.bill[k].bquan - p.obj[o].quan,
                                           !.where = "billed"]]
              ELSE [p EXCEPT !.shop.bill = Without(@, k)]
      BY <3>1, Zenon DEF Off
    <3> QED
      BY <3>2, <3>3
<1>12. \A i \in Ids : Here(g.obj[i]) => g.obj[i].quan > 0
  BY DEF Good
<1>13. \A i \in Ids : Here(paid[i]) => paid[i].quan > 0
  BY <1>5, <1>12 DEF Here
<1>14. ASSUME k = 0 PROVE Returned(g, h, n) /\ ~h.obj[o].unpaid
  <2>1. ~g.obj[o].unpaid
    BY <1>2, <1>14, OnBillGood
  <2>2. h = p
    BY <1>11, <1>14
  <2>3. \A i \in Ids : /\ h.obj[i].where = g.obj[i].where /\ h.obj[i].quan = g.obj[i].quan
                       /\ h.obj[i].kind = g.obj[i].kind
    BY <1>5, <1>9, <2>2
  <2>4. \A i \in Ids : h.obj[i].unpaid = g.obj[i].unpaid
    BY <1>5, <1>9, <2>1, <2>2, GoodIs
  <2>5. Mild(g, h)
    BY <1>9, <2>2, <2>3, SameBillSelf DEF Mild, Stays
  <2>6. Good(h)
    <3>1. Priced(h.shop.bill, h.shop.surcharge) /\ h.shop.loan <= h.shop.debit
      BY <1>9, <2>2 DEF Good
    <3> QED
      BY <1>9, <2>2, <2>4, <2>5, <3>1, MildIsGood
  <2>7. Room(h, n)
    BY <2>5, <2>6, MildRoom DEF Room
  <2>8. Keeps(g, h)
    <3>1. Meek(g, h)
      BY <1>5, <1>9, <2>2, <2>4 DEF Meek
    <3> QED
      BY <2>5, <3>1, MildIsLike DEF Keeps
  <2>9. Books(g, h)
    BY <1>8, <1>9, <2>2 DEF Books
  <2>10. Len(h.shop.bill) <= Len(g.shop.bill)
    BY <1>9, <2>2, GoodIs
  <2> QED
    BY <1>5, <1>9, <2>2, <2>6, <2>7, <2>8, <2>9, <2>10 DEF Returned
<1>15. ASSUME k # 0
       PROVE  /\ k \in 1..Len(g.shop.bill) /\ g.shop.bill[k].id = o
              /\ IsFor(g.shop.bill[k], g.obj[o]) /\ used \in Nat
              /\ g.shop.bill # <<>> /\ g.shop.bill[k] \in Entries /\ g.obj[o].quan > 0
              /\ g.shop.bill[k].bquan \in Nat
  <2>1. /\ k \in 1..Len(g.shop.bill) /\ g.shop.bill[k].id = o
        /\ IsFor(g.shop.bill[k], g.obj[o])
    BY <1>2, <1>15, OnBillGood
  <2>2. g.shop.bill[k] \in Entries /\ g.shop.bill[k].bquan \in Nat /\ g.obj[o].quan \in Nat
    BY <1>1, <2>1, BillIs, GoodIs
  <2>3. g.shop.bill # <<>>
    BY <1>1, <2>1
  <2> QED
    BY <1>7, <2>1, <2>2, <2>3 DEF IsFor
<1>16. ASSUME k # 0, used > 0 PROVE Returned(g, h, n) /\ ~h.obj[o].unpaid
  <2>1. o \in Partial(g)
    BY <1>1, <1>7, <1>15, <1>16, BillIs, GoodIs DEF Partial
  <2>2. PICK m : m = Fresh(g)
    OBVIOUS
  <2>3. /\ m \in Unused(g) /\ m \in Ids /\ g.obj[m].where = "none" /\ ~g.obj[m].unpaid
        /\ \A j \in 1..Len(g.shop.bill) : g.shop.bill[j].id # m
    <3>1. Unused(g) # {}
      BY <2>1, RoomLeft
    <3> QED
      BY <2>2, <3>1, FreshIs
  <2>4. m # o
    BY <2>3 DEF Here
  <2>5. PICK e : e = [g.shop.bill[k] EXCEPT !.id = m, !.bquan = used, !.useup = TRUE]
    OBVIOUS
  <2>6. /\ e \in Entries /\ e.id = m /\ e.bquan = used /\ e.useup = TRUE
        /\ e.price = g.shop.bill[k].price
    <3>1. used \in Nat \ {0} /\ g.shop.bill[k] \in Entries
      BY <1>15, <1>16
    <3> QED
      BY <2>3, <2>5, <3>1 DEF Entries
  <2>7. PICK new : new = [paid[o] EXCEPT !.quan = used, !.where = "billed"]
    OBVIOUS
  <2>8. new \in Objects /\ new.quan = used /\ new.where = "billed"
    <3>1. paid[o] \in Objects
      BY <1>5
    <3> QED
      BY <1>15, <1>16, <2>7, <3>1 DEF Objects
  <2>9. PICK objs : objs = [paid EXCEPT ![m] = new]
    OBVIOUS
  <2>10. /\ objs \in [Ids -> Objects] /\ objs[m] = new
         /\ \A i \in Ids : i # m => objs[i] = paid[i]
    BY <1>5, <2>3, <2>8, <2>9
  <2>11. PICK b : b = [g.shop.bill EXCEPT ![k] = e]
    OBVIOUS
  <2>12. h = [g EXCEPT !.shop.bill = b, !.obj = objs]
    <3>1. h = [p EXCEPT !.shop.bill[k] = [g.shop.bill[k] EXCEPT !.id = m, !.bquan = used,
                                                                !.useup = TRUE],
                        !.obj[m] = [paid[o] EXCEPT !.quan = used, !.where = "billed"]]
      BY <1>9, <1>11, <1>16, <2>2
    <3>2. h = [p EXCEPT !.shop.bill[k] = e, !.obj[m] = new]
      BY <2>5, <2>7, <3>1
    <3>3. h = [p EXCEPT !.shop.bill = b, !.obj = objs]
      BY <1>9, <2>9, <2>11, <3>2
    <3> QED
      BY <1>8, <3>3
  <2>13. \A i \in Ids : i # e.id /\ i # g.shop.bill[k].id => Same(objs[i], g.obj[i])
    BY <1>5, <1>15, <1>16, <2>6, <2>10 DEF Same
  <2>14. /\ Agree(b, objs) /\ b \in Seq(Entries) /\ Len(b) = Len(g.shop.bill)
         /\ \A j \in 1..Len(g.shop.bill) : b[j] = IF j = k THEN e ELSE g.shop.bill[j]
    <3>1. IsFor(e, objs[e.id])
      BY <1>15, <1>16, <2>6, <2>8, <2>10 DEF IsFor
    <3>2. ~objs[o].unpaid /\ objs[o].where # "billed"
      BY <1>5, <2>4, <2>10 DEF Here
    <3>3. Agree(g.shop.bill, g.obj) /\ g.shop.bill[k].id = o /\ k \in 1..Len(g.shop.bill)
      BY <1>15, <1>16 DEF Good
    <3>4. PICK old, was : old = g.shop.bill /\ was = g.obj
      OBVIOUS
    <3>5. old \in Seq(Entries) /\ Agree(old, was) /\ k \in 1..Len(old) /\ e \in Entries
      BY <1>1, <2>6, <3>3, <3>4
    <3>6. \A i \in Ids : i # e.id /\ i # old[k].id => Same(objs[i], was[i])
      BY <2>13, <3>4
    <3>7. e.id # old[k].id => /\ \A j \in 1..Len(old) : old[j].id # e.id
                              /\ ~objs[old[k].id].unpaid /\ objs[old[k].id].where # "billed"
      BY <2>3, <2>6, <3>2, <3>3, <3>4
    <3>8. /\ Agree([old EXCEPT ![k] = e], objs) /\ [old EXCEPT ![k] = e] \in Seq(Entries)
          /\ Len([old EXCEPT ![k] = e]) = Len(old)
          /\ \A j \in 1..Len(old) : [old EXCEPT ![k] = e][j] = IF j = k THEN e ELSE old[j]
      BY <3>1, <3>5, <3>6, <3>7, AgreeReplaced
    <3> QED
      BY <2>11, <3>4, <3>8
  <2>15. Priced(b, g.shop.surcharge) /\ Len(b) <= BILLSZ
    <3>1. Priced(g.shop.bill, g.shop.surcharge) /\ Len(g.shop.bill) <= BILLSZ
      BY DEF Good
    <3> QED
      BY <1>15, <1>16, <2>6, <2>14, <3>1 DEF Priced
  <2>16. \A i \in Ids : Here(objs[i]) => objs[i].quan > 0
    BY <1>13, <2>8, <2>10 DEF Here
  <2>17. Good(h) /\ Books(g, h) /\ Stays(g, h) /\ h.obj = objs /\ h.shop.bill = b
    <3>1. b \in Seq(Entries) /\ Agree(b, objs) /\ objs \in [Ids -> Objects]
      BY <2>10, <2>14
    <3>2. NewBooks(g, h, b, objs)
      BY <2>12 DEF NewBooks
    <3>3. g \in Worlds /\ g.shop.loan <= g.shop.debit
      BY DEF Good
    <3> QED
      BY <2>15, <2>16, <3>1, <3>2, <3>3, NewBillIsGood
  <2>18. Like(g, h)
    <3> SUFFICES ASSUME NEW i \in Ids
                 PROVE  IF Here(g.obj[i])
                        THEN /\ h.obj[i].where = g.obj[i].where /\ h.obj[i].quan = g.obj[i].quan
                             /\ h.obj[i].kind = g.obj[i].kind
                        ELSE ~Here(h.obj[i])
      BY DEF Like
    <3>1. CASE i = m
      BY <2>3, <2>8, <2>10, <2>17, <3>1 DEF Here
    <3>2. CASE i # m
      BY <1>5, <2>10, <2>17, <3>2
    <3> QED
      BY <3>1, <3>2
  <2>19. Meek(g, h)
    BY <1>5, <2>8, <2>10, <2>17 DEF Meek, Here
  <2>20. Room(h, n)
    <3>1. Unused(h) = Unused(g) \ {m}
      <4>1. \A i \in Ids : h.obj[i].where = "none" <=> g.obj[i].where = "none" /\ i # m
        BY <1>5, <2>8, <2>10, <2>17
      <4> QED
        BY <4>1 DEF Unused
    <3>2. Partial(h) \subseteq Partial(g) \ {o}
      <4> SUFFICES ASSUME NEW i \in Partial(h) PROVE i \in Partial(g) /\ i # o
        OBVIOUS
      <4>1. DOMAIN b = 1..Len(g.shop.bill) /\ DOMAIN g.shop.bill = 1..Len(g.shop.bill)
        BY <1>1, <2>14, BillIs
      <4>2. PICK j \in 1..Len(g.shop.bill) : b[j].id = i /\ b[j].bquan > objs[i].quan
        BY <2>17, <4>1 DEF Partial
      <4>3. j # k
        BY <1>15, <1>16, <2>6, <2>8, <2>10, <2>14, <4>2
      <4>4. g.shop.bill[j].id = i /\ g.shop.bill[j].bquan > objs[i].quan
        BY <2>14, <4>2, <4>3
      <4>5. i # o /\ i # m
        BY <1>15, <1>16, <2>3, <4>3, <4>4 DEF Good, Agree
      <4>6. objs[i].quan = g.obj[i].quan /\ i \in Ids
        <5>1. i \in Ids
          BY DEF Partial
        <5> QED
          BY <1>5, <2>10, <4>5, <5>1
      <4> QED
        BY <4>1, <4>4, <4>5, <4>6 DEF Partial
    <3>3. Cardinality(Unused(h)) = Cardinality(Unused(g)) - 1
      BY <2>3, <3>1, RoomIs, FS_RemoveElement
    <3>4. Cardinality(Partial(g) \ {o}) = Cardinality(Partial(g)) - 1
          /\ IsFiniteSet(Partial(g) \ {o})
      BY <2>1, RoomIs, FS_RemoveElement
    <3>5. Cardinality(Partial(h)) <= Cardinality(Partial(g) \ {o})
      BY <3>2, <3>4, FS_Subset
    <3>6. Cardinality(Unused(g)) >= n + Cardinality(Partial(g))
      BY DEF Room
    <3>7. Cardinality(Partial(h)) \in Nat
      BY RoomIs
    <3> QED
      BY <3>3, <3>4, <3>5, <3>6, <3>7, RoomIs DEF Room
  <2>21. \A i \in Ids : Here(g.obj[i]) /\ i # o => h.obj[i] = g.obj[i]
    BY <1>5, <2>3, <2>10, <2>17 DEF Here
  <2>22. ~h.obj[o].unpaid /\ h.obj[o].no_charge = g.obj[o].no_charge
    BY <1>5, <2>4, <2>10, <2>17
  <2>23. g.shop.bill # <<>> /\ Len(h.shop.bill) <= Len(g.shop.bill)
    <3>1. Len(b) = Len(g.shop.bill) /\ Len(g.shop.bill) \in Nat
      BY <2>14, GoodIs
    <3> QED
      BY <1>15, <1>16, <2>17, <3>1
  <2>24. Keeps(g, h)
    BY <2>17, <2>18, <2>19 DEF Keeps
  <2> QED
    BY <2>17, <2>20, <2>21, <2>22, <2>23, <2>24 DEF Returned
<1>17. ASSUME k # 0, ~(used > 0) PROVE Returned(g, h, n) /\ ~h.obj[o].unpaid
  <2>1. PICK b : b = Without(g.shop.bill, k)
    OBVIOUS
  <2>2. h = [g EXCEPT !.shop.bill = b, !.obj = paid]
    <3>1. h = [p EXCEPT !.shop.bill = b]
      BY <1>9, <1>11, <1>17, <2>1
    <3> QED
      BY <1>8, <3>1
  <2>3. /\ b \in Seq(Entries) /\ Len(b) = Len(g.shop.bill) - 1
        /\ \A j \in 1..(Len(g.shop.bill) - 1) :
             b[j] = IF j = k THEN g.shop.bill[Len(g.shop.bill)] ELSE g.shop.bill[j]
        /\ Len(g.shop.bill) \in Nat /\ Len(g.shop.bill) - 1 \in Nat
    BY <1>1, <1>15, <1>17, <2>1, WithoutIs
  <2>4. \A j \in 1..Len(b) : \E l \in 1..Len(g.shop.bill) : l # k /\ b[j] = g.shop.bill[l]
    <3> TAKE j \in 1..Len(b)
    <3>1. j \in 1..Len(g.shop.bill) /\ j # Len(g.shop.bill)
          /\ Len(g.shop.bill) \in 1..Len(g.shop.bill)
      BY <2>3
    <3>2. CASE j = k
      BY <2>3, <3>1, <3>2
    <3>3. CASE j # k
      BY <2>3, <3>1, <3>3
    <3> QED
      BY <3>2, <3>3
  <2>5. Agree(b, paid)
    <3>1. Agree(g.shop.bill, g.obj)
      BY DEF Good
    <3>2. \A i \in Ids : i # g.shop.bill[k].id => Same(paid[i], g.obj[i])
      BY <1>5, <1>15, <1>17 DEF Same
    <3>3. ~paid[g.shop.bill[k].id].unpaid /\ paid[g.shop.bill[k].id].where # "billed"
      BY <1>5, <1>15, <1>17 DEF Here
    <3> QED
      BY <1>1, <1>15, <1>17, <2>1, <3>1, <3>2, <3>3, AgreeWithout
  <2>6. Priced(b, g.shop.surcharge) /\ Len(b) <= BILLSZ
    <3>1. Priced(g.shop.bill, g.shop.surcharge) /\ Len(g.shop.bill) <= BILLSZ
          /\ BILLSZ \in Nat
      BY DEF Good, ShopConstants
    <3>2. Priced(b, g.shop.surcharge)
      BY <2>4, <3>1 DEF Priced
    <3> QED
      BY <2>3, <3>1, <3>2
  <2>7. Good(h) /\ Books(g, h) /\ Stays(g, h) /\ h.obj = paid /\ h.shop.bill = b
    <3>1. b \in Seq(Entries) /\ paid \in [Ids -> Objects]
      BY <1>5, <2>3
    <3>2. NewBooks(g, h, b, paid)
      BY <2>2 DEF NewBooks
    <3>3. g \in Worlds /\ g.shop.loan <= g.shop.debit
      BY DEF Good
    <3> QED
      BY <1>13, <2>5, <2>6, <3>1, <3>2, <3>3, NewBillIsGood
  <2>8. \A i \in Ids : /\ paid[i].where = g.obj[i].where /\ paid[i].quan = g.obj[i].quan
                       /\ paid[i].kind = g.obj[i].kind
                       /\ paid[i].no_charge = g.obj[i].no_charge
                       /\ paid[i].unpaid => g.obj[i].unpaid
    BY <1>5
  <2>9. Keeps(g, h)
    BY <2>7, <2>8 DEF Keeps, Like, Meek, Here
  <2>10. Room(h, n)
    <3>1. Unused(h) = Unused(g)
      BY <2>7, <2>8 DEF Unused
    <3>2. Partial(h) \in SUBSET Partial(g)
      <4>1. DOMAIN b = 1..Len(b) /\ DOMAIN g.shop.bill = 1..Len(g.shop.bill)
        BY <1>1, <2>3, BillIs
      <4> SUFFICES ASSUME NEW i \in Partial(h) PROVE i \in Partial(g)
        OBVIOUS
      <4>2. i \in Ids /\ paid[i].quan = g.obj[i].quan
        BY <2>8 DEF Partial
      <4>3. PICK j \in 1..Len(b) : b[j].id = i /\ b[j].bquan > paid[i].quan
        BY <2>7, <4>1 DEF Partial
      <4>4. PICK l \in 1..Len(g.shop.bill) : b[j] = g.shop.bill[l]
        BY <2>4
      <4> QED
        BY <4>1, <4>2, <4>3, <4>4 DEF Partial
    <3>3. Cardinality(Partial(h)) <= Cardinality(Partial(g))
      BY <3>2, RoomIs, FS_Subset
    <3> QED
      BY <3>1, <3>3, RoomIs DEF Room
  <2>11. Len(h.shop.bill) <= Len(g.shop.bill)
    BY <2>3, <2>7
  <2> QED
    BY <1>15, <1>17, <1>5, <2>7, <2>8, <2>9, <2>10, <2>11 DEF Returned
<1> QED
  BY <1>3, <1>14, <1>15, <1>16, <1>17

LEMMA ReturnedTwice ==
  ASSUME NEW f, NEW g, NEW h, NEW n, Returned(f, g, n), Returned(g, h, n),
         Good(f)
  PROVE  Returned(f, h, n)
<1>1. Keeps(f, h)
  BY KeepsTwice DEF Returned
<1>2. Books(f, h)
  BY DEF Returned, Books
<1>3. Len(h.shop.bill) <= Len(f.shop.bill)
  BY GoodIs DEF Returned
<1>4. \A i \in Ids : Here(f.obj[i]) => h.obj[i].no_charge = f.obj[i].no_charge
  BY DEF Returned, Keeps, Like, Here
<1> QED
  BY <1>1, <1>2, <1>3, <1>4 DEF Returned

\* A box goes back with what is in it.
LEMMA SubAll ==
  ASSUME ShopConstants, NEW g, Good(g), ~g.shop.bill_inactive, NEW o \in Ids,
         Here(g.obj[o]), NEW n \in Nat, Room(g, n)
  PROVE  /\ Returned(g, subfrombill(g, o), n) /\ ~subfrombill(g, o).obj[o].unpaid
         /\ o = Box => \A i \in Contents(g) : ~subfrombill(g, o).obj[i].unpaid
<1> DEFINE S == IF o = Box THEN Contents(g) ELSE {}
           D == {q \in Worlds : Returned(g, q, n) /\ ~q.obj[o].unpaid}
           step == [p \in S \X D |-> sub_one_frombill(p[2], p[1])]
           base == sub_one_frombill(g, o)
           Eq(f) == f = [s \in SUBSET S |->
                           IF s = {} THEN base
                           ELSE sub_one_frombill(f[s \ {CHOOSE x \in s : TRUE}],
                                                 CHOOSE x \in s : TRUE)]
           it == CHOOSE f : Eq(f)
<1>1. subfrombill(g, o) = it[S]
  BY Zenon DEF subfrombill, FoldSet, MapThenFoldSet
<1>2. /\ S \in SUBSET Ids /\ \A i \in S : Here(g.obj[i])
      /\ o = Box => S = Contents(g)
  BY DEF Contents, Here
<1>3. base \in D
  BY SubOne DEF Returned, Good
<1> HIDE DEF S
<1>4. ASSUME NEW i \in S, NEW q \in D
      PROVE  /\ sub_one_frombill(q, i) \in D /\ ~sub_one_frombill(q, i).obj[i].unpaid
             /\ \A j \in S : ~q.obj[j].unpaid => ~sub_one_frombill(q, i).obj[j].unpaid
  <2>1. PICK r : r = sub_one_frombill(q, i)
    OBVIOUS
  <2>2. Returned(g, q, n) /\ ~q.obj[o].unpaid /\ i \in Ids
    BY <1>2
  <2>3. Good(q) /\ ~q.shop.bill_inactive /\ Room(q, n)
    BY <2>2 DEF Returned, Books
  <2>4. Here(q.obj[i])
    BY <1>2, <2>2 DEF Returned, Keeps, Like, Here
  <2>5. Returned(q, r, n) /\ ~r.obj[i].unpaid
    BY <2>1, <2>2, <2>3, <2>4, SubOne
  <2>6. Returned(g, r, n)
    BY <2>2, <2>5, ReturnedTwice
  <2>7. Here(r.obj[o])
    BY <2>6 DEF Returned, Keeps, Like, Here
  <2>8. ~r.obj[o].unpaid
    BY <2>2, <2>5, <2>7 DEF Returned, Keeps, Meek
  <2>9. r \in Worlds
    BY <2>5 DEF Returned, Good
  <2>10. \A j \in S : ~q.obj[j].unpaid => ~r.obj[j].unpaid
    <3> TAKE j \in S
    <3>1. j \in Ids /\ Here(g.obj[j])
      BY <1>2
    <3>2. Here(r.obj[j])
      BY <2>6, <3>1 DEF Returned, Keeps, Like, Here
    <3> QED
      BY <2>5, <3>1, <3>2 DEF Returned, Keeps, Meek
  <2> QED
    BY <2>1, <2>5, <2>6, <2>8, <2>9, <2>10
<1> HIDE DEF D
<1>5. step \in [S \X D -> D]
  BY <1>4
<1>6. IsFiniteSet(S)
  BY <1>2, IdsFinite
<1> HIDE DEF base
<1>7. PICK f : IsFold(f, S, D, base, step)
  <2> HIDE DEF step
  <2> QED
    BY <1>3, <1>5, <1>6, FoldDefined
<1>8. Eq(f)
  <2>1. f \in [SUBSET S -> D]
    BY <1>7 DEF IsFold
  <2>2. ASSUME NEW s \in SUBSET S
        PROVE  f[s] = IF s = {} THEN base ELSE sub_one_frombill(f[s \ {Pick(s)}], Pick(s))
    <3>1. s # {} => Pick(s) \in S /\ s \ {Pick(s)} \in SUBSET S
      BY DEF Pick
    <3>2. f[s] = IF s = {} THEN base ELSE step[<<Pick(s), f[s \ {Pick(s)}]>>]
      BY <1>7 DEF IsFold
    <3>3. s # {} => step[<<Pick(s), f[s \ {Pick(s)}]>>]
                      = sub_one_frombill(f[s \ {Pick(s)}], Pick(s))
      BY <2>1, <3>1
    <3> QED
      BY <3>2, <3>3
  <2> QED
    BY <2>1, <2>2 DEF Pick
<1> HIDE DEF step
<1>9. Eq(it)
  <2> HIDE DEF Eq
  <2> QED
    BY <1>8, Zenon
<1>10. \A s \in SUBSET S :
         it[s] = IF s = {} THEN base ELSE sub_one_frombill(it[s \ {Pick(s)}], Pick(s))
  <2> HIDE DEF it
  <2> QED
    BY <1>9 DEF Pick
<1> HIDE DEF it, Eq
<1> DEFINE Holds == {s \in SUBSET S : it[s] \in D /\ \A i \in s : ~it[s].obj[i].unpaid}
<1>11. {} \in Holds
  BY <1>3, <1>10
<1>12. ASSUME NEW s \in SUBSET S, s # {}, s \ {Pick(s)} \in Holds PROVE s \in Holds
  <2>1. /\ Pick(s) \in S /\ it[s \ {Pick(s)}] \in D
        /\ \A i \in s \ {Pick(s)} : i \in S /\ ~it[s \ {Pick(s)}].obj[i].unpaid
    BY <1>12 DEF Pick
  <2>2. PICK q \in D : q = it[s \ {Pick(s)}]
    BY <2>1
  <2>3. PICK r : r = sub_one_frombill(q, Pick(s))
    OBVIOUS
  <2>4. /\ r \in D /\ ~r.obj[Pick(s)].unpaid
        /\ \A j \in S : ~q.obj[j].unpaid => ~r.obj[j].unpaid
    BY <1>4, <2>1, <2>3
  <2>5. it[s] = r
    BY <1>10, <1>12, <2>2, <2>3
  <2>6. \A i \in s : ~r.obj[i].unpaid
    BY <2>1, <2>2, <2>4
  <2> QED
    BY <2>4, <2>5, <2>6
<1>13. S \in Holds
  <2> HIDE DEF Holds
  <2> QED
    BY <1>6, <1>11, <1>12, SetsGrow
<1>14. it[S] \in D /\ \A i \in S : ~it[S].obj[i].unpaid
  BY <1>13
<1> QED
  BY <1>1, <1>2, <1>14 DEF D

------------------------------------------------------------------------------
(* Goods that the player takes.                                             *)

\* The objects in S may be put on the bill, as used up if dummy.
Adds(g, h, S, dummy) ==
  /\ Stays(g, h)
  /\ \A i \in Ids :
       /\ h.obj[i].quan = g.obj[i].quan /\ h.obj[i].kind = g.obj[i].kind
       /\ \/ /\ h.obj[i].where = g.obj[i].where
             /\ dummy => h.obj[i].unpaid = g.obj[i].unpaid
          \/ dummy /\ i \in S /\ h.obj[i].where = "billed"
       /\ i \notin S => /\ h.obj[i].unpaid = g.obj[i].unpaid
                       /\ h.obj[i].no_charge = g.obj[i].no_charge

\* What a handler for the object o is about: a box is handled with its contents.
Reach(g, o) == {o} \cup (IF o = Box THEN Contents(g) ELSE {})

LEMMA AddsTwice ==
  ASSUME NEW f, NEW g, NEW h, NEW S, NEW T, T \subseteq S, NEW dummy,
         Adds(f, g, S, dummy), Adds(g, h, T, dummy)
  PROVE  Adds(f, h, S, dummy)
BY DEF Adds, Stays

LEMMA MildAdds ==
  ASSUME NEW g, NEW h, Mild(g, h), NEW S, NEW dummy,
         \A i \in Ids : /\ h.obj[i].unpaid = g.obj[i].unpaid
                        /\ i \notin S => h.obj[i].no_charge = g.obj[i].no_charge
  PROVE  Adds(g, h, S, dummy)
BY DEF Mild, Adds

\* The owner and the player both are there, so there may be a bill.
LEMMA ResidentIsFine ==
  ASSUME NEW g, Fine(g), Resident(g), NEW h, Good(h), Stays(g, h)
  PROVE  Fine(h)
BY DEF Fine, Owing, Resident, Stays

\* An object gets an entry, or is the player's.
LEMMA AddedIs ==
  ASSUME ShopConstants, NEW g, Good(g), ~g.shop.bill_inactive, NEW o \in Ids, Here(g.obj[o]),
         OnBill(g, o) = 0, ~Full(g), NEW dummy \in BOOLEAN, NEW price \in Prices
  PROVE  Good(Added(g, o, dummy, price)) /\ Adds(g, Added(g, o, dummy, price), {o}, dummy)
<1>1. PICK h : h = Added(g, o, dummy, price)
  OBVIOUS
<1>2. CASE g.obj[o].no_charge
  <2>1. h = [g EXCEPT !.obj[o].no_charge = FALSE]
    BY <1>1, <1>2 DEF Added
  <2>2. /\ Good(h) /\ Mild(g, h)
        /\ \A i \in Ids : h.obj[i] = [g.obj[i] EXCEPT !.no_charge = IF i = o THEN FALSE ELSE @]
    <3>1. PICK mine \in BOOLEAN : mine = FALSE
      OBVIOUS
    <3>2. h = [g EXCEPT !.obj[o].no_charge = mine]
      BY <2>1, <3>1
    <3>3. /\ Good(h) /\ Mild(g, h)
          /\ \A i \in Ids : h.obj[i] = [g.obj[i] EXCEPT !.no_charge = IF i = o THEN mine ELSE @]
      BY <3>2, NoChargeIs
    <3> QED
      BY <3>1, <3>3
  <2>3. \A i \in Ids : /\ h.obj[i].unpaid = g.obj[i].unpaid
                       /\ i \notin {o} => h.obj[i].no_charge = g.obj[i].no_charge
    <3> TAKE i \in Ids
    <3>1. g.obj[i] \in Objects
      BY GoodIs
    <3> QED
      BY <2>2, <3>1 DEF Objects
  <2> QED
    BY <1>1, <2>2, <2>3, MildAdds
<1>3. CASE ~g.obj[o].no_charge
  <2>1. /\ g \in Worlds /\ g.obj \in [Ids -> Objects] /\ g.shop.bill \in Seq(Entries)
        /\ g.obj[o] \in Objects /\ g.obj[o].quan \in Nat \ {0} /\ Agree(g.shop.bill, g.obj)
        /\ Len(g.shop.bill) \in Nat
    <3>1. g.obj[o].quan \in Nat \ {0} /\ g.obj[o] \in Objects /\ g.shop.bill \in Seq(Entries)
          /\ Len(g.shop.bill) \in Nat
      <4>1. g.obj[o].quan \in Nat /\ g.obj[o].quan > 0
        BY GoodIs DEF Good
      <4> QED
        BY <4>1, GoodIs
    <3>2. g \in Worlds /\ Agree(g.shop.bill, g.obj)
      BY DEF Good
    <3>3. g.obj \in [Ids -> Objects]
      BY <3>2 DEF Worlds
    <3> QED
      BY <3>1, <3>2, <3>3
  <2>2. PICK cost : cost = IF g.shop.surcharge THEN Surcharged(price) ELSE price
    OBVIOUS
  <2>3. cost \in (IF g.shop.surcharge THEN Sums ELSE Prices)
    BY <2>2 DEF Sums
  <2>4. PICK e : e = [id |-> o, bquan |-> g.obj[o].quan, useup |-> dummy, price |-> cost]
    OBVIOUS
  <2>5. /\ e \in Entries /\ e.id = o /\ e.bquan = g.obj[o].quan /\ e.useup = dummy
        /\ e.price = cost
    BY <2>1, <2>3, <2>4 DEF Entries
  <2>6. PICK new : new = [g.obj[o] EXCEPT !.unpaid = TRUE,
                                          !.where = IF dummy THEN "billed" ELSE @]
    OBVIOUS
  <2>7. /\ new \in Objects /\ new.unpaid = TRUE /\ new.quan = g.obj[o].quan
        /\ new.kind = g.obj[o].kind
        /\ new.where = IF dummy THEN "billed" ELSE g.obj[o].where
    BY <2>1, <2>6 DEF Objects
  <2>8. PICK objs : objs = [g.obj EXCEPT ![o] = new]
    OBVIOUS
  <2>9. objs \in [Ids -> Objects] /\ objs[o] = new /\ \A i \in Ids : i # o => objs[i] = g.obj[i]
    BY <2>1, <2>7, <2>8
  <2>10. PICK b : b = Append(g.shop.bill, e)
    OBVIOUS
  <2>11. NewBooks(g, h, b, objs)
    <3>1. h = [g EXCEPT !.shop.bill = b,
                        !.obj[o] = [@ EXCEPT !.unpaid = TRUE,
                                      !.where = IF dummy THEN "billed" ELSE g.obj[o].where]]
      BY <1>1, <1>3, <2>2, <2>4, <2>10 DEF Added
    <3>2. PICK m : m = [g EXCEPT !.shop.bill = b]
      OBVIOUS
    <3>3. m.obj = g.obj
      BY <2>1, <3>2 DEF Worlds
    <3>4. h = [m EXCEPT !.obj[o] = new]
      BY <2>6, <3>1, <3>2, <3>3
    <3> QED
      BY <2>1, <2>8, <3>2, <3>3, <3>4 DEF NewBooks, Worlds
  <2>12. \A j \in 1..Len(g.shop.bill) : g.shop.bill[j].id # o
    BY OnBillGood
  <2>13. IsFor(e, objs[o])
    BY <2>1, <2>5, <2>7, <2>9 DEF IsFor, Here
  <2>14. /\ Agree(b, objs) /\ b \in Seq(Entries) /\ Len(b) = Len(g.shop.bill) + 1
         /\ b[Len(g.shop.bill) + 1] = e
         /\ \A j \in 1..Len(g.shop.bill) : b[j] = g.shop.bill[j]
    <3>1. \A i \in Ids : i # e.id => Same(objs[i], g.obj[i])
      BY <2>5, <2>9 DEF Same
    <3>2. PICK old, was : old = g.shop.bill /\ was = g.obj
      OBVIOUS
    <3>3. old \in Seq(Entries) /\ Agree(old, was)
          /\ \A i \in Ids : i # e.id => Same(objs[i], was[i])
      BY <2>1, <3>1, <3>2
    <3>4. (\A j \in 1..Len(old) : old[j].id # e.id) /\ IsFor(e, objs[e.id])
      BY <2>5, <2>12, <2>13, <3>2
    <3>5. /\ Agree(Append(old, e), objs) /\ Append(old, e) \in Seq(Entries)
          /\ Len(Append(old, e)) = Len(old) + 1 /\ Append(old, e)[Len(old) + 1] = e
          /\ \A j \in 1..Len(old) : Append(old, e)[j] = old[j]
      BY <2>5, <3>3, <3>4, AgreeAppended
    <3> QED
      BY <2>10, <3>2, <3>5
  <2>15. Len(b) <= BILLSZ
    <3>1. Len(g.shop.bill) <= BILLSZ /\ Len(g.shop.bill) # BILLSZ /\ BILLSZ \in Nat
      BY DEF Good, Full, ShopConstants
    <3> QED
      BY <2>1, <2>14, <3>1
  <2>16. Priced(b, g.shop.surcharge)
    <3>1. Priced(g.shop.bill, g.shop.surcharge)
      BY DEF Good
    <3> SUFFICES ASSUME NEW k \in 1..Len(b)
                 PROVE  b[k].price \in (IF g.shop.surcharge THEN Sums ELSE Prices)
      BY DEF Priced
    <3>2. k = Len(g.shop.bill) + 1 \/ k \in 1..Len(g.shop.bill)
      BY <2>1, <2>14
    <3>3. CASE k = Len(g.shop.bill) + 1
      BY <2>3, <2>5, <2>14, <3>3
    <3>4. CASE k \in 1..Len(g.shop.bill)
      BY <2>14, <3>1, <3>4 DEF Priced
    <3> QED
      BY <3>2, <3>3, <3>4
  <2>17. \A i \in Ids : Here(objs[i]) => objs[i].quan > 0
    BY <2>1, <2>7, <2>9 DEF Good
  <2>18. Good(h) /\ Books(g, h) /\ Stays(g, h) /\ h.obj = objs /\ h.shop.bill = b
    <3>1. g.shop.loan <= g.shop.debit /\ b \in Seq(Entries)
      BY <2>14 DEF Good
    <3> QED
      BY <2>1, <2>9, <2>11, <2>14, <2>15, <2>16, <2>17, <3>1, NewBillIsGood
  <2>19. Adds(g, h, {o}, dummy)
    BY <2>7, <2>9, <2>18 DEF Adds
  <2> QED
    BY <1>1, <2>18, <2>19
<1> QED
  BY <1>2, <1>3

LEMMA AddOne ==
  ASSUME ShopConstants, NEW g, Fine(g), NEW o \in Ids, Here(g.obj[o]),
         NEW dummy \in BOOLEAN, NEW price \in Prices
  PROVE  /\ Fine(add_one_tobill(g, o, dummy, price))
         /\ Adds(g, add_one_tobill(g, o, dummy, price), {o}, dummy)
<1>1. PICK h : h = add_one_tobill(g, o, dummy, price)
  OBVIOUS
<1>2. PICK s : s = Keeper(g)
  OBVIOUS
<1>3. Fine(s) /\ Good(s) /\ Moody(g, s)
  BY <1>2, KeeperIs, MoodyIsFine DEF Fine
<1>4. Mild(g, s) /\ s.obj = g.obj
  BY <1>3, MoodyIsMild DEF Moody
<1>5. CASE ~g.hero.ushops
  <2>1. h = g
    BY <1>1, <1>5 DEF add_one_tobill
  <2>2. Mild(g, g)
    BY SameBillSelf DEF Mild, Stays
  <2> QED
    BY <1>1, <2>1, <2>2, MildAdds
<1>6. CASE g.hero.ushops /\ ~AtHome(s)
  <2>1. h = s
    BY <1>1, <1>2, <1>6 DEF add_one_tobill
  <2> QED
    BY <1>1, <1>3, <1>4, <2>1, MildAdds
<1>7. CASE g.hero.ushops /\ AtHome(s)
  <2>1. Resident(s) /\ ~s.shop.bill_inactive
    BY <1>3, <1>4, <1>7 DEF Resident, AtHome, Mild, Stays, Fine, Owing
  <2>2. Checked(s, o) = s
    BY <1>3, <1>4, <2>1, CheckedIs
  <2>3. CASE OnBill(s, o) # 0 \/ Full(s)
    <3>1. h = s
      BY <1>1, <1>2, <1>7, <2>2, <2>3 DEF add_one_tobill
    <3> QED
      BY <1>1, <1>3, <1>4, <3>1, MildAdds
  <2>4. CASE ~(OnBill(s, o) # 0 \/ Full(s))
    <3>1. h = Added(s, o, dummy, price)
      BY <1>1, <1>2, <1>7, <2>2, <2>4 DEF add_one_tobill
    <3>2. Good(h) /\ Adds(s, h, {o}, dummy)
      BY <1>3, <1>4, <2>1, <2>4, <3>1, AddedIs
    <3>3. Fine(h)
      BY <1>3, <2>1, <3>2, ResidentIsFine DEF Adds
    <3>4. Adds(g, h, {o}, dummy)
      BY <1>3, <1>4, <3>2 DEF Adds, Mild, Stays
    <3> QED
      BY <1>1, <3>3, <3>4
  <2> QED
    BY <2>3, <2>4
<1> QED
  BY <1>5, <1>6, <1>7

\* A box and what is in it.
LEMMA AddBox ==
  ASSUME ShopConstants, NEW g, Fine(g), NEW o \in Ids, o = Box, Here(g.obj[o]),
         NEW dummy \in BOOLEAN, ~dummy, NEW price \in Prices
  PROVE  /\ Fine(BoxAndAll(g, o, dummy, price))
         /\ Adds(g, BoxAndAll(g, o, dummy, price), Reach(g, o), dummy)
<1> DEFINE S == {i \in Contents(g) : ~g.obj[i].no_charge}
           D == {q \in Worlds : Fine(q) /\ Adds(g, q, Reach(g, o), dummy)}
           step == [p \in S \X D |-> add_one_tobill(p[2], p[1], dummy, price)]
           base == IF g.obj[o].no_charge THEN g ELSE add_one_tobill(g, o, dummy, price)
           Eq(f) == f = [s \in SUBSET S |->
                           IF s = {} THEN base
                           ELSE add_one_tobill(f[s \ {CHOOSE x \in s : TRUE}],
                                               CHOOSE x \in s : TRUE, dummy, price)]
           it == CHOOSE f : Eq(f)
<1>1. BoxAndAll(g, o, dummy, price) = it[S]
  BY Zenon DEF BoxAndAll, FoldSet, MapThenFoldSet
<1>2. S \in SUBSET Ids /\ \A i \in S : Here(g.obj[i]) /\ {i} \subseteq Reach(g, o)
  BY DEF Contents, Here, Reach
<1> HIDE DEF S
<1>3. base \in D
  <2>1. Adds(g, g, Reach(g, o), dummy)
    BY DEF Adds, Stays
  <2>2. CASE g.obj[o].no_charge
    BY <2>1, <2>2 DEF Fine, Good
  <2>3. CASE ~g.obj[o].no_charge
    <3>1. PICK h : h = add_one_tobill(g, o, dummy, price)
      OBVIOUS
    <3>2. Fine(h) /\ Adds(g, h, {o}, dummy)
      BY <3>1, AddOne
    <3>3. Adds(g, h, Reach(g, o), dummy)
      BY <2>1, <3>2, AddsTwice DEF Reach
    <3>4. h \in Worlds
      BY <3>2 DEF Fine, Good
    <3> QED
      BY <2>3, <3>1, <3>2, <3>3, <3>4
  <2> QED
    BY <2>2, <2>3
<1> HIDE DEF base
<1>4. ASSUME NEW i \in S, NEW q \in D PROVE add_one_tobill(q, i, dummy, price) \in D
  <2>1. PICK r : r = add_one_tobill(q, i, dummy, price)
    OBVIOUS
  <2>2. Fine(q) /\ Adds(g, q, Reach(g, o), dummy) /\ i \in Ids
    BY <1>2
  <2>3. Here(q.obj[i])
    BY <1>2, <2>2 DEF Adds, Here
  <2>4. Fine(r) /\ Adds(q, r, {i}, dummy)
    BY <2>1, <2>2, <2>3, AddOne
  <2>5. Adds(g, r, Reach(g, o), dummy)
    BY <1>2, <2>2, <2>4, AddsTwice
  <2>6. r \in Worlds
    BY <2>4 DEF Fine, Good
  <2> QED
    BY <2>1, <2>4, <2>5, <2>6
<1> HIDE DEF D
<1>5. step \in [S \X D -> D]
  BY <1>4
<1>6. IsFiniteSet(S)
  BY <1>2, IdsFinite
<1>7. PICK f : IsFold(f, S, D, base, step)
  <2> HIDE DEF step
  <2> QED
    BY <1>3, <1>5, <1>6, FoldDefined
<1>8. Eq(f)
  <2>1. f \in [SUBSET S -> D]
    BY <1>7 DEF IsFold
  <2>2. ASSUME NEW s \in SUBSET S
        PROVE  f[s] = IF s = {} THEN base
                      ELSE add_one_tobill(f[s \ {Pick(s)}], Pick(s), dummy, price)
    <3>1. s # {} => Pick(s) \in S /\ s \ {Pick(s)} \in SUBSET S
      BY DEF Pick
    <3>2. f[s] = IF s = {} THEN base ELSE step[<<Pick(s), f[s \ {Pick(s)}]>>]
      BY <1>7 DEF IsFold
    <3>3. s # {} => step[<<Pick(s), f[s \ {Pick(s)}]>>]
                      = add_one_tobill(f[s \ {Pick(s)}], Pick(s), dummy, price)
      BY <2>1, <3>1
    <3> QED
      BY <3>2, <3>3
  <2> QED
    BY <2>1, <2>2 DEF Pick
<1> HIDE DEF step
<1>9. Eq(it)
  <2> HIDE DEF Eq
  <2> QED
    BY <1>8, Zenon
<1>10. \A s \in SUBSET S :
         it[s] = IF s = {} THEN base
                 ELSE add_one_tobill(it[s \ {Pick(s)}], Pick(s), dummy, price)
  <2> HIDE DEF it
  <2> QED
    BY <1>9 DEF Pick
<1> HIDE DEF it, Eq
<1> DEFINE Holds == {s \in SUBSET S : it[s] \in D}
<1>11. {} \in Holds
  BY <1>3, <1>10
<1>12. ASSUME NEW s \in SUBSET S, s # {}, s \ {Pick(s)} \in Holds PROVE s \in Holds
  <2>1. Pick(s) \in S /\ it[s \ {Pick(s)}] \in D
    BY <1>12 DEF Pick
  <2> QED
    BY <1>4, <1>10, <1>12, <2>1
<1>13. S \in Holds
  <2> HIDE DEF Holds
  <2> QED
    BY <1>6, <1>11, <1>12, SetsGrow
<1>14. it[S] \in D
  BY <1>13
<1> QED
  BY <1>1, <1>14 DEF D

\* addtobill.
LEMMA AddAll ==
  ASSUME ShopConstants, NEW g, Fine(g), NEW o \in Ids, Here(g.obj[o]),
         NEW dummy \in BOOLEAN, dummy => o # Box, NEW price \in Prices
  PROVE  /\ Fine(addtobill(g, o, dummy, price))
         /\ Adds(g, addtobill(g, o, dummy, price), Reach(g, o), dummy)
<1>1. PICK h : h = addtobill(g, o, dummy, price)
  OBVIOUS
<1>2. PICK s : s = Keeper(g)
  OBVIOUS
<1>3. Fine(s) /\ Good(s) /\ Moody(g, s)
  BY <1>2, KeeperIs, MoodyIsFine DEF Fine
<1>4. Mild(g, s) /\ s.obj = g.obj
  BY <1>3, MoodyIsMild DEF Moody
<1>5. PICK S : S = Reach(g, o)
  OBVIOUS
<1>6. CASE ~g.hero.ushops
  <2>1. h = g
    BY <1>1, <1>6 DEF addtobill
  <2>2. Mild(g, g)
    BY SameBillSelf DEF Mild, Stays
  <2> QED
    BY <1>1, <2>1, <2>2, MildAdds
<1>7. CASE g.hero.ushops /\ ~AtHome(s)
  <2>1. h = s
    BY <1>1, <1>2, <1>7 DEF addtobill
  <2> QED
    BY <1>1, <1>3, <1>4, <2>1, MildAdds
<1>8. CASE g.hero.ushops /\ AtHome(s)
  <2>1. Resident(s) /\ ~s.shop.bill_inactive
    BY <1>3, <1>4, <1>8 DEF Resident, AtHome, Mild, Stays, Fine, Owing
  <2>2. Checked(s, o) = s
    BY <1>3, <1>4, <2>1, CheckedIs
  <2>3. CASE OnBill(s, o) # 0 \/ Full(s)
    <3>1. h = s
      BY <1>1, <1>2, <1>8, <2>2, <2>3 DEF addtobill
    <3> QED
      BY <1>1, <1>3, <1>4, <3>1, MildAdds
  <2>4. CASE ~(OnBill(s, o) # 0 \/ Full(s)) /\ HasContents(s, o)
    <3>1. o = Box /\ ~dummy /\ Reach(s, o) = S
      BY <1>4, <1>5, <2>4 DEF HasContents, Reach, Contents
    <3>2. PICK q : q = BoxAndAll(s, o, dummy, price)
      OBVIOUS
    <3>3. PICK T : T = {Box} \cup Contents(s)
      OBVIOUS
    <3>4. h = SetNoCharge(q, T, FALSE)
      BY <1>1, <1>2, <1>8, <2>2, <2>4, <3>1, <3>2, <3>3 DEF addtobill
    <3>5. Fine(q) /\ Good(q) /\ Adds(s, q, S, dummy)
      BY <1>3, <1>4, <3>1, <3>2, AddBox DEF Fine
    <3>6. T \in SUBSET Ids /\ T = S
      BY <3>1, <3>3 DEF Contents, Ids, Reach
    <3>7. /\ Good(h) /\ Mild(q, h)
          /\ \A i \in Ids : /\ h.obj[i].unpaid = q.obj[i].unpaid
                            /\ i \notin S => h.obj[i].no_charge = q.obj[i].no_charge
      <4>1. PICK mine \in BOOLEAN : mine = FALSE
        OBVIOUS
      <4>2. h = SetNoCharge(q, T, mine)
        BY <3>4, <4>1
      <4>3. Good(q)
        BY <3>5
      <4>4. Good(h) /\ Mild(q, h) /\ Marked(q, h, T, mine)
        BY <3>6, <4>2, <4>3, MarksAre DEF Marked
      <4> QED
        BY <3>6, <4>4 DEF Marked
    <3>8. Adds(q, h, S, dummy)
      BY <3>7, MildAdds
    <3>9. Adds(s, h, S, dummy)
      BY <3>5, <3>8, AddsTwice
    <3>10. Adds(g, s, S, dummy)
      BY <1>4, MildAdds
    <3>11. Adds(g, h, S, dummy)
      BY <3>9, <3>10, AddsTwice
    <3>12. Fine(h)
      BY <1>3, <2>1, <3>7, <3>9, ResidentIsFine DEF Adds
    <3> QED
      BY <1>1, <1>5, <3>11, <3>12
  <2>5. CASE ~(OnBill(s, o) # 0 \/ Full(s)) /\ ~HasContents(s, o)
    <3>1. h = add_one_tobill(s, o, dummy, price)
      BY <1>1, <1>2, <1>8, <2>2, <2>5 DEF addtobill
    <3>2. Fine(h) /\ Adds(s, h, {o}, dummy)
      BY <1>3, <1>4, <3>1, AddOne
    <3>3. o \in S
      BY <1>5 DEF Reach
    <3>4. Adds(g, h, S, dummy)
      BY <1>3, <1>4, <3>2, <3>3 DEF Adds, Mild, Stays
    <3> QED
      BY <1>1, <1>5, <3>2, <3>4
  <2> QED
    BY <2>3, <2>4, <2>5
<1> QED
  BY <1>6, <1>7, <1>8

------------------------------------------------------------------------------
(* An object changes.                                                       *)

\* The bill agrees with the object as it is now.
LEMMA AgreeAt ==
  ASSUME NEW b \in Seq(Entries), NEW objs, Agree(b, objs), NEW o \in Ids, NEW others,
         \A i \in Ids : i # o => Same(others[i], objs[i]),
         \A k \in 1..Len(b) : b[k].id = o => IsFor(b[k], others[o]),
         others[o].unpaid \/ others[o].where = "billed" => \E k \in 1..Len(b) : b[k].id = o
  PROVE  Agree(b, others)
<1>1. \A k \in 1..Len(b) : b[k].id \in Ids
  BY BillIs
<1>2. ASSUME NEW k \in 1..Len(b) PROVE IsFor(b[k], others[b[k].id])
  <2>1. CASE b[k].id = o
    BY <2>1
  <2>2. CASE b[k].id # o
    <3>1. IsFor(b[k], objs[b[k].id]) /\ Same(others[b[k].id], objs[b[k].id])
      BY <1>1, <2>2 DEF Agree
    <3> QED
      BY <3>1 DEF IsFor, Here, Same
  <2> QED
    BY <2>1, <2>2
<1>3. ASSUME NEW i \in Ids, others[i].unpaid \/ others[i].where = "billed"
      PROVE  \E k \in 1..Len(b) : b[k].id = i
  <2>1. CASE i = o
    BY <1>3, <2>1
  <2>2. CASE i # o
    BY <1>3, <2>2 DEF Agree, Same
  <2> QED
    BY <2>1, <2>2
<1>4. \A j, k \in 1..Len(b) : b[j].id = b[k].id => j = k
  BY DEF Agree
<1> QED
  BY <1>2, <1>3, <1>4 DEF Agree

\* Only the object o is another one.
Replaced(g, h, o, new) ==
  /\ h.shop = g.shop /\ h.hero = g.hero /\ h.wrong = g.wrong
  /\ h.obj[o] = new /\ \A i \in Ids : i # o => h.obj[i] = g.obj[i]

NewObject(g, h, o, new) == h = [g EXCEPT !.obj[o] = new]

LEMMA ReplacedIs ==
  ASSUME NEW g \in Worlds, NEW o \in Ids, NEW new \in Objects, NEW h, NewObject(g, h, o, new)
  PROVE  h \in Worlds /\ Replaced(g, h, o, new)
<1>1. g.obj \in [Ids -> Objects]
  BY DEF Worlds
<1>2. PICK objs : objs = [g.obj EXCEPT ![o] = new]
  OBVIOUS
<1>3. objs \in [Ids -> Objects] /\ objs[o] = new /\ \A i \in Ids : i # o => objs[i] = g.obj[i]
  BY <1>1, <1>2
<1>4. h = [g EXCEPT !.obj = objs]
  BY <1>2 DEF NewObject
<1>5. h \in Worlds /\ h.shop = g.shop /\ h.hero = g.hero /\ h.wrong = g.wrong /\ h.obj = objs
  BY <1>3, <1>4 DEF Worlds
<1> QED
  BY <1>3, <1>5 DEF Replaced

\* A world that is good but for one object that agrees with the bill, too.
LEMMA ReplacedIsGood ==
  ASSUME NEW g, Good(g), NEW o \in Ids, NEW new, NEW h \in Worlds, Replaced(g, h, o, new),
         Here(new) => new.quan > 0,
         \A k \in 1..Len(g.shop.bill) : g.shop.bill[k].id = o => IsFor(g.shop.bill[k], new),
         new.unpaid \/ new.where = "billed" => \E k \in 1..Len(g.shop.bill) : g.shop.bill[k].id = o
  PROVE  Good(h)
<1>1. g.shop.bill \in Seq(Entries) /\ Agree(g.shop.bill, g.obj)
  BY GoodIs DEF Good
<1>2. \A i \in Ids : i # o => Same(h.obj[i], g.obj[i])
  BY DEF Replaced, Same
<1>3. h.shop = g.shop /\ h.obj[o] = new
  BY DEF Replaced
<1>4. Agree(h.shop.bill, h.obj)
  BY <1>1, <1>2, <1>3, AgreeAt
<1>5. \A i \in Ids : Here(h.obj[i]) => h.obj[i].quan > 0
  BY DEF Replaced, Good
<1> QED
  BY <1>3, <1>4, <1>5 DEF Good

LEMMA ReplacedIsFine ==
  ASSUME NEW g, Fine(g), NEW h, Good(h), NEW o, NEW new, Replaced(g, h, o, new)
  PROVE  Fine(h)
BY DEF Fine, Owing, Resident, Replaced

\* An object that was not there, and is not on the bill.
LEMMA NewIsGood ==
  ASSUME NEW g, Good(g), NEW o \in Ids, g.obj[o].where = "none", NEW new \in Objects,
         Here(new) => new.quan > 0, ~new.unpaid, new.where # "billed",
         NEW h, NewObject(g, h, o, new)
  PROVE  Good(h) /\ Replaced(g, h, o, new)
<1>1. h \in Worlds /\ Replaced(g, h, o, new)
  BY ReplacedIs DEF Good
<1>2. \A k \in 1..Len(g.shop.bill) : g.shop.bill[k].id # o
  BY DEF Good, Agree, IsFor, Here
<1> QED
  BY <1>1, <1>2, ReplacedIsGood

\* An object that was there remains unpaid if it was, and gets no more.
LEMMA HereIsGood ==
  ASSUME NEW g, Good(g), NEW o \in Ids, Here(g.obj[o]), NEW new \in Objects, Here(new),
         new.quan > 0, new.quan <= g.obj[o].quan, new.unpaid = g.obj[o].unpaid,
         NEW h, NewObject(g, h, o, new)
  PROVE  Good(h) /\ Replaced(g, h, o, new)
<1>1. h \in Worlds /\ Replaced(g, h, o, new)
  BY ReplacedIs DEF Good
<1>2. ASSUME NEW k \in 1..Len(g.shop.bill), g.shop.bill[k].id = o
      PROVE  IsFor(g.shop.bill[k], new)
  <2>1. IsFor(g.shop.bill[k], g.obj[o])
    BY <1>2 DEF Good, Agree
  <2>2. g.shop.bill[k].bquan \in Nat /\ g.obj[o].quan \in Nat /\ new.quan \in Nat
    BY BillIs, GoodIs DEF Objects
  <2> QED
    BY <2>1, <2>2 DEF IsFor, Here
<1>3. new.unpaid \/ new.where = "billed" => \E k \in 1..Len(g.shop.bill) : g.shop.bill[k].id = o
  BY DEF Good, Agree, Here
<1> QED
  BY <1>1, <1>2, <1>3, ReplacedIsGood

\* An object comes to another place.
Moved(g, h, o, where) ==
  /\ h.shop = g.shop /\ h.hero = g.hero /\ h.wrong = g.wrong
  /\ \A i \in Ids : /\ h.obj[i].quan = g.obj[i].quan /\ h.obj[i].kind = g.obj[i].kind
                    /\ h.obj[i].unpaid = g.obj[i].unpaid
                    /\ h.obj[i].no_charge = g.obj[i].no_charge
                    /\ h.obj[i].where = IF i = o THEN where ELSE g.obj[i].where

LEMMA MovedIs ==
  ASSUME NEW g, Good(g), NEW o \in Ids, Here(g.obj[o]),
         NEW where \in {"free", "floor", "outside", "invent", "box"},
         NEW h, h = [g EXCEPT !.obj[o].where = where]
  PROVE  /\ Good(h) /\ Moved(g, h, o, where)
         /\ Unused(h) = Unused(g) /\ Partial(h) = Partial(g)
<1>1. g.obj[o] \in Objects /\ g.obj[o].quan > 0 /\ g.obj[o].quan \in Nat
  BY GoodIs DEF Good
<1>2. PICK new : new = [g.obj[o] EXCEPT !.where = where]
  OBVIOUS
<1>3. /\ new \in Objects /\ new.where = where /\ new.quan = g.obj[o].quan
      /\ new.kind = g.obj[o].kind /\ new.unpaid = g.obj[o].unpaid
      /\ new.no_charge = g.obj[o].no_charge
  BY <1>1, <1>2 DEF Objects
<1>4. NewObject(g, h, o, new)
  BY <1>2 DEF NewObject
<1>5. Here(new) /\ new.quan > 0 /\ new.quan <= g.obj[o].quan
  BY <1>1, <1>3 DEF Here
<1>6. Good(h) /\ Replaced(g, h, o, new)
  BY <1>3, <1>4, <1>5, HereIsGood
<1>7. Moved(g, h, o, where)
  BY <1>3, <1>6 DEF Moved, Replaced
<1>8. Unused(h) = Unused(g)
  BY <1>7 DEF Moved, Unused, Here
<1>9. Partial(h) = Partial(g)
  BY <1>7 DEF Moved, Partial
<1> QED
  BY <1>6, <1>7, <1>8, <1>9

LEMMA MovedIsFine ==
  ASSUME NEW g, Fine(g), NEW h, Good(h), NEW o, NEW where, Moved(g, h, o, where)
  PROVE  Fine(h)
BY DEF Fine, Owing, Resident, Moved

\* The mark for one object.
LEMMA MarkIs ==
  ASSUME ShopConstants, NEW g, Good(g), NEW o \in Ids, NEW mine \in BOOLEAN,
         NEW h, h = [g EXCEPT !.obj[o].no_charge = mine]
  PROVE  Good(h) /\ Mild(g, h) /\ Marked(g, h, {o}, mine)
<1>1. Good(h) /\ Mild(g, h) /\ h.shop = g.shop /\ h.hero = g.hero
  BY NoChargeIs
<1>2. ASSUME NEW i \in Ids
      PROVE  /\ h.obj[i].where = g.obj[i].where /\ h.obj[i].quan = g.obj[i].quan
             /\ h.obj[i].kind = g.obj[i].kind /\ h.obj[i].unpaid = g.obj[i].unpaid
             /\ h.obj[i].no_charge = IF i \in {o} THEN mine ELSE g.obj[i].no_charge
  <2>1. g.obj[i] \in Objects
    BY GoodIs
  <2>2. h.obj[i] = [g.obj[i] EXCEPT !.no_charge = IF i = o THEN mine ELSE @]
    BY NoChargeIs
  <2> QED
    BY <2>1, <2>2 DEF Objects
<1> QED
  BY <1>1, <1>2 DEF Marked

\* Marks are all the same to the bill.
LEMMA MarkedIsFine ==
  ASSUME NEW g, Fine(g), NEW h, Good(h), NEW S, NEW mine, Marked(g, h, S, mine)
  PROVE  Fine(h)
BY DEF Fine, Owing, Resident, Marked

------------------------------------------------------------------------------
(* A stack is split.                                                        *)

\* What is split off n objects of o, as b.
Parted(g, h, o, b, n) ==
  /\ Stays(g, h)
  /\ h.obj[o].quan = g.obj[o].quan - n /\ h.obj[o].where = g.obj[o].where
  /\ h.obj[b].quan = n /\ h.obj[b].where = g.obj[o].where
  /\ \A i \in Ids : i # o /\ i # b =>
       h.obj[i].where = g.obj[i].where /\ h.obj[i].quan = g.obj[i].quan
  /\ \A i \in Ids : i # b =>
       h.obj[i].unpaid = g.obj[i].unpaid /\ h.obj[i].no_charge = g.obj[i].no_charge

\* The objects, before the bill is told.
Cut(g, h, o, b, n) ==
  /\ h \in Worlds /\ h.shop = g.shop /\ h.hero = g.hero
  /\ h.obj[o] = [g.obj[o] EXCEPT !.quan = @ - n]
  /\ h.obj[b] = [g.obj[o] EXCEPT !.quan = n]
  /\ \A i \in Ids : i # o /\ i # b => h.obj[i] = g.obj[i]

LEMMA CutIs ==
  ASSUME NEW g \in Worlds, NEW o \in Ids, NEW b \in Ids, b # o,
         NEW n \in Nat, n < g.obj[o].quan, NEW h,
         h = [g EXCEPT !.obj[o].quan = @ - n, !.obj[b] = [g.obj[o] EXCEPT !.quan = n]]
  PROVE  Cut(g, h, o, b, n)
<1>1. g.obj \in [Ids -> Objects] /\ g.obj[o] \in Objects
  BY DEF Worlds
<1>2. PICK o1 : o1 = [g.obj[o] EXCEPT !.quan = @ - n]
  OBVIOUS
<1>3. PICK b1 : b1 = [g.obj[o] EXCEPT !.quan = n]
  OBVIOUS
<1>4. o1 \in Objects /\ b1 \in Objects
  BY <1>1, <1>2, <1>3 DEF Objects
<1>5. PICK f : f = [g EXCEPT !.obj[o] = o1]
  OBVIOUS
<1>6. h = [f EXCEPT !.obj[b] = b1]
  BY <1>1, <1>2, <1>3, <1>5 DEF Worlds
<1>7. f \in Worlds /\ Replaced(g, f, o, o1)
  BY <1>4, <1>5, ReplacedIs DEF NewObject
<1>8. h \in Worlds /\ Replaced(f, h, b, b1)
  BY <1>4, <1>6, <1>7, ReplacedIs DEF NewObject
<1> QED
  BY <1>2, <1>3, <1>7, <1>8 DEF Cut, Replaced

\* The entry for o is split: there are two, if the bill is not full.
LEMMA SplitIs ==
  ASSUME ShopConstants, NEW g, Good(g), ~g.shop.bill_inactive,
         NEW o \in Ids, Here(g.obj[o]), g.obj[o].unpaid, NEW b \in Ids, b # o,
         g.obj[b].where = "none", NEW n \in Nat \ {0}, n < g.obj[o].quan,
         NEW c, Cut(g, c, o, b, n), NEW s, Tidy(s), Moody(c, s)
  PROVE  LET h == Split(s, o, b, OnBill(s, o))
         IN Good(h) /\ Parted(g, h, o, b, n) /\ Partial(h) \subseteq Partial(g)
<1>1. PICK h : h = Split(s, o, b, OnBill(s, o))
  OBVIOUS
<1>2. PICK k : k = OnBill(s, o)
  OBVIOUS
<1>3. PICK old : old = s.shop.bill
  OBVIOUS
<1>4. PICK was : was = g.obj
  OBVIOUS
<1>5. /\ s \in Worlds /\ old \in Seq(Entries) /\ s.obj \in [Ids -> Objects]
      /\ was \in [Ids -> Objects] /\ g.shop.bill \in Seq(Entries)
      /\ s.shop.surcharge \in BOOLEAN
  BY <1>3, <1>4, GoodIs DEF Tidy, Worlds, Shops, Good
<1>6. SameBill(g.shop.bill, old) /\ s.obj = c.obj /\ s.shop.bill_inactive = g.shop.bill_inactive
      /\ Stays(g, s) /\ s.shop.loan = g.shop.loan /\ s.shop.debit = g.shop.debit
  BY <1>3 DEF Moody, Cut, Stays
<1>7. Agree(old, was) /\ Len(old) <= BILLSZ /\ s.shop.loan <= s.shop.debit
  <2>1. Agree(g.shop.bill, g.obj) /\ Len(g.shop.bill) <= BILLSZ /\ g.shop.loan <= g.shop.debit
    BY DEF Good
  <2>2. Agree(old, g.obj)
    BY <1>5, <1>6, <2>1, AgreeSame
  <2> QED
    BY <1>4, <1>6, <2>1, <2>2 DEF SameBill
<1>8. k \in 1..Len(old) /\ k # 0 /\ old[k].id = o
  <2>1. \E j \in 1..Len(old) : old[j].id = o
    BY <1>4, <1>7 DEF Agree
  <2> QED
    BY <1>2, <1>3, <1>5, <1>6, <2>1, OnBillIs
<1>9. /\ IsFor(old[k], was[o]) /\ old[k] \in Entries /\ old[k].bquan \in Nat
      /\ was[o].quan \in Nat /\ old[k].useup = FALSE /\ was[o].quan <= old[k].bquan
      /\ was[o] \in Objects
  <2>1. IsFor(old[k], was[o]) /\ old[k] \in Entries /\ was[o] \in Objects
    BY <1>5, <1>7, <1>8, BillIs DEF Agree
  <2> QED
    BY <1>4, <2>1 DEF IsFor, Entries, Objects, Here
<1>10. /\ s.obj[o].quan = was[o].quan - n /\ s.obj[o].where = was[o].where
       /\ s.obj[o].unpaid = TRUE
       /\ s.obj[o].unpaid = was[o].unpaid /\ s.obj[o].no_charge = was[o].no_charge
       /\ s.obj[b].quan = n /\ s.obj[b].where = was[o].where /\ s.obj[b].unpaid = TRUE
       /\ \A i \in Ids : i # o /\ i # b => s.obj[i] = was[i]
  BY <1>4, <1>6, <1>9 DEF Cut, Objects
<1>11. old[k].bquan - n \in Nat \ {0} /\ ~(old[k].bquan <= n)
       /\ 0 < was[o].quan - n /\ was[o].quan - n <= old[k].bquan - n
  BY <1>4, <1>9
<1>12. PICK e : e = [old[k] EXCEPT !.bquan = old[k].bquan - n]
  OBVIOUS
<1>13. /\ e \in Entries /\ e.id = o /\ e.bquan = old[k].bquan - n /\ e.useup = FALSE
       /\ e.price = old[k].price
  BY <1>8, <1>9, <1>11, <1>12 DEF Entries
<1>14. PICK b1 : b1 = [old EXCEPT ![k] = e]
  OBVIOUS
<1>15. PICK objs : objs = [was EXCEPT ![o] = s.obj[o]]
  OBVIOUS
<1>16. objs[o] = s.obj[o] /\ \A i \in Ids : i # o => objs[i] = was[i]
  BY <1>5, <1>15
<1>17. IsFor(e, objs[o]) /\ IsFor(e, s.obj[o])
  BY <1>4, <1>10, <1>11, <1>13, <1>16 DEF IsFor, Here
<1>18. /\ Agree(b1, objs) /\ b1 \in Seq(Entries) /\ Len(b1) = Len(old)
       /\ \A j \in 1..Len(old) : b1[j] = IF j = k THEN e ELSE old[j]
  <2>1. \A i \in Ids : i # e.id /\ i # old[k].id => Same(objs[i], was[i])
    BY <1>8, <1>13, <1>16 DEF Same
  <2>2. e.id = old[k].id /\ IsFor(e, objs[e.id])
    BY <1>8, <1>13, <1>17
  <2>3. e.id # old[k].id => /\ \A j \in 1..Len(old) : old[j].id # e.id
                           /\ ~objs[old[k].id].unpaid /\ objs[old[k].id].where # "billed"
    BY <2>2
  <2>4. IsFor(e, objs[e.id]) /\ Agree(old, was)
    BY <1>7, <2>2
  <2>5. e \in Entries /\ k \in 1..Len(old) /\ old \in Seq(Entries)
    BY <1>5, <1>8, <1>13
  <2>6. /\ Agree([old EXCEPT ![k] = e], objs)
        /\ [old EXCEPT ![k] = e] \in Seq(Entries) /\ Len([old EXCEPT ![k] = e]) = Len(old)
        /\ \A j \in 1..Len(old) : [old EXCEPT ![k] = e][j] = IF j = k THEN e ELSE old[j]
    BY <2>1, <2>3, <2>4, <2>5, AgreeReplaced
  <2> QED
    BY <1>14, <2>6
<1>7a. \A j \in 1..Len(old) : old[j].id # b
  BY <1>4, <1>7 DEF Agree, IsFor, Here
<1>20. \A j \in 1..Len(b1) : b1[j].id = old[j].id /\ b1[j].id # b
  BY <1>8, <1>13, <1>18, <1>7a
<1>21. Priced(b1, s.shop.surcharge)
  <2>1. Priced(old, s.shop.surcharge)
    BY <1>3 DEF Tidy
  <2> QED
    BY <1>8, <1>13, <1>18, <2>1 DEF Priced
<1>22. \A i \in Ids : Here(s.obj[i]) => s.obj[i].quan > 0
  <2> TAKE i \in Ids
  <2>1. Here(was[i]) => was[i].quan > 0
    BY <1>4 DEF Good
  <2> QED
    BY <1>10, <1>11, <2>1
<1>23. PICK r : r = [s EXCEPT !.shop.bill = b1]
  OBVIOUS
<1>24. r \in Worlds /\ Books(s, r) /\ r.obj = s.obj /\ r.shop.bill = b1
  <2>1. NewBill(s, r, b1)
    BY <1>23 DEF NewBill
  <2> QED
    BY <1>5, <1>18, <2>1, NewBillIs
<1>25. PICK entry : entry = [id |-> b, bquan |-> s.obj[b].quan, useup |-> FALSE,
                             price |-> old[k].price]
  OBVIOUS
<1>26. h = IF Full(s) THEN [r EXCEPT !.obj[b].unpaid = FALSE]
           ELSE [r EXCEPT !.shop.bill = Append(b1, entry)]
  <2>1. r = [s EXCEPT !.shop.bill[k].bquan = @ - s.obj[b].quan]
    BY <1>3, <1>10, <1>12, <1>14, <1>23
  <2>2. ~(s.shop.bill[k].bquan <= s.obj[b].quan)
    BY <1>3, <1>10, <1>11
  <2>3. entry = [id |-> b, bquan |-> s.obj[b].quan, useup |-> FALSE,
                 price |-> s.shop.bill[k].price]
    BY <1>3, <1>25
  <2>4. h = Split(s, o, b, k)
    BY <1>1, <1>2
  <2>5. h = IF Full(s) THEN [r EXCEPT !.obj[b].unpaid = FALSE]
            ELSE [r EXCEPT !.shop.bill = Append(@, entry)]
    BY <1>8, <2>1, <2>2, <2>3, <2>4 DEF Split
  <2> QED
    BY <1>24, <2>5
<1>27. Len(old) \in Nat /\ BILLSZ \in Nat
  BY <1>5 DEF ShopConstants
<1>28. CASE Full(s)
  <2>1. PICK new : new = [s.obj[b] EXCEPT !.unpaid = FALSE]
    OBVIOUS
  <2>2. /\ new \in Objects /\ new.unpaid = FALSE /\ new.quan = s.obj[b].quan
        /\ new.where = s.obj[b].where
    <3>1. s.obj[b] \in Objects
      BY <1>5
    <3> HIDE <1>5
    <3> QED
      BY <2>1, <3>1 DEF Objects
  <2>3. NewObject(r, h, b, new)
    BY <1>24, <1>26, <1>28, <2>1 DEF NewObject
  <2>4. h \in Worlds /\ Replaced(r, h, b, new)
    BY <1>24, <2>2, <2>3, ReplacedIs
  <2>5. h.shop.bill = b1 /\ Books(s, h)
    BY <1>24, <2>4 DEF Replaced, Books
  <2>6. Agree(b1, h.obj)
    <3>1. \A i \in Ids : i # b => Same(h.obj[i], objs[i])
      BY <1>10, <1>16, <1>24, <2>4 DEF Replaced, Same
    <3>2. ~h.obj[b].unpaid /\ h.obj[b].where # "billed"
      BY <1>4, <1>10, <2>2, <2>4 DEF Replaced, Here
    <3> QED
      BY <1>18, <1>20, <3>1, <3>2, AgreeAt
  <2>7. \A i \in Ids : h.obj[i].quan = s.obj[i].quan /\ h.obj[i].where = s.obj[i].where
    BY <1>24, <2>2, <2>4 DEF Replaced
  <2>8. \A i \in Ids : Here(h.obj[i]) => h.obj[i].quan > 0
    BY <1>22, <2>7 DEF Here
  <2>9. Good(h) /\ Stays(s, h)
    BY <1>7, <1>18, <1>21, <2>4, <2>5, <2>6, <2>8, BooksAreGood
  <2>10. Parted(g, h, o, b, n)
    <3>1. \A i \in Ids : i # b => h.obj[i].unpaid = was[i].unpaid /\ h.obj[i].no_charge = was[i].no_charge
      BY <1>10, <1>24, <2>4 DEF Replaced
    <3> QED
      BY <1>4, <1>6, <1>10, <2>7, <2>9, <3>1 DEF Parted, Stays
  <2>11. Partial(h) \subseteq Partial(g)
    <3> SUFFICES ASSUME NEW i \in Partial(h) PROVE i \in Partial(g)
      OBVIOUS
    <3>1. DOMAIN b1 = 1..Len(old) /\ DOMAIN g.shop.bill = 1..Len(old)
      BY <1>5, <1>6, <1>18, BillIs DEF SameBill
    <3>2. i \in Ids
      BY DEF Partial
    <3>3. PICK j \in 1..Len(old) : b1[j].id = i /\ b1[j].bquan > h.obj[i].quan
      BY <2>5, <3>1 DEF Partial
    <3>4. old[j].id = i /\ i # b
      BY <1>18, <1>20, <3>3
    <3>5. old[j].bquan > was[i].quan
      <4>1. CASE j = k
        BY <1>8, <1>9, <1>10, <1>13, <1>18, <2>7, <3>3, <3>4, <4>1
      <4>2. CASE j # k
        <5>1. i # o
          BY <1>7, <1>8, <3>4, <4>2 DEF Agree
        <5> QED
          BY <1>10, <1>18, <2>7, <3>2, <3>3, <3>4, <4>2, <5>1
      <4> QED
        BY <4>1, <4>2
    <3>6. g.shop.bill[j].id = i /\ g.shop.bill[j].bquan > g.obj[i].quan
      BY <1>4, <1>6, <3>4, <3>5 DEF SameBill
    <3> QED
      BY <3>1, <3>2, <3>6 DEF Partial
  <2> QED
    BY <1>1, <2>9, <2>10, <2>11
<1>29. CASE ~Full(s)
  <2>1. PICK b2 : b2 = Append(b1, entry)
    OBVIOUS
  <2>2. /\ entry \in Entries /\ entry.id = b /\ entry.bquan = n /\ entry.useup = FALSE
        /\ entry.price = old[k].price
    <3>1. old[k].price \in Prices \cup Sums /\ s.obj[b].quan \in Nat \ {0}
      BY <1>9, <1>10 DEF Entries
    <3> QED
      BY <1>10, <1>25, <3>1 DEF Entries
  <2>3. /\ Agree(b2, s.obj) /\ b2 \in Seq(Entries) /\ Len(b2) = Len(b1) + 1
        /\ b2[Len(b1) + 1] = entry /\ \A j \in 1..Len(b1) : b2[j] = b1[j]
    <3>1. \A i \in Ids : i # entry.id => Same(s.obj[i], objs[i])
      BY <1>10, <1>16, <2>2 DEF Same
    <3>2. IsFor(entry, s.obj[entry.id])
      BY <1>4, <1>10, <2>2 DEF IsFor, Here
    <3>3. \A j \in 1..Len(b1) : b1[j].id # entry.id
      BY <1>20, <2>2
    <3>4. PICK others : others = s.obj
      OBVIOUS
    <3>5. /\ Agree(Append(b1, entry), others) /\ Append(b1, entry) \in Seq(Entries)
          /\ Len(Append(b1, entry)) = Len(b1) + 1 /\ Append(b1, entry)[Len(b1) + 1] = entry
          /\ \A j \in 1..Len(b1) : Append(b1, entry)[j] = b1[j]
      BY <1>18, <2>2, <3>1, <3>2, <3>3, <3>4, AgreeAppended
    <3> QED
      BY <2>1, <3>4, <3>5
  <2>4. h \in Worlds /\ Books(r, h) /\ h.obj = r.obj /\ h.shop.bill = b2
    <3>1. NewBill(r, h, b2)
      BY <1>26, <1>29, <2>1 DEF NewBill
    <3> QED
      BY <1>24, <2>3, <3>1, NewBillIs
  <2>5. Books(s, h) /\ h.obj = s.obj
    BY <1>24, <2>4 DEF Books
  <2>6. \A j \in 1..Len(b2) : j = Len(b1) + 1 \/ j \in 1..Len(b1)
    BY <1>18, <1>27, <2>3
  <2>7. Len(b2) <= BILLSZ
    BY <1>3, <1>7, <1>18, <1>27, <1>29, <2>3 DEF Full
  <2>8. Priced(b2, s.shop.surcharge)
    <3>1. old[k].price \in (IF s.shop.surcharge THEN Sums ELSE Prices)
      BY <1>3, <1>8 DEF Tidy, Priced
    <3> QED
      BY <1>21, <2>2, <2>3, <2>6, <3>1 DEF Priced
  <2>9. Good(h) /\ Stays(s, h)
    BY <1>7, <1>22, <2>3, <2>4, <2>5, <2>7, <2>8, BooksAreGood
  <2>10. Parted(g, h, o, b, n)
    BY <1>4, <1>6, <1>10, <2>5, <2>9 DEF Parted, Stays
  <2>11. Partial(h) \subseteq Partial(g)
    <3> SUFFICES ASSUME NEW i \in Partial(h) PROVE i \in Partial(g)
      OBVIOUS
    <3>1. DOMAIN b2 = 1..Len(b2) /\ DOMAIN g.shop.bill = 1..Len(old)
      BY <1>5, <1>6, <2>3, BillIs DEF SameBill
    <3>2. i \in Ids
      BY DEF Partial
    <3>3. PICK j \in 1..Len(b2) : b2[j].id = i /\ b2[j].bquan > s.obj[i].quan
      BY <2>4, <2>5, <3>1 DEF Partial
    <3>4. j # Len(b1) + 1
      BY <1>10, <2>2, <2>3, <3>3
    <3>5. j \in 1..Len(old) /\ b2[j] = b1[j]
      BY <1>18, <2>3, <2>6, <3>4
    <3>6. old[j].id = i /\ i # b
      BY <1>18, <1>20, <3>3, <3>5
    <3>7. old[j].bquan > was[i].quan
      <4>1. CASE j = k
        BY <1>8, <1>9, <1>10, <1>13, <1>18, <3>3, <3>5, <3>6, <4>1
      <4>2. CASE j # k
        <5>1. i # o
          BY <1>7, <1>8, <3>5, <3>6, <4>2 DEF Agree
        <5> QED
          BY <1>10, <1>18, <3>2, <3>3, <3>5, <3>6, <4>2, <5>1
      <4> QED
        BY <4>1, <4>2
    <3>8. g.shop.bill[j].id = i /\ g.shop.bill[j].bquan > g.obj[i].quan
      BY <1>4, <1>6, <3>5, <3>6, <3>7 DEF SameBill
    <3> QED
      BY <3>1, <3>2, <3>5, <3>8 DEF Partial
  <2> QED
    BY <1>1, <2>9, <2>10, <2>11
<1> QED
  BY <1>28, <1>29

\* There is room for one object less.
LEMMA RoomTaken ==
  ASSUME ShopConstants, NEW g, NEW h, NEW b \in Unused(g), Unused(h) = Unused(g) \ {b},
         Partial(h) \subseteq Partial(g), NEW n \in Nat, Room(g, n + 1)
  PROVE  Room(h, n)
<1>1. /\ IsFiniteSet(Unused(g)) /\ IsFiniteSet(Partial(g))
      /\ Cardinality(Unused(g)) \in Nat /\ Cardinality(Partial(g)) \in Nat
      /\ Cardinality(Unused(h)) \in Nat /\ Cardinality(Partial(h)) \in Nat
  BY RoomIs
<1>2. Cardinality(Unused(h)) = Cardinality(Unused(g)) - 1
  BY <1>1, FS_RemoveElement
<1>3. Cardinality(Partial(h)) <= Cardinality(Partial(g))
  BY <1>1, FS_Subset
<1>4. Cardinality(Unused(g)) >= (n + 1) + Cardinality(Partial(g))
  BY DEF Room
<1> QED
  BY <1>1, <1>2, <1>3, <1>4 DEF Room

LEMMA RoomKept ==
  ASSUME ShopConstants, NEW g, NEW h, Unused(g) \subseteq Unused(h),
         Partial(h) \subseteq Partial(g), NEW n \in Nat, Room(g, n)
  PROVE  Room(h, n)
<1>1. /\ IsFiniteSet(Unused(h)) /\ IsFiniteSet(Partial(g))
      /\ Cardinality(Unused(g)) \in Nat /\ Cardinality(Partial(g)) \in Nat
      /\ Cardinality(Unused(h)) \in Nat /\ Cardinality(Partial(h)) \in Nat
  BY RoomIs
<1>2. Cardinality(Unused(g)) <= Cardinality(Unused(h))
  BY <1>1, FS_Subset
<1>3. Cardinality(Partial(h)) <= Cardinality(Partial(g))
  BY <1>1, FS_Subset
<1>4. Cardinality(Unused(g)) >= n + Cardinality(Partial(g))
  BY DEF Room
<1> QED
  BY <1>1, <1>2, <1>3, <1>4 DEF Room

\* splitobj: the bill is told if the stack is on it.
LEMMA SplitObj ==
  ASSUME ShopConstants, NEW g, Fine(g), NEW o \in Ids, Here(g.obj[o]),
         NEW n \in Nat \ {0}, n < g.obj[o].quan, NEW r \in Nat, Room(g, r + 1)
  PROVE  /\ Fresh(g) \in Ids /\ Fresh(g) # o /\ Fresh(g) # Box /\ g.obj[Fresh(g)].where = "none"
         /\ Fine(splitobj(g, o, n)) /\ Parted(g, splitobj(g, o, n), o, Fresh(g), n)
         /\ Room(splitobj(g, o, n), r)
<1>1. PICK b : b = Fresh(g)
  OBVIOUS
<1>2. PICK h : h = splitobj(g, o, n)
  OBVIOUS
<1>3. Good(g) /\ g \in Worlds /\ Owing(g)
  BY DEF Fine, Good
<1>4. /\ b \in Unused(g) /\ b \in Ids /\ b # Box /\ b # o /\ g.obj[b].where = "none"
      /\ ~g.obj[b].unpaid /\ \A k \in 1..Len(g.shop.bill) : g.shop.bill[k].id # b
  <2>1. Unused(g) # {}
    <3>1. r + 1 \in Nat /\ r + 1 > 0
      OBVIOUS
    <3> QED
      BY <3>1, RoomLeft
  <2> QED
    BY <1>1, <1>3, <2>1, FreshIs DEF Here
<1>5. PICK c : c = [g EXCEPT !.obj[o].quan = @ - n, !.obj[b] = [g.obj[o] EXCEPT !.quan = n]]
  OBVIOUS
<1>6. Cut(g, c, o, b, n)
  BY <1>3, <1>4, <1>5, CutIs
<1>7. h = IF g.obj[o].unpaid THEN splitbill(c, o, b) ELSE c
  BY <1>1, <1>2, <1>5 DEF splitobj
<1>8. g.obj[o] \in Objects /\ g.obj[o].quan \in Nat
  BY <1>3, GoodIs
<1>9. Fine(h) /\ Parted(g, h, o, b, n) /\ Partial(h) \subseteq Partial(g)
  <2>1. CASE g.obj[o].unpaid
    <3>1. Resident(g) /\ ~g.shop.bill_inactive
      <4>1. \E k \in 1..Len(g.shop.bill) : g.shop.bill[k].id = o
        BY <1>3, <2>1 DEF Good, Agree
      <4>2. g.shop.bill # <<>>
        BY <4>1
      <4> QED
        BY <1>3, <4>2 DEF Owing, Resident
    <3>2. Tidy(c) /\ c.shop = g.shop /\ c.hero = g.hero
      BY <1>3, <1>6 DEF Tidy, Cut, Good
    <3>3. PICK s : s = Keeper(c)
      OBVIOUS
    <3>4. Tidy(s) /\ Moody(c, s)
      BY <3>2, <3>3, KeeperTidy
    <3>5. AtHome(s) /\ s.hero.ushops
      BY <3>1, <3>2, <3>4 DEF Resident, Moody, AtHome
    <3>6. h = Split(s, o, b, OnBill(s, o))
      BY <1>7, <2>1, <3>1, <3>2, <3>3, <3>5 DEF splitbill, Resident
    <3>7. Good(h) /\ Parted(g, h, o, b, n) /\ Partial(h) \subseteq Partial(g)
      BY <1>3, <1>4, <1>6, <2>1, <3>1, <3>4, <3>6, SplitIs
    <3> QED
      BY <3>1, <3>7, ResidentIsFine DEF Parted
  <2>2. CASE ~g.obj[o].unpaid
    <3>1. PICK o1 : o1 = [g.obj[o] EXCEPT !.quan = @ - n]
      OBVIOUS
    <3>2. PICK b1 : b1 = [g.obj[o] EXCEPT !.quan = n]
      OBVIOUS
    <3>3. /\ o1 \in Objects /\ o1.quan = g.obj[o].quan - n /\ o1.where = g.obj[o].where
          /\ o1.unpaid = g.obj[o].unpaid /\ o1.no_charge = g.obj[o].no_charge
      BY <1>8, <3>1 DEF Objects
    <3>4. /\ b1 \in Objects /\ b1.quan = n /\ b1.where = g.obj[o].where
          /\ b1.unpaid = g.obj[o].unpaid
      BY <1>8, <3>2 DEF Objects
    <3>5. PICK f : f = [g EXCEPT !.obj[o] = o1]
      OBVIOUS
    <3>6. Good(f) /\ Replaced(g, f, o, o1)
      <4>1. NewObject(g, f, o, o1)
        BY <3>5 DEF NewObject
      <4>2. Here(o1) /\ o1.quan > 0 /\ o1.quan <= g.obj[o].quan
        BY <1>8, <3>3 DEF Here
      <4> QED
        BY <1>3, <3>3, <4>1, <4>2, HereIsGood
    <3>7. c = [f EXCEPT !.obj[b] = b1]
      BY <1>3, <1>4, <1>5, <3>1, <3>2, <3>5 DEF Worlds
    <3>8. Good(c) /\ Replaced(f, c, b, b1)
      <4>1. NewObject(f, c, b, b1)
        BY <3>7 DEF NewObject
      <4>2. f.obj[b].where = "none"
        BY <1>4, <3>6 DEF Replaced
      <4>3. b1.quan > 0 /\ ~b1.unpaid /\ b1.where # "billed"
        BY <2>2, <3>4 DEF Here
      <4> QED
        BY <1>4, <3>4, <3>6, <4>1, <4>2, <4>3, NewIsGood
    <3>9. h = c
      BY <1>7, <2>2
    <3>10. /\ h.shop = g.shop /\ h.hero = g.hero /\ h.obj[o] = o1 /\ h.obj[b] = b1
           /\ \A i \in Ids : i # o /\ i # b => h.obj[i] = g.obj[i]
      BY <1>4, <3>6, <3>8, <3>9 DEF Replaced
    <3>11. Parted(g, h, o, b, n)
      BY <3>3, <3>4, <3>10 DEF Parted, Stays
    <3>12. Fine(h)
      <4>1. Good(h)
        BY <3>8, <3>9
      <4>2. Owing(g) /\ h.shop = g.shop /\ h.hero = g.hero
        BY <1>3, <3>10
      <4>3. Owing(h)
        BY <4>2 DEF Owing, Resident
      <4> QED
        BY <4>1, <4>3 DEF Fine
    <3>13. \A k \in 1..Len(g.shop.bill) : g.shop.bill[k].id # o
      BY <1>3, <2>2 DEF Good, Agree, IsFor, Here
    <3>14. Partial(h) \subseteq Partial(g)
      <4>1. DOMAIN g.shop.bill = 1..Len(g.shop.bill)
        BY <1>3, GoodIs, BillIs
      <4> QED
        BY <1>4, <3>10, <3>13, <4>1 DEF Partial
    <3> QED
      BY <3>11, <3>12, <3>14
  <2> QED
    BY <2>1, <2>2
<1>10. Unused(h) = Unused(g) \ {b}
  BY <1>4, <1>9 DEF Unused, Parted, Here
<1>11. Room(h, r)
  BY <1>4, <1>9, <1>10, RoomTaken
<1> QED
  BY <1>1, <1>2, <1>4, <1>9, <1>11

\* The objects a command is about, in a stack of their own.
LEMMA ApartIs ==
  ASSUME ShopConstants, NEW g, Fine(g), NEW o \in Ids, Here(g.obj[o]),
         NEW n \in Nat \ {0}, n <= g.obj[o].quan, NEW r \in Nat,
         Room(g, (IF g.obj[o].quan > 1 THEN 1 ELSE 0) + r)
  PROVE  LET b == Part(g, o, n)
             h == Apart(g, o, n)
         IN /\ b \in Ids /\ (b = Box => o = Box)
            /\ Fine(h) /\ Stays(g, h) /\ Room(h, r)
            /\ h.obj[b].where = g.obj[o].where /\ h.obj[b].quan > 0
            /\ \A i \in Ids : i # b => h.obj[i].where = g.obj[i].where
            /\ Eased(g, h, {b})
<1>1. PICK b : b = Part(g, o, n)
  OBVIOUS
<1>2. PICK h : h = Apart(g, o, n)
  OBVIOUS
<1>3. Good(g) /\ g.obj[o].quan \in Nat /\ g.obj[o].quan > 0
  BY GoodIs DEF Fine, Good
<1>4. CASE n < g.obj[o].quan
  <2>1. Room(g, r + 1)
    BY <1>3, <1>4
  <2>2. b = Fresh(g) /\ h = splitobj(g, o, n)
    BY <1>1, <1>2, <1>4 DEF Part, Apart
  <2>3. /\ b \in Ids /\ b # o /\ b # Box /\ g.obj[b].where = "none"
        /\ Fine(h) /\ Parted(g, h, o, b, n) /\ Room(h, r)
    BY <1>4, <2>1, <2>2, SplitObj
  <2>4. Eased(g, h, {b})
    BY <2>3 DEF Parted, Eased
  <2> QED
    BY <1>1, <1>2, <2>3, <2>4 DEF Parted
<1>5. CASE ~(n < g.obj[o].quan)
  <2>1. b = o /\ h = g
    BY <1>1, <1>2, <1>5 DEF Part, Apart
  <2>2. Room(g, r)
    <3>1. CASE g.obj[o].quan > 1
      BY <3>1, RoomIs DEF Room
    <3>2. CASE ~(g.obj[o].quan > 1)
      BY <3>2
    <3> QED
      BY <3>1, <3>2
  <2>3. Stays(g, h) /\ Eased(g, h, {b})
    BY <2>1 DEF Stays, Eased
  <2> QED
    BY <1>1, <1>2, <1>3, <2>1, <2>2, <2>3
<1> QED
  BY <1>4, <1>5

------------------------------------------------------------------------------
(* Stacks are merged.                                                       *)

\* The objects, when b has become part of a.
Joins(g, h, a, b) ==
  h = [g EXCEPT !.obj[a].quan = @ + g.obj[b].quan, !.obj[b] = Nothing]

LEMMA JoinedObjects ==
  ASSUME NEW g \in Worlds, NEW a \in Ids, NEW b \in Ids, a # b,
         NEW h, Joins(g, h, a, b)
  PROVE  \E a1 \in Objects : \E f :
           /\ NewObject(g, f, a, a1) /\ NewObject(f, h, b, Nothing) /\ Nothing \in Objects
           /\ a1.quan = g.obj[a].quan + g.obj[b].quan /\ a1.where = g.obj[a].where
           /\ a1.unpaid = g.obj[a].unpaid /\ a1.no_charge = g.obj[a].no_charge
<1>1. g.obj \in [Ids -> Objects] /\ g.obj[a] \in Objects /\ g.obj[b] \in Objects
  BY DEF Worlds
<1>2. PICK a1 : a1 = [g.obj[a] EXCEPT !.quan = @ + g.obj[b].quan]
  OBVIOUS
<1>3. /\ a1 \in Objects /\ a1.quan = g.obj[a].quan + g.obj[b].quan
      /\ a1.where = g.obj[a].where /\ a1.unpaid = g.obj[a].unpaid
      /\ a1.no_charge = g.obj[a].no_charge
  BY <1>1, <1>2 DEF Objects
<1>4. PICK f : f = [g EXCEPT !.obj[a] = a1]
  OBVIOUS
<1>5. h = [f EXCEPT !.obj[b] = Nothing]
  BY <1>1, <1>2, <1>4 DEF Worlds, Joins
<1>6. Nothing \in Objects
  BY DEF Nothing, Objects
<1> QED
  BY <1>3, <1>4, <1>5, <1>6 DEF NewObject

\* What merging b into a comes to.
Merged(g, h, b) ==
  /\ Fine(h) /\ Stays(g, h)
  /\ \A i \in Ids : h.obj[i].where = IF i = b THEN "none" ELSE g.obj[i].where
  /\ \A i \in Ids : i # b =>
       h.obj[i].unpaid = g.obj[i].unpaid /\ h.obj[i].no_charge = g.obj[i].no_charge

\* Neither is on the bill.
LEMMA JoinOwn ==
  ASSUME NEW s, Fine(s), NEW a \in Ids, NEW b \in Ids, a # b, Here(s.obj[a]), Here(s.obj[b]),
         ~s.obj[a].unpaid, ~s.obj[b].unpaid, NEW h, Joins(s, h, a, b)
  PROVE  Merged(s, h, b)
<1>1. Good(s) /\ s \in Worlds
  BY DEF Fine, Good
<1>2. PICK a1 \in Objects : \E f :
           /\ NewObject(s, f, a, a1) /\ NewObject(f, h, b, Nothing) /\ Nothing \in Objects
           /\ a1.quan = s.obj[a].quan + s.obj[b].quan /\ a1.where = s.obj[a].where
           /\ a1.unpaid = s.obj[a].unpaid /\ a1.no_charge = s.obj[a].no_charge
  BY <1>1, JoinedObjects
<1>30. PICK f :
           /\ NewObject(s, f, a, a1) /\ NewObject(f, h, b, Nothing) /\ Nothing \in Objects
           /\ a1.quan = s.obj[a].quan + s.obj[b].quan /\ a1.where = s.obj[a].where
           /\ a1.unpaid = s.obj[a].unpaid /\ a1.no_charge = s.obj[a].no_charge
  BY <1>2
<1>3. f \in Worlds /\ Replaced(s, f, a, a1)
  BY <1>1, <1>30, ReplacedIs
<1>4. h \in Worlds /\ Replaced(f, h, b, Nothing)
  BY <1>30, <1>3, ReplacedIs
<1>5. \A k \in 1..Len(s.shop.bill) : s.shop.bill[k].id # a /\ s.shop.bill[k].id # b
  BY <1>1 DEF Good, Agree, IsFor, Here
<1>6. /\ s.obj[a].quan \in Nat /\ s.obj[b].quan \in Nat
      /\ s.obj[a].quan > 0 /\ s.obj[b].quan > 0
  BY <1>1, GoodIs DEF Good
<1>7. Good(f)
  <2>1. a1.quan > 0
    BY <1>30, <1>6
  <2>2. ~a1.unpaid /\ a1.where # "billed"
    BY <1>30 DEF Here
  <2> QED
    BY <1>1, <1>3, <1>5, <2>1, <2>2, ReplacedIsGood
<1>8. ~Nothing.unpaid /\ Nothing.where = "none"
  BY DEF Nothing
<1>9. Good(h)
  <2>1. \A k \in 1..Len(f.shop.bill) : f.shop.bill[k].id # b
    BY <1>3, <1>5 DEF Replaced
  <2>2. ~Here(Nothing)
    BY <1>8 DEF Here
  <2> QED
    BY <1>4, <1>7, <1>8, <2>1, <2>2, ReplacedIsGood
<1>10. h.shop = s.shop /\ h.hero = s.hero
  BY <1>3, <1>4 DEF Replaced
<1>11. Fine(h) /\ Stays(s, h)
  <2>1. Owing(h)
    BY <1>10 DEF Fine, Owing, Resident
  <2> QED
    BY <1>9, <1>10, <2>1 DEF Fine, Stays
<1>12. \A i \in Ids : h.obj[i].where = IF i = b THEN "none" ELSE s.obj[i].where
  BY <1>30, <1>3, <1>4, <1>8 DEF Replaced
<1>13. \A i \in Ids : i # b =>
         h.obj[i].unpaid = s.obj[i].unpaid /\ h.obj[i].no_charge = s.obj[i].no_charge
  BY <1>30, <1>3, <1>4 DEF Replaced
<1> QED
  BY <1>11, <1>12, <1>13 DEF Merged

\* Both are on the bill.
JoinsEntries(s, h, a, b, k, j) ==
  \E d : /\ d = [s EXCEPT !.shop.bill =
                   Without([s.shop.bill EXCEPT ![j].bquan = s.shop.bill[j].bquan
                                                              + s.shop.bill[k].bquan], k)]
         /\ h = [d EXCEPT !.obj[a].quan = @ + s.obj[b].quan, !.obj[b] = Nothing]

LEMMA JoinUnpaid ==
  ASSUME ShopConstants, NEW s, Fine(s), NEW a \in Ids, NEW b \in Ids, a # b,
         Here(s.obj[a]), Here(s.obj[b]),
         NEW k \in 1..Len(s.shop.bill), s.shop.bill[k].id = b,
         NEW j \in 1..Len(s.shop.bill), s.shop.bill[j].id = a,
         NEW h, JoinsEntries(s, h, a, b, k, j)
  PROVE  Merged(s, h, b)
<1>1. Good(s) /\ s \in Worlds /\ s.shop.loan <= s.shop.debit
  BY DEF Fine, Good
<1>2. PICK old : old = s.shop.bill
  OBVIOUS
<1>3. PICK was : was = s.obj
  OBVIOUS
<1>4. /\ old \in Seq(Entries) /\ Agree(old, was) /\ was \in [Ids -> Objects]
      /\ Len(old) <= BILLSZ /\ Priced(old, s.shop.surcharge)
  BY <1>1, <1>2, <1>3, GoodIs DEF Good, Worlds
<1>5. /\ k \in 1..Len(old) /\ j \in 1..Len(old) /\ j # k
      /\ old[k].id = b /\ old[j].id = a
      /\ old[k] \in Entries /\ old[j] \in Entries
      /\ old[k].bquan \in Nat \ {0} /\ old[j].bquan \in Nat \ {0}
  BY <1>2, <1>4, BillIs
<1>6. /\ IsFor(old[k], was[b]) /\ IsFor(old[j], was[a])
      /\ was[a] \in Objects /\ was[b] \in Objects /\ was[a].quan \in Nat /\ was[b].quan \in Nat
  BY <1>4, <1>5 DEF Agree, Objects
<1>7. /\ was[a].quan > 0 /\ was[b].quan > 0 /\ ~old[j].useup /\ was[a].unpaid /\ Here(was[a])
      /\ was[a].quan + was[b].quan <= old[j].bquan + old[k].bquan
  BY <1>3, <1>5, <1>6 DEF IsFor, Here
<1>30. PICK sum : sum = old[j].bquan + old[k].bquan
  OBVIOUS
<1>8. PICK e : e = [old[j] EXCEPT !.bquan = sum]
  OBVIOUS
<1>9. /\ e \in Entries /\ e.id = a /\ e.bquan = old[j].bquan + old[k].bquan
      /\ e.useup = old[j].useup /\ e.price = old[j].price
  <2>1. sum = old[j].bquan + old[k].bquan
    BY <1>30
  <2>2. sum \in Nat \ {0}
    BY <1>5, <2>1
  <2>3. old[j] \in Entries /\ old[j].id = a
    BY <1>5
  <2> QED
    BY <1>8, <2>1, <2>2, <2>3 DEF Entries
<1>10. PICK b1 : b1 = [old EXCEPT ![j] = e]
  OBVIOUS
<1>11. b1 = [s.shop.bill EXCEPT ![j].bquan = s.shop.bill[j].bquan + s.shop.bill[k].bquan]
  BY <1>2, <1>8, <1>10, <1>30
<1>12. PICK b2 : b2 = Without(b1, k)
  OBVIOUS
<1>13. PICK a1 : a1 = [was[a] EXCEPT !.quan = @ + was[b].quan]
  OBVIOUS
<1>14. /\ a1 \in Objects /\ a1.quan = was[a].quan + was[b].quan
       /\ a1.where = was[a].where /\ a1.unpaid = was[a].unpaid
       /\ a1.no_charge = was[a].no_charge
  <2>1. PICK n \in Nat : n = was[a].quan + was[b].quan
    BY <1>6
  <2>2. a1 = [was[a] EXCEPT !.quan = n] /\ was[a] \in Objects
    BY <1>6, <1>13, <2>1
  <2> QED
    BY <2>1, <2>2 DEF Objects
<1>15. PICK objs : objs = [was EXCEPT ![a] = a1]
  OBVIOUS
<1>16. PICK others : others = [objs EXCEPT ![b] = Nothing]
  OBVIOUS
<1>17. Nothing \in Objects /\ ~Nothing.unpaid /\ Nothing.where = "none"
  BY DEF Nothing, Objects
<1>18. /\ objs \in [Ids -> Objects] /\ objs[a] = a1
       /\ \A i \in Ids : i # a => objs[i] = was[i]
  BY <1>4, <1>14, <1>15
<1>7a. /\ others \in [Ids -> Objects] /\ others[b] = Nothing
       /\ \A i \in Ids : i # b => others[i] = objs[i]
  BY <1>16, <1>17, <1>18
<1>20. NewBooks(s, h, b2, others)
  <2>1. PICK d : /\ d = [s EXCEPT !.shop.bill = b2]
                 /\ h = [d EXCEPT !.obj[a].quan = @ + s.obj[b].quan, !.obj[b] = Nothing]
    BY <1>11, <1>12 DEF JoinsEntries
  <2> QED
    BY <1>1, <1>2, <1>3, <1>13, <1>15, <1>16, <2>1 DEF NewBooks, Worlds
<1>21. /\ Agree(b1, objs) /\ b1 \in Seq(Entries) /\ Len(b1) = Len(old)
       /\ \A m \in 1..Len(old) : b1[m] = IF m = j THEN e ELSE old[m]
  <2>1. \A i \in Ids : i # e.id /\ i # old[j].id => Same(objs[i], was[i])
    BY <1>9, <1>18 DEF Same
  <2>2. e.id # old[j].id => /\ \A m \in 1..Len(old) : old[m].id # e.id
                           /\ ~objs[old[j].id].unpaid /\ objs[old[j].id].where # "billed"
    BY <1>5, <1>9
  <2>3. IsFor(e, objs[e.id]) /\ Agree(old, was)
    <3>1. objs[e.id] = a1 /\ a1.unpaid /\ Here(a1) /\ ~e.useup
      BY <1>7, <1>9, <1>14, <1>18 DEF Here
    <3>2. 0 < a1.quan /\ a1.quan <= e.bquan
      BY <1>6, <1>7, <1>9, <1>14
    <3> QED
      BY <1>4, <3>1, <3>2 DEF IsFor
  <2>4. e \in Entries /\ j \in 1..Len(old) /\ old \in Seq(Entries)
    BY <1>4, <1>5, <1>9
  <2>5. /\ Agree([old EXCEPT ![j] = e], objs)
        /\ [old EXCEPT ![j] = e] \in Seq(Entries) /\ Len([old EXCEPT ![j] = e]) = Len(old)
        /\ \A m \in 1..Len(old) : [old EXCEPT ![j] = e][m] = IF m = j THEN e ELSE old[m]
    BY <2>1, <2>2, <2>3, <2>4, AgreeReplaced
  <2> QED
    BY <1>10, <2>5
<1>22. b1[k].id = b /\ k \in 1..Len(b1)
  BY <1>5, <1>21
<1>23. Agree(b2, others)
  <2>1. \A i \in Ids : i # b1[k].id => Same(others[i], objs[i])
    BY <1>7a, <1>22 DEF Same
  <2>2. ~others[b1[k].id].unpaid /\ others[b1[k].id].where # "billed"
    BY <1>17, <1>7a, <1>22
  <2>3. Agree(Without(b1, k), others)
    BY <1>21, <1>22, <2>1, <2>2, AgreeWithout
  <2> QED
    BY <1>12, <2>3
<1>24. /\ b2 \in Seq(Entries) /\ Len(b2) = Len(b1) - 1 /\ Len(b1) \in Nat
       /\ \A m \in 1..(Len(b1) - 1) : b2[m] = IF m = k THEN b1[Len(b1)] ELSE b1[m]
  BY <1>12, <1>21, <1>22, WithoutIs
<1>25. Priced(b2, s.shop.surcharge)
  <2>1. \A m \in 1..Len(b1) : b1[m].price = old[m].price
    BY <1>9, <1>21
  <2>2. Priced(b1, s.shop.surcharge)
    BY <1>4, <1>21, <2>1 DEF Priced
  <2>3. Len(b1) \in 1..Len(b1) /\ \A m \in 1..(Len(b1) - 1) : m \in 1..Len(b1)
    BY <1>22, <1>24
  <2> QED
    BY <1>24, <2>2, <2>3 DEF Priced
<1>26. Len(b2) <= BILLSZ
  <2>1. Len(old) <= BILLSZ /\ BILLSZ \in Nat
    BY <1>4 DEF ShopConstants
  <2> QED
    BY <1>21, <1>24, <2>1
<1>27. \A i \in Ids : Here(others[i]) => others[i].quan > 0
  <2> TAKE i \in Ids
  <2>1. CASE i = a
    BY <1>6, <1>7, <1>14, <1>18, <1>7a, <2>1
  <2>2. CASE i = b
    BY <1>17, <1>7a, <2>2 DEF Here
  <2>3. CASE i # a /\ i # b
    BY <1>1, <1>3, <1>18, <1>7a, <2>3 DEF Good
  <2> QED
    BY <2>1, <2>2, <2>3
<1>28. Good(h) /\ Stays(s, h) /\ h.obj = others
  <2>1. /\ s \in Worlds /\ s.shop.loan <= s.shop.debit /\ b2 \in Seq(Entries)
        /\ others \in [Ids -> Objects] /\ Len(b2) <= BILLSZ
        /\ Priced(b2, s.shop.surcharge) /\ Agree(b2, others) /\ NewBooks(s, h, b2, others)
    BY <1>1, <1>7a, <1>20, <1>23, <1>24, <1>25, <1>26
  <2> QED
    BY <1>27, <2>1, NewBillIsGood
<1>29. Resident(s)
  <2>1. old # <<>>
    BY <1>5
  <2> QED
    BY <1>2, <2>1 DEF Fine, Owing
<1>32. Fine(h)
  BY <1>28, <1>29, ResidentIsFine
<1>31. \A i \in Ids : h.obj[i].where = IF i = b THEN "none" ELSE s.obj[i].where
  BY <1>3, <1>14, <1>17, <1>18, <1>7a, <1>28
<1>33. \A i \in Ids : i # b =>
         h.obj[i].unpaid = s.obj[i].unpaid /\ h.obj[i].no_charge = s.obj[i].no_charge
  BY <1>3, <1>14, <1>18, <1>7a, <1>28
<1> QED
  BY <1>28, <1>31, <1>32, <1>33 DEF Merged

LEMMA MergedIs ==
  ASSUME ShopConstants, NEW g, Fine(g), NEW a \in Ids, NEW b \in Ids, a # b,
         Here(g.obj[a]), Here(g.obj[b]), g.obj[a].unpaid = g.obj[b].unpaid
  PROVE  Merged(g, merged(g, a, b), b)
<1>1. PICK s : s = IF g.hero.ushops \/ g.obj[b].unpaid THEN Keeper(g) ELSE g
  OBVIOUS
<1>2. Good(g) /\ Good(Keeper(g)) /\ Moody(g, Keeper(g))
  BY KeeperIs DEF Fine
<1>3. Fine(s) /\ Stays(g, s) /\ s.obj = g.obj
  <2>1. CASE g.hero.ushops \/ g.obj[b].unpaid
    BY <1>1, <1>2, <2>1, MoodyIsFine DEF Moody, Stays
  <2>2. CASE ~(g.hero.ushops \/ g.obj[b].unpaid)
    BY <1>1, <2>2 DEF Stays
  <2> QED
    BY <2>1, <2>2
<1>4. Good(s) /\ Here(s.obj[a]) /\ Here(s.obj[b]) /\ s.obj[a].unpaid = s.obj[b].unpaid
  BY <1>3 DEF Fine
<1>5. PICK k : k = OnBill(s, b)
  OBVIOUS
<1>6. PICK j : j = OnBill(s, a)
  OBVIOUS
<1>7. PICK h : h = merged(g, a, b)
  OBVIOUS
<1>8. h = Joined(s, a, b, k, j)
  BY <1>1, <1>5, <1>6, <1>7 DEF merged
<1>9. PICK c : c = IF s.hero.ushops \/ k # 0 THEN Checked(Checked(s, b), a) ELSE s
  OBVIOUS
<1>10. \/ /\ k = 0 /\ j = 0 /\ ~s.obj[a].unpaid /\ ~s.obj[b].unpaid
       \/ /\ k # 0 /\ j # 0
          /\ k \in 1..Len(s.shop.bill) /\ s.shop.bill[k].id = b
          /\ j \in 1..Len(s.shop.bill) /\ s.shop.bill[j].id = a
  <2>1. CASE s.shop.bill_inactive
    <3>1. s.shop.bill = <<>>
      BY <1>3, <2>1 DEF Fine, Owing, Resident
    <3>2. ~s.obj[a].unpaid /\ ~s.obj[b].unpaid
      BY <1>4, <3>1 DEF Good, Agree
    <3> QED
      BY <1>5, <1>6, <2>1, <3>2 DEF OnBill
  <2>2. CASE ~s.shop.bill_inactive
    BY <1>4, <1>5, <1>6, <2>2, OnBillGood
  <2> QED
    BY <2>1, <2>2
<1>11. c = s
  <2>1. CASE s.hero.ushops \/ k # 0
    <3>1. ~s.shop.bill_inactive
      BY <1>3, <1>5, <2>1 DEF Fine, Owing, OnBill
    <3>2. Checked(s, b) = s /\ Checked(s, a) = s
      BY <1>4, <3>1, CheckedIs
    <3> QED
      BY <1>9, <2>1, <3>2
  <2>2. CASE ~(s.hero.ushops \/ k # 0)
    BY <1>9, <2>2
  <2> QED
    BY <2>1, <2>2
<1>12. Merged(s, h, b)
  <2>1. CASE k = 0
    <3>1. Joins(s, h, a, b)
      BY <1>8, <1>9, <1>11, <2>1 DEF Joined, Joins
    <3> QED
      BY <1>3, <1>4, <1>10, <2>1, <3>1, JoinOwn
  <2>2. CASE k # 0
    <3>1. JoinsEntries(s, h, a, b, k, j)
      <4>1. j # 0
        BY <1>10, <2>2
      <4>2. PICK d : d = [c EXCEPT !.shop.bill =
                            Without([s.shop.bill EXCEPT ![j].bquan = s.shop.bill[j].bquan
                                                              + s.shop.bill[k].bquan], k)]
        OBVIOUS
      <4>3. h = [d EXCEPT !.obj[a].quan = @ + s.obj[b].quan, !.obj[b] = Nothing]
        BY <1>8, <1>9, <2>2, <4>1, <4>2 DEF Joined
      <4> QED
        BY <1>11, <4>2, <4>3 DEF JoinsEntries
    <3> QED
      BY <1>3, <1>4, <1>10, <2>2, <3>1, JoinUnpaid
  <2> QED
    BY <2>1, <2>2
<1> QED
  BY <1>3, <1>7, <1>12 DEF Merged, Stays

\* What can be found is where it was, but for o; no mark changes.
Laid(g, h, o, where) ==
  \A i \in Ids : Here(h.obj[i]) =>
    /\ h.obj[i].unpaid = g.obj[i].unpaid /\ h.obj[i].no_charge = g.obj[i].no_charge
    /\ h.obj[i].where = IF i = o THEN where ELSE g.obj[i].where

\* An object comes to a place, and may become part of a stack there.
LEMMA PutIs ==
  ASSUME ShopConstants, NEW g, Fine(g), NEW o \in Ids, Here(g.obj[o]),
         NEW where \in {"floor", "outside", "invent", "box"},
         \A i \in Ids : i # o => g.obj[i].where # "free", NEW h \in Put(g, o, where)
  PROVE  /\ Fine(h) /\ Stays(g, h) /\ Laid(g, h, o, where)
         /\ \A i \in Ids : h.obj[i].where # "free"
<1>1. PICK m : m = [g EXCEPT !.obj[o].where = where]
  OBVIOUS
<1>2. Good(m) /\ Moved(g, m, o, where)
  BY <1>1, MovedIs DEF Fine
<1>3. Fine(m) /\ Stays(g, m) /\ Here(m.obj[o]) /\ \A i \in Ids : m.obj[i].where # "free"
  <2>1. Fine(m)
    BY <1>2, MovedIsFine
  <2> QED
    BY <1>2, <2>1 DEF Moved, Stays, Here
<1>4. \/ h = m
      \/ \E a \in Ids : m.obj[a].where = where /\ mergable(m, a, o) /\ h = merged(m, a, o)
  BY <1>1 DEF Put
<1>5. CASE h = m
  BY <1>2, <1>3, <1>5 DEF Moved, Laid
<1>6. ASSUME NEW a \in Ids, m.obj[a].where = where /\ mergable(m, a, o) /\ h = merged(m, a, o)
      PROVE  Merged(m, h, o)
  <2>1. a # o /\ Here(m.obj[a]) /\ m.obj[a].unpaid = m.obj[o].unpaid
    BY <1>6 DEF mergable, Here
  <2> QED
    BY <1>3, <1>6, <2>1, MergedIs
<1>7. CASE Merged(m, h, o)
  <2>1. Laid(g, h, o, where)
    BY <1>2, <1>7 DEF Merged, Moved, Laid, Here
  <2> QED
    BY <1>3, <1>7, <2>1 DEF Merged, Stays
<1> QED
  BY <1>4, <1>5, <1>6, <1>7

------------------------------------------------------------------------------
(* An object is used up.                                                    *)

LEMMA LastOneIs ==
  ASSUME ShopConstants, NEW s, Fine(s), NEW o \in Ids, Here(s.obj[o])
  PROVE  LET h == LastOne(s, o, OnBill(s, o))
         IN /\ Fine(h) /\ Stays(s, h) /\ Eased(s, h, {}) /\ h.obj[o].where # "free"
            /\ \A i \in Ids : i # o => h.obj[i].where = s.obj[i].where
<1>1. PICK k : k = OnBill(s, o)
  OBVIOUS
<1>2. PICK h : h = LastOne(s, o, OnBill(s, o))
  OBVIOUS
<1>3. Good(s) /\ s \in Worlds /\ s.obj \in [Ids -> Objects]
  BY DEF Fine, Good, Worlds
<1>4. \/ k = 0 /\ ~s.obj[o].unpaid
      \/ /\ k # 0 /\ ~s.shop.bill_inactive /\ s.obj[o].unpaid
         /\ k \in 1..Len(s.shop.bill) /\ s.shop.bill[k].id = o
         /\ IsFor(s.shop.bill[k], s.obj[o])
  <2>1. CASE s.shop.bill_inactive
    <3>1. s.shop.bill = <<>>
      BY <2>1 DEF Fine, Owing, Resident
    <3>2. ~s.obj[o].unpaid
      BY <1>3, <3>1 DEF Good, Agree
    <3> QED
      BY <1>1, <2>1, <3>2 DEF OnBill
  <2>2. CASE ~s.shop.bill_inactive
    BY <1>1, <1>3, <2>2, OnBillGood
  <2> QED
    BY <2>1, <2>2
<1>5. PICK c : c = IF s.hero.ushops \/ k # 0 \/ s.obj[o].unpaid THEN Checked(s, o) ELSE s
  OBVIOUS
<1>6. c = s
  <2>1. CASE s.shop.bill_inactive
    BY <1>4, <1>5, <2>1 DEF Fine, Owing
  <2>2. CASE ~s.shop.bill_inactive
    BY <1>3, <1>5, <2>2, CheckedIs
  <2> QED
    BY <2>1, <2>2
<1>7. CASE k = 0
  <2>1. NewObject(s, h, o, Nothing)
    BY <1>1, <1>2, <1>5, <1>6, <1>7 DEF LastOne, NewObject
  <2>2. Nothing \in Objects /\ ~Nothing.unpaid /\ Nothing.where = "none" /\ ~Here(Nothing)
    BY DEF Nothing, Objects, Here
  <2>3. h \in Worlds /\ Replaced(s, h, o, Nothing)
    BY <1>3, <2>1, <2>2, ReplacedIs
  <2>4. \A n \in 1..Len(s.shop.bill) : s.shop.bill[n].id # o
    BY <1>3, <1>4, <1>7 DEF Good, Agree, IsFor, Here
  <2>5. Good(h)
    BY <1>3, <2>2, <2>3, <2>4, ReplacedIsGood
  <2>6. Fine(h)
    BY <2>3, <2>5, ReplacedIsFine
  <2>7. Eased(s, h, {})
    BY <2>2, <2>3 DEF Replaced, Eased
  <2> QED
    BY <1>2, <2>2, <2>3, <2>6, <2>7 DEF Replaced, Stays
<1>8. CASE k # 0
  <2>1. PICK old : old = s.shop.bill
    OBVIOUS
  <2>2. PICK was : was = s.obj
    OBVIOUS
  <2>3. /\ old \in Seq(Entries) /\ Agree(old, was) /\ Len(old) <= BILLSZ
        /\ Priced(old, s.shop.surcharge) /\ k \in 1..Len(old) /\ old[k].id = o
        /\ IsFor(old[k], was[o]) /\ was[o] \in Objects /\ old[k] \in Entries
        /\ was \in [Ids -> Objects] /\ s.shop.loan <= s.shop.debit
    BY <1>3, <1>4, <1>8, <2>1, <2>2, GoodIs, BillIs DEF Good
  <2>4. PICK e : e = [old[k] EXCEPT !.useup = TRUE]
    OBVIOUS
  <2>5. /\ e \in Entries /\ e.id = o /\ e.bquan = old[k].bquan /\ e.useup = TRUE
        /\ e.price = old[k].price
    BY <2>3, <2>4 DEF Entries
  <2>6. PICK new : new = [was[o] EXCEPT !.unpaid = FALSE, !.where = "billed"]
    OBVIOUS
  <2>7. /\ new \in Objects /\ new.unpaid = FALSE /\ new.where = "billed"
        /\ new.quan = was[o].quan
    BY <2>3, <2>6 DEF Objects
  <2>8. PICK b : b = [old EXCEPT ![k] = e]
    OBVIOUS
  <2>9. PICK objs : objs = [was EXCEPT ![o] = new]
    OBVIOUS
  <2>10. /\ objs \in [Ids -> Objects] /\ objs[o] = new
         /\ \A i \in Ids : i # o => objs[i] = was[i]
    BY <2>3, <2>7, <2>9
  <2>11. NewBooks(s, h, b, objs)
    <3>1. h = [s EXCEPT !.shop.bill[k].useup = TRUE,
                        !.obj[o].unpaid = FALSE, !.obj[o].where = "billed"]
      BY <1>1, <1>2, <1>5, <1>6, <1>8 DEF LastOne
    <3> QED
      BY <1>3, <2>1, <2>2, <2>4, <2>6, <2>8, <2>9, <3>1 DEF NewBooks, Worlds
  <2>12. /\ Agree(b, objs) /\ b \in Seq(Entries) /\ Len(b) = Len(old)
         /\ \A m \in 1..Len(old) : b[m] = IF m = k THEN e ELSE old[m]
    <3>1. \A i \in Ids : i # e.id /\ i # old[k].id => Same(objs[i], was[i])
      BY <2>5, <2>10 DEF Same
    <3>2. e.id # old[k].id => /\ \A m \in 1..Len(old) : old[m].id # e.id
                             /\ ~objs[old[k].id].unpaid /\ objs[old[k].id].where # "billed"
      BY <2>3, <2>5
    <3>3. IsFor(e, objs[e.id]) /\ Agree(old, was)
      BY <2>3, <2>5, <2>7, <2>10 DEF IsFor
    <3>4. e \in Entries /\ k \in 1..Len(old) /\ old \in Seq(Entries)
      BY <2>3, <2>5
    <3>5. /\ Agree([old EXCEPT ![k] = e], objs)
          /\ [old EXCEPT ![k] = e] \in Seq(Entries) /\ Len([old EXCEPT ![k] = e]) = Len(old)
          /\ \A m \in 1..Len(old) : [old EXCEPT ![k] = e][m] = IF m = k THEN e ELSE old[m]
      BY <3>1, <3>2, <3>3, <3>4, AgreeReplaced
    <3> QED
      BY <2>8, <3>5
  <2>13. Priced(b, s.shop.surcharge)
    BY <2>3, <2>5, <2>12 DEF Priced
  <2>14. \A i \in Ids : Here(objs[i]) => objs[i].quan > 0
    BY <1>3, <2>2, <2>7, <2>10 DEF Good, Here
  <2>15. Good(h) /\ Stays(s, h) /\ h.obj = objs
    <3>1. /\ s \in Worlds /\ s.shop.loan <= s.shop.debit /\ b \in Seq(Entries)
          /\ objs \in [Ids -> Objects] /\ Len(b) <= BILLSZ
          /\ Priced(b, s.shop.surcharge) /\ Agree(b, objs) /\ NewBooks(s, h, b, objs)
      BY <1>3, <2>3, <2>10, <2>11, <2>12, <2>13
    <3> QED
      BY <2>14, <3>1, NewBillIsGood
  <2>16. Resident(s)
    <3>1. old # <<>>
      BY <2>3
    <3> QED
      BY <2>1, <3>1 DEF Fine, Owing
  <2>17. Fine(h)
    BY <2>15, <2>16, ResidentIsFine
  <2>18. Eased(s, h, {})
    BY <2>2, <2>7, <2>10, <2>15 DEF Eased, Here
  <2> QED
    BY <1>2, <2>2, <2>7, <2>10, <2>15, <2>17, <2>18
<1> QED
  BY <1>7, <1>8

LEMMA UseUpIs ==
  ASSUME ShopConstants, NEW g, Fine(g), NEW o \in Ids, Here(g.obj[o]),
         \A i \in Ids : g.obj[i].where # "free"
  PROVE  LET h == useup(g, o)
         IN /\ Fine(h) /\ Stays(g, h) /\ Eased(g, h, {})
            /\ \A i \in Ids : h.obj[i].where # "free"
<1>1. PICK h : h = useup(g, o)
  OBVIOUS
<1>2. Good(g) /\ g.obj[o] \in Objects /\ g.obj[o].quan \in Nat /\ g.obj[o].quan > 0
  BY GoodIs DEF Fine, Good
<1>3. CASE g.obj[o].quan > 1
  <2>1. h = [g EXCEPT !.obj[o].quan = @ - 1]
    BY <1>1, <1>3 DEF useup
  <2>2. PICK new : new = [g.obj[o] EXCEPT !.quan = @ - 1]
    OBVIOUS
  <2>3. PICK n \in Nat : n = g.obj[o].quan - 1 /\ n > 0 /\ n <= g.obj[o].quan
    BY <1>2, <1>3
  <2>4. /\ new \in Objects /\ new.quan = n /\ new.where = g.obj[o].where
        /\ new.unpaid = g.obj[o].unpaid /\ new.no_charge = g.obj[o].no_charge
    BY <1>2, <2>2, <2>3 DEF Objects
  <2>5. NewObject(g, h, o, new)
    BY <1>2, <2>1, <2>2 DEF NewObject, Good, Worlds
  <2>6. Good(h) /\ Replaced(g, h, o, new)
    BY <1>2, <2>3, <2>4, <2>5, HereIsGood DEF Here
  <2>7. Fine(h)
    BY <2>6, ReplacedIsFine
  <2>8. Eased(g, h, {})
    BY <2>4, <2>6 DEF Replaced, Eased
  <2> QED
    BY <1>1, <2>4, <2>6, <2>7, <2>8 DEF Replaced, Stays
<1>4. CASE ~(g.obj[o].quan > 1)
  <2>1. PICK s : s = IF g.hero.ushops \/ g.obj[o].unpaid THEN Keeper(g) ELSE g
    OBVIOUS
  <2>2. Good(Keeper(g)) /\ Moody(g, Keeper(g))
    BY <1>2, KeeperIs
  <2>3. Fine(s) /\ Stays(g, s) /\ s.obj = g.obj
    <3>1. CASE g.hero.ushops \/ g.obj[o].unpaid
      BY <2>1, <2>2, <3>1, MoodyIsFine DEF Moody, Stays
    <3>2. CASE ~(g.hero.ushops \/ g.obj[o].unpaid)
      BY <2>1, <3>2 DEF Stays
    <3> QED
      BY <3>1, <3>2
  <2>4. h = LastOne(s, o, OnBill(s, o))
    BY <1>1, <1>4, <2>1 DEF useup
  <2>5. /\ Fine(h) /\ Stays(s, h) /\ Eased(s, h, {}) /\ h.obj[o].where # "free"
        /\ \A i \in Ids : i # o => h.obj[i].where = s.obj[i].where
    BY <2>3, <2>4, LastOneIs
  <2>6. Eased(g, h, {})
    BY <2>3, <2>5 DEF Eased
  <2> QED
    BY <1>1, <2>3, <2>5, <2>6 DEF Stays
<1> QED
  BY <1>3, <1>4

------------------------------------------------------------------------------
(* An object is bought as it was.                                           *)

LEMMA BoughtIs ==
  ASSUME ShopConstants, NEW s, Fine(s), NEW o \in Ids, Here(s.obj[o]), ~s.obj[o].unpaid,
         o # Box, Unused(s) # {}, NEW price \in Prices, \A i \in Ids : s.obj[i].where # "free"
  PROVE  LET h == Bought(s, o, Fresh(s), price)
         IN /\ Fine(h) /\ Stays(s, h) /\ Eased(s, h, {})
            /\ \A i \in Ids : h.obj[i].where # "free"
<1>1. PICK d : d = Fresh(s)
  OBVIOUS
<1>2. Good(s) /\ s \in Worlds /\ s.obj[o] \in Objects /\ s.obj[o].quan > 0
  BY GoodIs DEF Fine, Good
<1>3. d \in Ids /\ d # Box /\ s.obj[d].where = "none" /\ d # o
  BY <1>1, <1>2, FreshIs DEF Here
<1>4. PICK new : new = [s.obj[o] EXCEPT !.where = "free"]
  OBVIOUS
<1>5. new \in Objects /\ new.where = "free" /\ ~new.unpaid /\ new.quan > 0
  BY <1>2, <1>4 DEF Objects
<1>6. PICK f : f = [s EXCEPT !.obj[d] = new]
  OBVIOUS
<1>7. Good(f) /\ Replaced(s, f, d, new)
  <2>1. NewObject(s, f, d, new)
    BY <1>6 DEF NewObject
  <2> QED
    BY <1>2, <1>3, <1>5, <2>1, NewIsGood
<1>8. Fine(f) /\ Here(f.obj[d]) /\ Stays(s, f)
  <2>1. Fine(f)
    BY <1>7, ReplacedIsFine
  <2> QED
    BY <1>5, <1>7, <2>1 DEF Replaced, Here, Stays
<1>9. PICK dummy \in BOOLEAN : dummy = TRUE
  OBVIOUS
<1>10. PICK t : t = addtobill(f, d, dummy, price)
  OBVIOUS
<1>11. Fine(t) /\ Adds(f, t, Reach(f, d), dummy)
  BY <1>3, <1>8, <1>10, AddAll
<1>12. Adds(f, t, {d}, dummy) /\ Good(t) /\ t \in Worlds
  BY <1>3, <1>11 DEF Fine, Good, Reach
<1>13. PICK h : h = Bought(s, o, d, price)
  OBVIOUS
<1>14. h = [t EXCEPT !.obj[d] = IF t.obj[d].where = "free" THEN Nothing ELSE @,
                     !.obj[o].no_charge = TRUE, !.obj[o].unpaid = FALSE]
  BY <1>4, <1>6, <1>9, <1>10, <1>13 DEF Bought
<1>15. /\ t.obj[o].where = s.obj[o].where /\ t.obj[o].unpaid = FALSE
       /\ t.obj[d].where = "free" => ~t.obj[d].unpaid
       /\ t.obj[d].where \in {"free", "billed"}
       /\ \A i \in Ids : i # d => t.obj[i].where = s.obj[i].where
  <2>1. \A i \in Ids : i # d => f.obj[i] = s.obj[i]
    BY <1>7 DEF Replaced
  <2>2. f.obj[d] = new
    BY <1>7 DEF Replaced
  <2>3. t.obj[o].unpaid = f.obj[o].unpaid /\ f.obj[o] = s.obj[o]
    BY <1>3, <1>12, <2>1 DEF Adds
  <2>4. s.obj[o].unpaid = FALSE /\ new.unpaid = FALSE
    BY <1>2, <1>5 DEF Objects
  <2> QED
    BY <1>3, <1>5, <1>9, <1>12, <2>1, <2>2, <2>3, <2>4 DEF Adds
<1>16. Stays(s, t)
  BY <1>8, <1>12 DEF Adds, Stays
<1>17. PICK dd : dd = IF t.obj[d].where = "free" THEN Nothing ELSE t.obj[d]
  OBVIOUS
<1>18. PICK r : r = [t EXCEPT !.obj[d] = dd]
  OBVIOUS
<1>7a. Good(r) /\ Replaced(t, r, d, dd) /\ dd.where # "free"
  <2>1. CASE t.obj[d].where = "free"
    <3>1. Nothing \in Objects /\ ~Nothing.unpaid /\ Nothing.where = "none" /\ ~Here(Nothing)
      BY DEF Nothing, Objects, Here
    <3>2. NewObject(t, r, d, Nothing)
      BY <1>17, <1>18, <2>1 DEF NewObject
    <3>3. r \in Worlds /\ Replaced(t, r, d, Nothing)
      BY <1>3, <1>12, <3>1, <3>2, ReplacedIs
    <3>4. \A n \in 1..Len(t.shop.bill) : t.shop.bill[n].id # d
      BY <1>12, <1>15, <2>1 DEF Good, Agree, IsFor
    <3>5. Good(r)
      BY <1>3, <1>12, <3>1, <3>3, <3>4, ReplacedIsGood
    <3> QED
      BY <1>17, <2>1, <3>1, <3>3, <3>5
  <2>2. CASE t.obj[d].where # "free"
    <3>1. r = t
      BY <1>12, <1>17, <1>18, <2>2 DEF Worlds
    <3> QED
      BY <1>12, <1>17, <2>2, <3>1 DEF Replaced
  <2> QED
    BY <2>1, <2>2
<1>20. PICK own : own = [t.obj[o] EXCEPT !.no_charge = TRUE, !.unpaid = FALSE]
  OBVIOUS
<1>21. r.obj[o] = t.obj[o] /\ r \in Worlds /\ t.obj[o] \in Objects
  BY <1>3, <1>12, <1>7a, GoodIs DEF Replaced, Good
<1>22. /\ own \in Objects /\ own.where = s.obj[o].where /\ own.unpaid = t.obj[o].unpaid
       /\ own.quan = t.obj[o].quan
  BY <1>15, <1>20, <1>21 DEF Objects
<1>23. NewObject(r, h, o, own)
  <2>1. h = [r EXCEPT !.obj[o].no_charge = TRUE, !.obj[o].unpaid = FALSE]
    BY <1>3, <1>12, <1>14, <1>17, <1>18 DEF Worlds
  <2> QED
    BY <1>20, <1>21, <2>1 DEF NewObject, Worlds
<1>24. Good(h) /\ Replaced(r, h, o, own)
  <2>1. Here(own) /\ Here(r.obj[o])
    BY <1>15, <1>21, <1>22 DEF Here
  <2>2. r.obj[o].quan > 0 /\ r.obj[o].quan \in Nat
    BY <1>7a, <2>1, GoodIs DEF Good
  <2> QED
    BY <1>7a, <1>21, <1>22, <1>23, <2>1, <2>2, HereIsGood
<1>25. h.shop = t.shop /\ h.hero = t.hero
  BY <1>7a, <1>24 DEF Replaced
<1>26. Fine(h) /\ Stays(s, h)
  <2>1. Owing(h) /\ Stays(s, h)
    BY <1>11, <1>16, <1>25 DEF Fine, Owing, Resident, Stays
  <2> QED
    BY <1>24, <2>1 DEF Fine
<1>27. \A i \in Ids : h.obj[i].where # "free"
  <2> TAKE i \in Ids
  <2>1. CASE i = o
    BY <1>22, <1>24, <2>1 DEF Replaced
  <2>2. CASE i = d
    BY <1>3, <1>7a, <1>24, <2>2 DEF Replaced
  <2>3. CASE i # o /\ i # d
    BY <1>15, <1>7a, <1>24, <2>3 DEF Replaced
  <2> QED
    BY <2>1, <2>2, <2>3
<1>28. Eased(s, h, {})
  <2> SUFFICES ASSUME NEW i \in Ids, Here(h.obj[i])
               PROVE  /\ h.obj[i].where = s.obj[i].where
                      /\ h.obj[i].unpaid => s.obj[i].unpaid
                      /\ s.obj[i].no_charge => h.obj[i].no_charge
    BY DEF Eased
  <2>1. CASE i = o
    BY <1>15, <1>20, <1>21, <1>22, <1>24, <2>1 DEF Replaced, Objects
  <2>2. CASE i = d
    <3>1. ~Here(dd)
      BY <1>15, <1>17 DEF Here, Nothing
    <3> QED
      BY <1>3, <1>7a, <1>24, <2>2, <3>1 DEF Replaced
  <2>3. CASE i # o /\ i # d
    <3>1. h.obj[i] = t.obj[i] /\ f.obj[i] = s.obj[i]
      BY <1>7, <1>7a, <1>24, <2>3 DEF Replaced
    <3>2. t.obj[i].unpaid = f.obj[i].unpaid /\ t.obj[i].no_charge = f.obj[i].no_charge
      BY <1>12, <2>3 DEF Adds
    <3> QED
      BY <1>15, <2>3, <3>1, <3>2
  <2> QED
    BY <2>1, <2>2, <2>3
<1> QED
  BY <1>1, <1>13, <1>26, <1>27, <1>28

LEMMA BillDummyIs ==
  ASSUME ShopConstants, NEW g, Fine(g), NEW o \in Ids, Here(g.obj[o]), o # Box, Room(g, 1),
         NEW price \in Prices, \A i \in Ids : g.obj[i].where # "free"
  PROVE  LET h == bill_dummy_object(g, o, price)
         IN /\ Fine(h) /\ Stays(g, h) /\ Eased(g, h, {})
            /\ \A i \in Ids : h.obj[i].where # "free"
            /\ Here(h.obj[o]) => ~h.obj[o].unpaid
<1>1. PICK s : s = IF g.obj[o].unpaid THEN subfrombill(Keeper(g), o) ELSE g
  OBVIOUS
<1>2. Good(g)
  BY DEF Fine
<1>3. /\ Fine(s) /\ Stays(g, s) /\ ~s.obj[o].unpaid /\ Room(s, 1) /\ Here(s.obj[o])
      /\ \A i \in Ids : s.obj[i].where # "free"
      /\ Eased(g, s, {})
  <2>1. CASE g.obj[o].unpaid
    <3>1. Resident(g) /\ ~g.shop.bill_inactive
      <4>1. \E k \in 1..Len(g.shop.bill) : g.shop.bill[k].id = o
        BY <1>2, <2>1 DEF Good, Agree
      <4>2. g.shop.bill # <<>>
        BY <4>1
      <4> QED
        BY <4>2 DEF Fine, Owing, Resident
    <3>2. PICK k : k = Keeper(g)
      OBVIOUS
    <3>3. Good(k) /\ Moody(g, k)
      BY <1>2, <3>2, KeeperIs
    <3>4. Fine(k)
      BY <3>3, MoodyIsFine
    <3>5. k.obj = g.obj /\ ~k.shop.bill_inactive /\ Stays(g, k)
      BY <3>1, <3>3 DEF Moody, Stays
    <3>6. Room(k, 1)
      <4>1. Unused(k) = Unused(g) /\ Partial(k) = Partial(g)
        BY <1>2, <3>3, MoodyIsMild, MildRoom
      <4> QED
        BY <4>1 DEF Room
    <3>7. Returned(k, s, 1) /\ ~s.obj[o].unpaid
      BY <1>1, <2>1, <3>2, <3>3, <3>5, <3>6, SubAll
    <3>8. Good(s) /\ Keeps(k, s) /\ Room(s, 1)
      BY <3>7 DEF Returned
    <3>9. Stays(g, s) /\ Here(s.obj[o]) /\ \A i \in Ids : s.obj[i].where # "free"
      BY <3>5, <3>8 DEF Keeps, Like, Stays, Here
    <3>10. Fine(s)
      BY <3>1, <3>8, <3>9, ResidentIsFine
    <3>11. Eased(g, s, {})
      <4>1. Eased(k, s, {})
        BY <3>8, KeepsEases
      <4> QED
        BY <3>5, <4>1 DEF Eased
    <3> QED
      BY <3>7, <3>8, <3>9, <3>10, <3>11
  <2>2. CASE ~g.obj[o].unpaid
    BY <1>1, <2>2 DEF Stays, Eased
  <2> QED
    BY <2>1, <2>2
<1>4. Unused(s) # {}
  <2>1. 1 \in Nat /\ 1 > 0
    OBVIOUS
  <2> QED
    BY <1>3, <2>1, RoomLeft
<1>5. PICK h : h = bill_dummy_object(g, o, price)
  OBVIOUS
<1>6. h = Bought(s, o, Fresh(s), price)
  BY <1>1, <1>5 DEF bill_dummy_object
<1>7. /\ Fine(h) /\ Stays(s, h) /\ Eased(s, h, {})
      /\ \A i \in Ids : h.obj[i].where # "free"
  BY <1>3, <1>4, <1>6, BoughtIs
<1>8. Eased(g, h, {})
  BY <1>3, <1>7, EasedTwice
<1>9. Here(h.obj[o]) => ~h.obj[o].unpaid
  BY <1>3, <1>7 DEF Eased
<1> QED
  BY <1>3, <1>5, <1>7, <1>8, <1>9 DEF Stays

=============================================================================
