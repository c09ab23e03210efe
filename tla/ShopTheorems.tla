---------------------------- MODULE ShopTheorems ----------------------------
(* What holds in a shop with any goods, prices and sums of money.  First that *)
(* the bill and the objects agree after what is sold, thrown out and paid     *)
(* for; then, that they do after every command of the player, when nothing on *)
(* the bill lies in the shop or has left it; and that paying, whatever is     *)
(* paid of the bill, leaves the player's account what it was.                 *)
EXTENDS ShopProofs

------------------------------------------------------------------------------
(* Something is offered for sale.                                           *)

\* Things are marked as the player's.
Marks(g, h) ==
  /\ Good(h) /\ Mild(g, h) /\ h.shop = g.shop /\ h.hero = g.hero
  /\ \A i \in Ids : /\ h.obj[i].unpaid = g.obj[i].unpaid
                    /\ g.obj[i].no_charge => h.obj[i].no_charge

LEMMA MarksTwice ==
  ASSUME NEW f, NEW g, NEW h, Marks(f, g), Marks(g, h)
  PROVE  Marks(f, h)
<1>1. Mild(f, h)
  BY MildTwice DEF Marks
<1> QED
  BY <1>1 DEF Marks

LEMMA MarksEases ==
  ASSUME NEW g, NEW h, Marks(g, h), NEW S
  PROVE  Eased(g, h, S)
BY DEF Marks, Mild, Eased

LEMMA MarksItself ==
  ASSUME NEW g, Good(g)
  PROVE  Marks(g, g)
BY SameBillSelf DEF Marks, Mild, Stays

LEMMA NoChargeMarks ==
  ASSUME ShopConstants, NEW g, Good(g), NEW o \in Ids
  PROVE  Marks(g, NoCharge(g, o)) /\ NoCharge(g, o).obj[o].no_charge
<1>1. PICK mine \in BOOLEAN : mine = TRUE
  OBVIOUS
<1>2. PICK h : h = [g EXCEPT !.obj[o].no_charge = mine]
  OBVIOUS
<1>3. Good(h) /\ Mild(g, h) /\ Marked(g, h, {o}, mine)
  BY <1>2, MarkIs
<1> QED
  BY <1>1, <1>2, <1>3 DEF NoCharge, Marks, Marked

LEMMA DroppedMarks ==
  ASSUME ShopConstants, NEW g, Good(g), NEW sale \in BOOLEAN
  PROVE  Marks(g, dropped_container(g, sale))
<1>1. PICK S : S = {i \in Contents(g) : ~g.obj[i].unpaid /\ ~(sale /\ g.obj[i].kind \in Trades)}
  OBVIOUS
<1>2. S \in SUBSET Ids
  BY <1>1 DEF Contents
<1>3. PICK mine \in BOOLEAN : mine = TRUE
  OBVIOUS
<1>4. PICK h : h = SetNoCharge(g, S, mine)
  OBVIOUS
<1>5. Good(h) /\ Mild(g, h) /\ Marked(g, h, S, mine)
  BY <1>2, <1>4, MarksAre
<1>6. h = dropped_container(g, sale)
  BY <1>1, <1>3, <1>4 DEF dropped_container
<1>7. \A i \in Ids : /\ h.obj[i].unpaid = g.obj[i].unpaid
                     /\ g.obj[i].no_charge => h.obj[i].no_charge
  BY <1>3, <1>5 DEF Marked
<1> QED
  BY <1>5, <1>6, <1>7 DEF Marks, Marked

\* What was put down is not on the bill, and for a box, nor is what is in it; unless
\* it is a box of the player's that the bill has no room for.
Given(h, o) ==
  \/ o = Box /\ h.obj[Box].no_charge
  \/ /\ ~h.obj[o].unpaid
     /\ o = Box => \A i \in Ids : h.obj[i].where = "box" => ~h.obj[i].unpaid

\* What selling o, or not, comes to: nothing goes elsewhere.
Sells(g, h, o) == Fine(h) /\ Stays(g, h) /\ Like(g, h) /\ Eased(g, h, {}) /\ Given(h, o)

LEMMA MarksSells ==
  ASSUME NEW g, Fine(g), NEW h, Marks(g, h), NEW o, Given(h, o)
  PROVE  Sells(g, h, o)
<1>1. Good(h) /\ Stays(g, h) /\ Like(g, h)
  BY MildIsLike DEF Marks
<1>2. Fine(h)
  BY <1>1 DEF Fine, Marks, Owing, Resident
<1>3. Eased(g, h, {})
  BY MarksEases
<1> QED
  BY <1>1, <1>2, <1>3 DEF Sells

\* The object, and what is in it, comes off the bill.
LEMMA TakenBack ==
  ASSUME ShopConstants, NEW g, Fine(g), Resident(g), Room(g, 0),
         NEW o \in Ids, Here(g.obj[o]), NEW h, Good(h), Mild(g, h), Eased(g, h, {})
  PROVE  Sells(g, subfrombill(h, o), o) /\ subfrombill(h, o).shop.till = h.shop.till
<1>1. PICK r : r = subfrombill(h, o)
  OBVIOUS
<1>2. Good(g) /\ ~g.shop.bill_inactive
  BY DEF Fine, Owing, Resident
<1>3. Stays(g, h) /\ Like(g, h)
  BY MildIsLike
<1>4. ~h.shop.bill_inactive /\ Here(h.obj[o])
  BY <1>2 DEF Mild, Stays, Here
<1>5. Room(h, 0)
  <2>1. Unused(h) = Unused(g) /\ Partial(h) = Partial(g)
    BY <1>2, MildRoom
  <2> QED
    BY <2>1 DEF Room
<1>6. /\ Returned(h, r, 0) /\ ~r.obj[o].unpaid
      /\ o = Box => \A i \in Contents(h) : ~r.obj[i].unpaid
  BY <1>1, <1>4, <1>5, SubAll
<1>7. Good(r) /\ Stays(h, r) /\ Like(h, r) /\ r.shop.till = h.shop.till /\ Keeps(h, r)
  BY <1>6 DEF Returned, Keeps, Books
<1>8. Stays(g, r) /\ Like(g, r)
  BY <1>3, <1>7, LikeTwice
<1>9. Fine(r)
  BY <1>7, <1>8, ResidentIsFine
<1>10. Eased(g, r, {})
  <2>1. Eased(h, r, {})
    BY <1>7, KeepsEases
  <2> QED
    BY <2>1, EasedTwice
<1>11. Given(r, o)
  <2>1. \A i \in Ids : r.obj[i].where = "box" => i \in Contents(h)
    BY <1>7 DEF Like, Here, Contents
  <2> QED
    BY <1>6, <2>1 DEF Given
<1> QED
  BY <1>1, <1>7, <1>8, <1>9, <1>10, <1>11 DEF Sells

LEMMA OneTakenBack ==
  ASSUME ShopConstants, NEW g, Fine(g), Resident(g), Room(g, 0),
         NEW o \in Ids, Here(g.obj[o]), ~HasContents(g, o)
  PROVE  Sells(g, sub_one_frombill(g, o), o)
<1>1. PICK r : r = sub_one_frombill(g, o)
  OBVIOUS
<1>2. Good(g) /\ ~g.shop.bill_inactive
  BY DEF Fine, Owing, Resident
<1>3. Returned(g, r, 0) /\ ~r.obj[o].unpaid
  BY <1>1, <1>2, SubOne
<1>4. Good(r) /\ Stays(g, r) /\ Like(g, r) /\ Keeps(g, r)
  BY <1>3 DEF Returned, Keeps
<1>5. Fine(r)
  BY <1>4, ResidentIsFine
<1>6. Eased(g, r, {})
  BY <1>4, KeepsEases
<1>7. Given(r, o)
  <2>1. o = Box => \A i \in Ids : r.obj[i].where # "box"
    BY <1>4 DEF Like, Here, Contents, HasContents
  <2> QED
    BY <1>3, <2>1 DEF Given
<1> QED
  BY <1>1, <1>4, <1>5, <1>6, <1>7 DEF Sells

LEMMA OffersAre ==
  ASSUME ShopConstants, NEW g, Good(g), NEW o \in Ids
  PROVE  InBox(g, o) \in Nat /\ ForItself(g, o) \in Nat
<1>1. /\ Offer \in Nat /\ \A i \in Ids : g.obj[i].quan \in Nat
  BY GoodIs DEF ShopConstants
<1>2. PICK S : S = {i \in Contents(g) : ~g.obj[i].unpaid /\ g.obj[i].kind \in Trades}
  OBVIOUS
<1>3. S \in SUBSET Ids /\ IsFiniteSet(S)
  BY <1>2, IdsFinite DEF Contents
<1>4. PICK c : c = [i \in S |-> Offer * g.obj[i].quan]
  OBVIOUS
<1>5. c \in [S -> Nat]
  BY <1>1, <1>3, <1>4
<1>6. SumFunction(c) \in Nat
  BY <1>3, <1>5, SumIs
<1>7. InBox(g, o) \in Nat
  <2>1. InBox(g, o) = IF o # Box THEN 0 ELSE SumFunction(c)
    BY <1>2, <1>4 DEF InBox
  <2> QED
    BY <1>6, <2>1
<1>8. ForItself(g, o) \in Nat
  BY <1>1 DEF ForItself
<1> QED
  BY <1>7, <1>8

\* What is in a box, if anything, is marked.
LEMMA BoxMarks ==
  ASSUME ShopConstants, NEW g, Good(g), NEW o, NEW sale \in BOOLEAN
  PROVE  Marks(g, IF HasContents(g, o) THEN dropped_container(g, sale) ELSE g)
BY MarksItself, DroppedMarks

LEMMA UnsoldSells ==
  ASSUME ShopConstants, NEW g, Fine(g), Resident(g), Room(g, 0),
         NEW o \in Ids, Here(g.obj[o])
  PROVE  Sells(g, Unsold(g, o), o)
<1>1. Good(g)
  BY DEF Fine
<1>2. PICK sale \in BOOLEAN : sale = FALSE
  OBVIOUS
<1>3. PICK m : m = IF HasContents(g, o) THEN dropped_container(g, sale) ELSE g
  OBVIOUS
<1>4. Marks(g, m)
  BY <1>1, <1>3, BoxMarks
<1>5. PICK h : h = IF m.obj[o].unpaid THEN m ELSE NoCharge(m, o)
  OBVIOUS
<1>6. Marks(g, h)
  <2>1. Good(m)
    BY <1>4 DEF Marks
  <2>2. Marks(m, NoCharge(m, o)) /\ Marks(m, m)
    BY <2>1, NoChargeMarks, MarksItself
  <2>3. Marks(m, h)
    BY <1>5, <2>2
  <2> QED
    BY <1>4, <2>3, MarksTwice
<1>7. Unsold(g, o) = subfrombill(h, o)
  BY <1>2, <1>3, <1>5 DEF Unsold
<1>8. Good(h) /\ Mild(g, h) /\ Eased(g, h, {})
  BY <1>6, MarksEases DEF Marks
<1>9. Sells(g, subfrombill(h, o), o)
  BY <1>8, TakenBack
<1> QED
  BY <1>7, <1>9

LEMMA SoldSells ==
  ASSUME ShopConstants, NEW g, Fine(g), Resident(g), Room(g, 0),
         NEW o \in Ids, Here(g.obj[o]), NEW offer \in Nat
  PROVE  Sells(g, Sold(g, o, offer), o)
<1>1. Good(g) /\ g.shop.till \in Nat
  BY GoodIs DEF Fine
<1>2. PICK sale \in BOOLEAN : sale = TRUE
  OBVIOUS
<1>3. PICK m : m = IF HasContents(g, o) THEN dropped_container(g, sale) ELSE g
  OBVIOUS
<1>4. Marks(g, m)
  BY <1>1, <1>3, BoxMarks
<1>5. PICK h : h = IF m.obj[o].unpaid \/ m.obj[o].kind \in Trades THEN m ELSE NoCharge(m, o)
  OBVIOUS
<1>6. Marks(g, h)
  <2>1. Good(m)
    BY <1>4 DEF Marks
  <2>2. Marks(m, NoCharge(m, o)) /\ Marks(m, m)
    BY <2>1, NoChargeMarks, MarksItself
  <2>3. Marks(m, h)
    BY <1>5, <2>2
  <2> QED
    BY <1>4, <2>3, MarksTwice
<1>7. PICK r : r = subfrombill(h, o)
  OBVIOUS
<1>8. PICK n \in Nat : n = IF offer > g.shop.till THEN g.shop.till ELSE offer
  BY <1>1
<1>9. Sold(g, o, offer) = pay(r, -n)
  BY <1>2, <1>3, <1>5, <1>7, <1>8 DEF Sold
<1>10. Good(h) /\ Mild(g, h) /\ h.shop.till = g.shop.till /\ Eased(g, h, {})
  BY <1>6, MarksEases DEF Marks
<1>11. Sells(g, r, o) /\ r.shop.till = g.shop.till
  BY <1>7, <1>10, TakenBack
<1>12. n <= r.shop.till
  BY <1>1, <1>8, <1>11
<1>13. Good(r) /\ Fine(r) /\ Resident(g)
  BY <1>11 DEF Sells, Fine
<1>14. PICK p : p = pay(r, -n)
  OBVIOUS
<1>15. Good(p) /\ Pays(r, p)
  <2>1. -n \in Int /\ ~(-n > 0) /\ -(-n) <= r.shop.till
    BY <1>12
  <2> QED
    BY <1>13, <1>14, <2>1, PayIs
<1>16. Stays(r, p) /\ Like(r, p)
  BY <1>15, PaysKeeps DEF Keeps
<1>17. Stays(g, p) /\ Like(g, p)
  BY <1>11, <1>16, LikeTwice DEF Sells
<1>18. Fine(p)
  BY <1>15, <1>17, ResidentIsFine
<1>7a. Eased(g, p, {}) /\ Given(p, o)
  BY <1>11, <1>15 DEF Sells, Pays, Eased, Given
<1> QED
  BY <1>9, <1>14, <1>17, <1>18, <1>7a DEF Sells

LEMMA CreditSells ==
  ASSUME ShopConstants, NEW g, Fine(g), Resident(g), Room(g, 0),
         NEW o \in Ids, Here(g.obj[o]), NEW offer \in Nat
  PROVE  Sells(g, SoldForCredit(g, o, offer), o)
<1>1. Good(g) /\ Mild(g, g) /\ Eased(g, g, {})
  BY MarksItself, MarksEases DEF Marks, Fine
<1>2. PICK r : r = subfrombill(g, o)
  OBVIOUS
<1>3. Sells(g, r, o)
  BY <1>1, <1>2, TakenBack
<1>4. Good(r) /\ Stays(g, r) /\ Like(g, r)
  BY <1>3 DEF Sells, Fine
<1>5. PICK n \in Nat : n = (offer * 9) \div 10 + (IF offer <= 1 THEN 1 ELSE 0)
  <2>1. PICK q \in Nat : q = offer * 9
    OBVIOUS
  <2>2. q \div 10 \in Nat
    OBVIOUS
  <2> QED
    BY <2>1, <2>2
<1>6. r.shop.credit \in Nat
  BY <1>4, GoodIs
<1>7. PICK h : h = [r EXCEPT !.shop.credit = r.shop.credit + n]
  OBVIOUS
<1>8. SoldForCredit(g, o, offer) = h
  <2>1. SoldForCredit(g, o, offer)
          = [r EXCEPT !.shop.credit = @ + (offer * 9) \div 10 + (IF offer <= 1 THEN 1 ELSE 0)]
    BY <1>2 DEF SoldForCredit
  <2>2. (offer * 9) \div 10 \in Int
    OBVIOUS
  <2>3. r.shop.credit + (offer * 9) \div 10 + (IF offer <= 1 THEN 1 ELSE 0)
          = r.shop.credit + n
    BY <1>5, <1>6, <2>2
  <2> QED
    BY <1>7, <2>1, <2>3
<1>9. /\ h \in Worlds /\ h.obj = r.obj /\ h.hero = r.hero
      /\ h.shop = [r.shop EXCEPT !.credit = r.shop.credit + n]
  <2>1. r \in Worlds
    BY <1>4 DEF Good
  <2>2. PICK c \in Nat : c = r.shop.credit + n
    BY <1>6
  <2> QED
    BY <1>7, <2>1, <2>2 DEF Worlds, Shops
<1>10. /\ h.shop.bill = r.shop.bill /\ h.shop.surcharge = r.shop.surcharge
       /\ h.shop.loan = r.shop.loan /\ h.shop.debit = r.shop.debit
       /\ h.shop.at = r.shop.at /\ h.shop.bill_inactive = r.shop.bill_inactive
  BY <1>4, <1>9 DEF Good, Worlds, Shops
<1>11. Good(h)
  BY <1>4, <1>9, <1>10, AccountIs DEF Good
<1>12. Stays(r, h) /\ Like(r, h)
  <2>1. Stays(r, h)
    BY <1>9, <1>10 DEF Stays
  <2> QED
    BY <1>9, <2>1, KeepsSame DEF Keeps
<1>13. Stays(g, h) /\ Like(g, h)
  BY <1>4, <1>12, LikeTwice
<1>14. Fine(h)
  BY <1>11, <1>13, ResidentIsFine
<1>15. Eased(g, h, {}) /\ Given(h, o)
  BY <1>3, <1>9 DEF Sells, Eased, Given
<1> QED
  BY <1>8, <1>13, <1>14, <1>15 DEF Sells

LEMMA DealSells ==
  ASSUME ShopConstants, NEW g, Fine(g), Resident(g), Room(g, 0),
         NEW o \in Ids, Here(g.obj[o]), NEW mine, Marks(g, mine), NEW offer \in Nat,
         NEW yes \in BOOLEAN, o = Box \/ ~g.obj[o].unpaid
  PROVE  Sells(g, Deal(g, mine, o, offer, yes), o)
<1>1. PICK h : h = Deal(g, mine, o, offer, yes)
  OBVIOUS
<1>2. \/ h = NoCharge(mine, o)
      \/ h = Unsold(g, o)
      \/ h = SoldForCredit(g, o, offer)
      \/ h = Sold(g, o, offer)
  BY <1>1 DEF Deal
<1>3. Sells(g, NoCharge(mine, o), o)
  <2>1. Marks(mine, NoCharge(mine, o)) /\ NoCharge(mine, o).obj[o].no_charge
    BY NoChargeMarks DEF Marks
  <2>2. Marks(g, NoCharge(mine, o))
    BY <2>1, MarksTwice
  <2>3. Given(NoCharge(mine, o), o)
    BY <2>1, <2>2 DEF Given, Marks
  <2> QED
    BY <2>2, <2>3, MarksSells
<1>4. /\ Sells(g, Unsold(g, o), o) /\ Sells(g, SoldForCredit(g, o, offer), o)
      /\ Sells(g, Sold(g, o, offer), o)
  BY UnsoldSells, SoldSells, CreditSells
<1> QED
  BY <1>1, <1>2, <1>3, <1>4

LEMMA BargainSells ==
  ASSUME ShopConstants, NEW g, Fine(g), Resident(g), Room(g, 0),
         NEW o \in Ids, Here(g.obj[o]), NEW mine, Marks(g, mine), NEW offer \in Nat,
         NEW yes \in BOOLEAN, o = Box \/ ~g.obj[o].unpaid \/ offer = 0
  PROVE  Sells(g, Bargain(g, mine, o, offer, yes), o)
<1>1. PICK h : h = Bargain(g, mine, o, offer, yes)
  OBVIOUS
<1>2. Good(g) /\ g.shop.robbed \in Nat
  BY GoodIs DEF Fine
<1>3. PICK m : m = IF g.obj[o].unpaid \/ g.obj[o].kind \in Trades THEN mine
                   ELSE NoCharge(mine, o)
  OBVIOUS
<1>4. PICK a : a = IF g.shop.angry THEN g ELSE [g EXCEPT !.shop.robbed = 0]
  OBVIOUS
<1>5. \/ h = sub_one_frombill(g, o) /\ ~HasContents(g, o)
      \/ h = subfrombill(m, o)
      \/ h = NoCharge(g, o) /\ ~g.obj[o].unpaid
      \/ h = subfrombill(a, o)
      \/ h = Deal(g, mine, o, offer, yes) /\ (o = Box \/ ~g.obj[o].unpaid)
  <2>1. offer = 0 \/ offer > 0
    OBVIOUS
  <2>2. g.shop.robbed = 0 \/ g.shop.robbed > 0
    BY <1>2
  <2> QED
    BY <1>1, <1>3, <1>4, <2>1, <2>2 DEF Bargain
<1>6. ~HasContents(g, o) => Sells(g, sub_one_frombill(g, o), o)
  BY OneTakenBack
<1>7. Sells(g, subfrombill(m, o), o)
  <2>1. Marks(mine, NoCharge(mine, o)) /\ Marks(mine, mine)
    BY NoChargeMarks, MarksItself DEF Marks
  <2>2. Marks(mine, m)
    BY <1>3, <2>1
  <2>3. Marks(g, m)
    BY <2>2, MarksTwice
  <2>4. Good(m) /\ Mild(g, m) /\ Eased(g, m, {})
    BY <2>3, MarksEases DEF Marks
  <2> QED
    BY <2>4, TakenBack
<1>8. ~g.obj[o].unpaid => Sells(g, NoCharge(g, o), o)
  <2>1. Marks(g, NoCharge(g, o)) /\ NoCharge(g, o).obj[o].no_charge
    BY <1>2, NoChargeMarks
  <2>2. ~g.obj[o].unpaid => Given(NoCharge(g, o), o)
    BY <2>1 DEF Given, Marks
  <2> QED
    BY <2>1, <2>2, MarksSells
<1>9. Sells(g, subfrombill(a, o), o)
  <2>1. CASE g.shop.angry
    <3>1. a = g /\ Mild(g, g) /\ Eased(g, g, {})
      BY <1>2, <1>4, <2>1, MarksItself, MarksEases DEF Marks
    <3> QED
      BY <1>2, <3>1, TakenBack
  <2>2. CASE ~g.shop.angry
    <3>1. a = [g EXCEPT !.shop.robbed = 0]
      BY <1>4, <2>2
    <3>2. g \in Worlds
      BY <1>2 DEF Good
    <3>3. /\ a \in Worlds /\ a.obj = g.obj /\ a.hero = g.hero
          /\ a.shop = [g.shop EXCEPT !.robbed = 0]
      BY <3>1, <3>2 DEF Worlds, Shops
    <3>4. /\ a.shop.bill = g.shop.bill /\ a.shop.surcharge = g.shop.surcharge
          /\ a.shop.loan = g.shop.loan /\ a.shop.debit = g.shop.debit
          /\ a.shop.at = g.shop.at /\ a.shop.bill_inactive = g.shop.bill_inactive
      BY <3>2, <3>3 DEF Worlds, Shops
    <3>5. Good(a)
      BY <1>2, <3>3, <3>4, AccountIs DEF Good
    <3>6. Mild(g, a) /\ Eased(g, a, {})
      BY <3>3, <3>4, SameBillSelf, SameEases DEF Mild, Stays
    <3> QED
      BY <3>5, <3>6, TakenBack
  <2> QED
    BY <2>1, <2>2
<1>10. o = Box \/ ~g.obj[o].unpaid => Sells(g, Deal(g, mine, o, offer, yes), o)
  BY DealSells
<1> QED
  BY <1>1, <1>5, <1>6, <1>7, <1>8, <1>9, <1>10

LEMMA SellObj ==
  ASSUME ShopConstants, NEW g, Fine(g), Resident(g), Room(g, 0),
         NEW o \in Ids, Here(g.obj[o]), NEW yes \in BOOLEAN
  PROVE  Sells(g, sellobj(g, o, yes), o)
<1>1. PICK s : s = Keeper(g)
  OBVIOUS
<1>2. Good(g)
  BY DEF Fine
<1>3. Good(s) /\ Moody(g, s)
  BY <1>1, <1>2, KeeperIs
<1>4. Fine(s) /\ Mild(g, s)
  BY <1>3, MoodyIsFine, MoodyIsMild
<1>5. Stays(g, s) /\ Like(g, s)
  BY <1>4, MildIsLike
<1>6. Resident(s) /\ Here(s.obj[o])
  BY <1>3 DEF Moody, Resident
<1>7. Room(s, 0)
  <2>1. Unused(s) = Unused(g) /\ Partial(s) = Partial(g)
    BY <1>2, <1>3, <1>4, MildRoom
  <2> QED
    BY <2>1 DEF Room
<1>8. PICK sale \in BOOLEAN : sale = FALSE
  OBVIOUS
<1>9. PICK mine : mine = IF HasContents(s, o) THEN dropped_container(s, sale) ELSE s
  OBVIOUS
<1>10. Marks(s, mine)
  BY <1>3, <1>9, BoxMarks
<1>11. PICK offer \in Nat : offer = InBox(s, o) + ForItself(s, o)
  BY <1>3, OffersAre
<1>20. o = Box \/ ~s.obj[o].unpaid \/ offer = 0
  BY <1>11 DEF InBox, ForItself
<1>12. PICK h : h = Bargain(s, mine, o, offer, yes)
  OBVIOUS
<1>13. Sells(s, h, o)
  BY <1>4, <1>6, <1>7, <1>10, <1>12, <1>20, BargainSells
<1>14. h = sellobj(g, o, yes)
  BY <1>1, <1>8, <1>9, <1>11, <1>12 DEF sellobj
<1>15. Stays(g, h) /\ Like(g, h) /\ Fine(h)
  BY <1>5, <1>13, LikeTwice DEF Sells
<1>16. Eased(g, h, {})
  BY <1>3, <1>13 DEF Sells, Moody, Eased
<1> QED
  BY <1>13, <1>14, <1>15, <1>16 DEF Sells

------------------------------------------------------------------------------
(* Goods are thrown out of the shop.                                        *)

LEMMA StolenIs ==
  ASSUME ShopConstants, NEW s, Good(s), NEW o \in Ids, NEW one \in Nat, NEW ininv \in BOOLEAN
  PROVE  Stolen(s, o, one, ininv) \in Nat
<1>1. PICK S : S = {i \in Contents(s) : IF ininv THEN s.obj[i].unpaid ELSE ~s.obj[i].no_charge}
  OBVIOUS
<1>2. S \in SUBSET Ids /\ IsFiniteSet(S)
  BY <1>1, IdsFinite DEF Contents
<1>3. PICK c : c = [i \in S |-> one * s.obj[i].quan]
  OBVIOUS
<1>4. c \in [S -> Nat]
  <2>1. \A i \in S : s.obj[i].quan \in Nat
    BY <1>2, GoodIs
  <2> QED
    BY <1>3, <2>1
<1>5. SumFunction(c) \in Nat
  BY <1>2, <1>4, SumIs
<1>6. Stolen(s, o, one, ininv) =
        IF HasContents(s, o)
        THEN SumFunction(c)
               + (IF (ininv /\ s.obj[o].unpaid) \/ ~s.obj[o].no_charge THEN one ELSE 0)
        ELSE IF ~s.obj[o].no_charge /\ s.obj[o].kind \in Trades THEN one ELSE 0
  BY <1>1, <1>3 DEF Stolen
<1> QED
  BY <1>5, <1>6

LEMMA UnmarkedIs ==
  ASSUME ShopConstants, NEW s, Good(s), NEW o \in Ids, NEW ininv \in BOOLEAN
  PROVE  LET h == Unmarked(s, o, ininv)
         IN Good(h) /\ Mild(s, h) /\ Eased(s, h, Reach(s, o))
<1>1. PICK S : S = (IF ininv THEN {} ELSE Contents(s))
                     \cup (IF ininv /\ s.obj[o].unpaid THEN {} ELSE {o})
  OBVIOUS
<1>2. S \in SUBSET Ids
  BY <1>1 DEF Contents
<1>3. PICK mine \in BOOLEAN : mine = FALSE
  OBVIOUS
<1>4. PICK h : h = SetNoCharge(s, S, mine)
  OBVIOUS
<1>5. Good(h) /\ Mild(s, h) /\ Marked(s, h, S, mine)
  BY <1>2, <1>4, MarksAre
<1>6. Unmarked(s, o, ininv) = IF ~HasContents(s, o) THEN s ELSE h
  BY <1>1, <1>3, <1>4 DEF Unmarked
<1>7. HasContents(s, o) => Eased(s, h, Reach(s, o))
  <2>1. HasContents(s, o) => S \subseteq Reach(s, o)
    BY <1>1 DEF HasContents, Reach
  <2> QED
    BY <1>5, <2>1 DEF Marked, Eased
<1>8. Mild(s, s) /\ Eased(s, s, Reach(s, o))
  BY MarksItself, MarksEases DEF Marks
<1> QED
  BY <1>5, <1>6, <1>7, <1>8

LEMMA LostIs ==
  ASSUME ShopConstants, NEW g, Good(g), NEW value \in Nat
  PROVE  Good(Lost(g, value)) /\ Mild(g, Lost(g, value)) /\ Lost(g, value).obj = g.obj
<1>1. PICK h : h = Lost(g, value)
  OBVIOUS
<1>2. value = 0 \/ value > 0
  OBVIOUS
<1>3. CASE value = 0
  <2>1. h = g
    BY <1>1, <1>3 DEF Lost
  <2> QED
    BY <1>1, <2>1, MarksItself DEF Marks
<1>4. CASE value > 0 /\ ~g.shop.angry
  <2>1. PICK c : c = check_credit(g, value)
    OBVIOUS
  <2>2. c.due \in Nat /\ Good(c.g) /\ Pays(g, c.g)
    BY <2>1, CreditIs
  <2>3. PICK k : k = c.g
    OBVIOUS
  <2>4. k \in Worlds /\ k.shop.debit \in Nat /\ k.shop.loan \in Nat /\ k.shop.loan <= k.shop.debit
    BY <2>2, <2>3, GoodIs DEF Good
  <2>5. PICK n \in Nat : n = k.shop.debit + c.due /\ k.shop.loan <= n
    BY <2>2, <2>4
  <2>6. h = [k EXCEPT !.shop.debit = n]
    <3>1. h = [c.g EXCEPT !.shop.debit = @ + c.due]
      BY <1>1, <1>4, <2>1 DEF Lost
    <3> QED
      BY <2>3, <2>5, <3>1
  <2>7. /\ h \in Worlds /\ h.obj = k.obj /\ h.hero = k.hero /\ h.wrong = k.wrong
        /\ h.shop = [k.shop EXCEPT !.debit = n]
    BY <2>4, <2>5, <2>6 DEF Worlds, Shops
  <2>8. /\ h.shop.bill = k.shop.bill /\ h.shop.surcharge = k.shop.surcharge
        /\ h.shop.loan = k.shop.loan /\ h.shop.debit = n /\ h.shop.angry = k.shop.angry
        /\ h.shop.at = k.shop.at /\ h.shop.bill_inactive = k.shop.bill_inactive
    BY <2>4, <2>7 DEF Worlds, Shops
  <2>9. Good(h)
    BY <2>2, <2>3, <2>5, <2>7, <2>8, AccountIs
  <2>10. Pays(k, h)
    BY <2>7, <2>8 DEF Pays, Stays
  <2>11. Mild(g, h) /\ h.obj = g.obj
    BY <2>2, <2>3, <2>10, PaysTwice, PaysKeeps DEF Pays
  <2> QED
    BY <1>1, <2>9, <2>11
<1>5. CASE value > 0 /\ g.shop.angry
  <2>1. PICK n \in Nat : n = g.shop.robbed + value
    BY GoodIs
  <2>2. PICK r : r = [g EXCEPT !.shop.robbed = n]
    OBVIOUS
  <2>3. h = hot_pursuit(r)
    BY <1>1, <1>5, <2>1, <2>2 DEF Lost
  <2>4. g \in Worlds
    BY DEF Good
  <2>5. /\ r \in Worlds /\ r.obj = g.obj /\ r.hero = g.hero
        /\ r.shop = [g.shop EXCEPT !.robbed = n]
    BY <2>2, <2>4 DEF Worlds, Shops
  <2>6. /\ r.shop.bill = g.shop.bill /\ r.shop.surcharge = g.shop.surcharge
        /\ r.shop.loan = g.shop.loan /\ r.shop.debit = g.shop.debit
        /\ r.shop.at = g.shop.at /\ r.shop.bill_inactive = g.shop.bill_inactive
    BY <2>4, <2>5 DEF Worlds, Shops
  <2>7. Good(r)
    BY <2>5, <2>6, AccountIs DEF Good
  <2>8. Mild(g, r)
    BY <2>5, <2>6, SameBillSelf DEF Mild, Stays
  <2>9. Good(h) /\ Moody(r, h)
    BY <2>3, <2>7, Pursuit
  <2>10. Mild(g, h) /\ h.obj = g.obj
    BY <2>5, <2>8, <2>9, MoodyIsMild, MildTwice DEF Moody
  <2> QED
    BY <1>1, <2>9, <2>10
<1> QED
  BY <1>2, <1>3, <1>4, <1>5

LEMMA StolenValueIs ==
  ASSUME ShopConstants, NEW g, Good(g), NEW o \in Ids, NEW price \in Prices
  PROVE  LET h == stolen_value(g, o, price)
         IN Good(h) /\ Mild(g, h) /\ Eased(g, h, Reach(g, o))
<1>1. PICK s : s = Keeper(g)
  OBVIOUS
<1>2. Good(s) /\ Mild(g, s) /\ s.obj = g.obj /\ Reach(s, o) = Reach(g, o)
  BY <1>1, KeeperIs, MoodyIsMild DEF Moody, Reach, Contents
<1>3. PICK ininv \in BOOLEAN : ininv = \E i \in Contents(s) : s.obj[i].unpaid
  OBVIOUS
<1>4. PICK one \in Nat : one = IF s.shop.surcharge THEN Surcharged(price) ELSE price
  BY DEF ShopConstants, Surcharged
<1>5. PICK m : m = Unmarked(s, o, ininv)
  OBVIOUS
<1>6. Good(m) /\ Mild(s, m) /\ Eased(s, m, Reach(s, o))
  BY <1>2, <1>5, UnmarkedIs
<1>7. PICK value \in Nat : value = Stolen(s, o, one, ininv)
  BY <1>2, StolenIs
<1>8. Good(Lost(m, value)) /\ Mild(m, Lost(m, value)) /\ Lost(m, value).obj = m.obj
  BY <1>6, LostIs
<1>9. Mild(g, Lost(m, value))
  BY <1>2, <1>6, <1>8, MildTwice
<1>10. stolen_value(g, o, price) = IF ~AtHome(s) THEN s ELSE Lost(m, value)
  BY <1>1, <1>3, <1>4, <1>5, <1>7 DEF stolen_value
<1>11. Eased(g, s, Reach(g, o)) /\ Eased(g, Lost(m, value), Reach(g, o))
  BY <1>2, <1>6, <1>8 DEF Eased
<1> QED
  BY <1>2, <1>8, <1>9, <1>10, <1>11

------------------------------------------------------------------------------
(* The bill is paid.                                                        *)

\* Nothing goes elsewhere, but for what was used up, and nothing gets unpaid.
Settles(g, h) ==
  /\ Good(h) /\ Stays(g, h) /\ Eased(g, h, {})
  /\ \A i \in Ids : h.obj[i].where = g.obj[i].where \/ h.obj[i].where = "none"

LEMMA SettlesTwice ==
  ASSUME NEW f, NEW g, NEW h, Settles(f, g), Settles(g, h)
  PROVE  Settles(f, h)
<1>1. Eased(f, h, {})
  BY EasedTwice DEF Settles
<1> QED
  BY <1>1 DEF Settles, Stays

LEMMA SettlesItself ==
  ASSUME NEW g, Good(g)
  PROVE  Settles(g, g)
BY SameEases DEF Settles, Stays

LEMMA PaysSettles ==
  ASSUME NEW g, NEW h, Pays(g, h), Good(h)
  PROVE  Settles(g, h)
BY SameEases DEF Settles, Pays

\* What is asked for: the entry e at at, of which there is have, and quan of it.
Asks(g, at, e, used, have, quan) ==
  /\ e = g.shop.bill[at]
  /\ have = IF e.useup THEN e.bquan ELSE g.obj[e.id].quan
  /\ quan = IF used /\ e.bquan > have THEN e.bquan - have ELSE have
  /\ (~used) # e.useup \/ have # e.bquan

LEMMA PaidOffIs ==
  ASSUME ShopConstants, NEW g, Good(g), NEW at \in 1..Len(g.shop.bill), NEW e,
         NEW used \in BOOLEAN, NEW have, NEW quan, Asks(g, at, e, used, have, quan)
  PROVE  Settles(g, PaidOff(g, e, at, used, have, quan))
<1>1. PICK old : old = g.shop.bill
  OBVIOUS
<1>2. PICK was : was = g.obj
  OBVIOUS
<1>3. PICK o \in Ids : o = e.id
  BY GoodIs, BillIs DEF Asks
<1>4. PICK h : h = PaidOff(g, e, at, used, have, quan)
  OBVIOUS
<1>5. /\ g \in Worlds /\ old \in Seq(Entries) /\ Agree(old, was) /\ Len(old) <= BILLSZ
      /\ Priced(old, g.shop.surcharge) /\ at \in 1..Len(old) /\ old[at] = e /\ e \in Entries
      /\ was \in [Ids -> Objects] /\ g.shop.loan <= g.shop.debit
      /\ IsFor(e, was[o]) /\ was[o] \in Objects
  BY <1>1, <1>2, <1>3, GoodIs, BillIs DEF Good, Worlds, Agree, Asks
<1>6. /\ e.bquan \in Nat \ {0} /\ e.useup \in BOOLEAN /\ was[o].quan \in Nat
      /\ 0 < was[o].quan /\ was[o].quan <= e.bquan
  BY <1>5 DEF Entries, Objects, IsFor
<1>7. CASE used /\ quan # e.bquan
  <2>1. ~e.useup /\ have = was[o].quan
    <3>1. have = e.bquan => quan = e.bquan
      BY <1>6, <1>7 DEF Asks
    <3>2. e.useup => have = e.bquan
      BY DEF Asks
    <3>3. ~e.useup => have = was[o].quan
      BY <1>2, <1>3 DEF Asks
    <3> QED
      BY <1>7, <3>1, <3>2, <3>3
  <2>2. was[o].unpaid /\ Here(was[o])
    BY <1>5, <2>1 DEF IsFor
  <2>3. PICK e1 : e1 = [e EXCEPT !.bquan = have, !.useup = FALSE]
    OBVIOUS
  <2>4. /\ e1 \in Entries /\ e1.id = o /\ e1.bquan = was[o].quan /\ e1.useup = FALSE
        /\ e1.price = e.price
    <3>1. have \in Nat \ {0}
      BY <1>6, <2>1
    <3>2. e \in Entries /\ e.id = o
      BY <1>3, <1>5
    <3> QED
      BY <2>1, <2>3, <3>1, <3>2 DEF Entries
  <2>5. PICK new : new = [was[o] EXCEPT !.unpaid = TRUE]
    OBVIOUS
  <2>6. /\ new \in Objects /\ new.unpaid = TRUE /\ new.where = was[o].where
        /\ new.quan = was[o].quan /\ new.no_charge = was[o].no_charge
    BY <1>5, <2>5 DEF Objects
  <2>7. PICK b : b = [old EXCEPT ![at] = e1]
    OBVIOUS
  <2>8. PICK objs : objs = [was EXCEPT ![o] = new]
    OBVIOUS
  <2>9. /\ objs \in [Ids -> Objects] /\ objs[o] = new
        /\ \A i \in Ids : i # o => objs[i] = was[i]
    BY <1>5, <2>6, <2>8
  <2>10. NewBooks(g, h, b, objs)
    <3>1. h = [g EXCEPT !.shop.bill[at] = e1, !.obj[o].unpaid = TRUE]
      BY <1>3, <1>4, <1>7, <2>3 DEF PaidOff
    <3> QED
      BY <1>1, <1>2, <1>5, <2>5, <2>7, <2>8, <3>1 DEF NewBooks, Worlds
  <2>11. /\ Agree(b, objs) /\ b \in Seq(Entries) /\ Len(b) = Len(old)
         /\ \A m \in 1..Len(old) : b[m] = IF m = at THEN e1 ELSE old[m]
    <3>1. \A i \in Ids : i # e1.id /\ i # old[at].id => Same(objs[i], was[i])
      BY <2>4, <2>9 DEF Same
    <3>2. e1.id # old[at].id => /\ \A m \in 1..Len(old) : old[m].id # e1.id
                               /\ ~objs[old[at].id].unpaid /\ objs[old[at].id].where # "billed"
      BY <1>3, <1>5, <2>4
    <3>3. IsFor(e1, objs[e1.id]) /\ Agree(old, was)
      BY <1>5, <1>6, <2>2, <2>4, <2>6, <2>9 DEF IsFor, Here
    <3>4. e1 \in Entries /\ at \in 1..Len(old) /\ old \in Seq(Entries)
      BY <1>5, <2>4
    <3>5. /\ Agree([old EXCEPT ![at] = e1], objs)
          /\ [old EXCEPT ![at] = e1] \in Seq(Entries)
          /\ Len([old EXCEPT ![at] = e1]) = Len(old)
          /\ \A m \in 1..Len(old) : [old EXCEPT ![at] = e1][m] = IF m = at THEN e1 ELSE old[m]
      BY <3>1, <3>2, <3>3, <3>4, AgreeReplaced
    <3> QED
      BY <2>7, <3>5
  <2>12. Priced(b, g.shop.surcharge)
    BY <1>5, <2>4, <2>11 DEF Priced
  <2>13. \A i \in Ids : Here(objs[i]) => objs[i].quan > 0
    BY <1>2, <1>6, <2>6, <2>9 DEF Good, Here
  <2>14. Good(h) /\ Stays(g, h) /\ h.obj = objs
    <3>1. /\ g \in Worlds /\ g.shop.loan <= g.shop.debit /\ b \in Seq(Entries)
          /\ objs \in [Ids -> Objects] /\ Len(b) <= BILLSZ
          /\ Priced(b, g.shop.surcharge) /\ Agree(b, objs) /\ NewBooks(g, h, b, objs)
      BY <1>5, <2>9, <2>10, <2>11, <2>12
    <3> QED
      BY <2>13, <3>1, NewBillIsGood
  <2>15. Eased(g, h, {})
    BY <1>2, <2>2, <2>6, <2>9, <2>14 DEF Eased
  <2> QED
    BY <1>2, <1>4, <2>6, <2>9, <2>14, <2>15 DEF Settles
<1>8. CASE ~(used /\ quan # e.bquan)
  <2>1. PICK new : new = IF used THEN Nothing ELSE [was[o] EXCEPT !.unpaid = FALSE]
    OBVIOUS
  <2>2. ~used => ~e.useup
    BY <1>6 DEF Asks
  <2>3. /\ new \in Objects /\ ~new.unpaid /\ new.where # "billed"
        /\ new.where = was[o].where \/ new.where = "none"
        /\ Here(new) => new.quan > 0 /\ new.no_charge = was[o].no_charge
    <3>1. CASE used
      BY <2>1, <3>1 DEF Nothing, Objects, Here
    <3>2. CASE ~used
      <4>1. Here(was[o])
        BY <1>5, <2>2, <3>2 DEF IsFor
      <4>2. new = [was[o] EXCEPT !.unpaid = FALSE]
        BY <2>1, <3>2
      <4>3. /\ new \in Objects /\ new.unpaid = FALSE /\ new.where = was[o].where
            /\ new.quan = was[o].quan /\ new.no_charge = was[o].no_charge
        BY <1>5, <4>2 DEF Objects
      <4> QED
        BY <1>6, <4>1, <4>3 DEF Here
    <3> QED
      BY <3>1, <3>2
  <2>4. PICK b : b = Without(old, at)
    OBVIOUS
  <2>5. PICK objs : objs = [was EXCEPT ![o] = new]
    OBVIOUS
  <2>6. /\ objs \in [Ids -> Objects] /\ objs[o] = new
        /\ \A i \in Ids : i # o => objs[i] = was[i]
    BY <1>5, <2>3, <2>5
  <2>7. NewBooks(g, h, b, objs)
    <3>1. h = [g EXCEPT !.shop.bill = Without(old, at), !.obj[o] = new]
      BY <1>1, <1>2, <1>3, <1>4, <1>8, <2>1 DEF PaidOff
    <3> QED
      BY <1>2, <1>5, <2>4, <2>5, <3>1 DEF NewBooks, Worlds
  <2>8. Agree(b, objs)
    <3>1. \A i \in Ids : i # old[at].id => Same(objs[i], was[i])
      BY <1>3, <1>5, <2>6 DEF Same
    <3>2. ~objs[old[at].id].unpaid /\ objs[old[at].id].where # "billed"
      BY <1>3, <1>5, <2>3, <2>6
    <3> QED
      BY <1>5, <2>4, <3>1, <3>2, AgreeWithout
  <2>9. /\ b \in Seq(Entries) /\ Len(b) = Len(old) - 1 /\ Len(old) \in Nat
        /\ \A m \in 1..(Len(old) - 1) : b[m] = IF m = at THEN old[Len(old)] ELSE old[m]
    BY <1>5, <2>4, WithoutIs
  <2>10. Priced(b, g.shop.surcharge)
    <3>1. Len(old) \in 1..Len(old) /\ \A m \in 1..(Len(old) - 1) : m \in 1..Len(old)
      BY <1>5, <2>9
    <3> QED
      BY <1>5, <2>9, <3>1 DEF Priced
  <2>11. Len(b) <= BILLSZ
    BY <1>5, <2>9 DEF ShopConstants
  <2>12. \A i \in Ids : Here(objs[i]) => objs[i].quan > 0
    BY <1>2, <2>3, <2>6 DEF Good
  <2>13. Good(h) /\ Stays(g, h) /\ h.obj = objs
    <3>1. /\ g \in Worlds /\ g.shop.loan <= g.shop.debit /\ b \in Seq(Entries)
          /\ objs \in [Ids -> Objects] /\ Len(b) <= BILLSZ
          /\ Priced(b, g.shop.surcharge) /\ Agree(b, objs) /\ NewBooks(g, h, b, objs)
      BY <1>5, <2>6, <2>7, <2>8, <2>9, <2>10, <2>11
    <3> QED
      BY <2>12, <3>1, NewBillIsGood
  <2>14. Eased(g, h, {})
    BY <1>2, <2>3, <2>6, <2>13 DEF Eased, Here
  <2> QED
    BY <1>2, <1>4, <2>3, <2>6, <2>13, <2>14 DEF Settles
<1> QED
  BY <1>7, <1>8

\* An entry is passed over: its object is unpaid, used up or not.
LEMMA SkippedIs ==
  ASSUME NEW g, Good(g), NEW at \in 1..Len(g.shop.bill), NEW e, e = g.shop.bill[at],
         NEW h, h = [g EXCEPT !.obj[e.id].unpaid = TRUE]
  PROVE  Settles(g, h)
<1>1. PICK o \in Ids : o = e.id
  BY GoodIs, BillIs
<1>2. /\ g \in Worlds /\ g.obj[o] \in Objects /\ IsFor(e, g.obj[o])
      /\ Here(g.obj[o]) => g.obj[o].quan > 0
  BY <1>1, GoodIs DEF Good, Agree
<1>3. PICK new : new = [g.obj[o] EXCEPT !.unpaid = TRUE]
  OBVIOUS
<1>4. /\ new \in Objects /\ new.unpaid = TRUE /\ new.where = g.obj[o].where
      /\ new.quan = g.obj[o].quan
  BY <1>2, <1>3 DEF Objects
<1>5. NewObject(g, h, o, new)
  BY <1>1, <1>2, <1>3 DEF NewObject, Worlds
<1>6. h \in Worlds /\ Replaced(g, h, o, new)
  BY <1>2, <1>4, <1>5, ReplacedIs
<1>7. \A k \in 1..Len(g.shop.bill) : g.shop.bill[k].id = o => IsFor(g.shop.bill[k], new)
  <2> TAKE k \in 1..Len(g.shop.bill)
  <2>1. IsFor(g.shop.bill[k], g.obj[g.shop.bill[k].id])
    BY DEF Good, Agree
  <2> QED
    BY <1>4, <2>1 DEF IsFor, Here
<1>8. Good(h)
  <2>1. Here(new) => new.quan > 0
    BY <1>2, <1>4 DEF Here
  <2>2. new.unpaid \/ new.where = "billed" => \E k \in 1..Len(g.shop.bill) : g.shop.bill[k].id = o
    BY <1>1
  <2> QED
    BY <1>6, <1>7, <2>1, <2>2, ReplacedIsGood
<1>9. Eased(g, h, {})
  <2>1. g.obj[o].no_charge = new.no_charge
    BY <1>2, <1>3 DEF Objects
  <2>2. Here(new) => g.obj[o].unpaid
    BY <1>2, <1>4 DEF IsFor, Here
  <2> QED
    BY <1>4, <1>6, <2>1, <2>2 DEF Eased, Replaced
<1> QED
  BY <1>4, <1>6, <1>8, <1>9 DEF Settles, Replaced, Stays

\* Where paying the bill of g has come to.
Going(g, a) ==
  Settles(g, a.g) /\ a \in [g : Worlds, pass : 0..2, at : Nat \ {0}, over : BOOLEAN]

\* The entry e at at is looked at.
Looks(a, at, e, used, have, quan) ==
  /\ a \in [g : Worlds, pass : 0..2, at : Nat \ {0}, over : BOOLEAN] /\ a.pass < 2
  /\ at = a.at /\ e = a.g.shop.bill[at] /\ used \in BOOLEAN /\ (used <=> a.pass = 0)
  /\ have = IF e.useup THEN e.bquan ELSE a.g.obj[e.id].quan
  /\ quan = IF used /\ e.bquan > have THEN e.bquan - have ELSE have

Skip(a, e) == [a EXCEPT !.g.obj[e.id].unpaid = TRUE, !.at = @ + 1]

\* It is paid for, or it is not.
LEMMA PayEntryCases ==
  ASSUME NEW a, NEW at, NEW e, NEW used, NEW have, NEW quan, Looks(a, at, e, used, have, quan),
         e.useup \in BOOLEAN, Wealth(a.g) \in Nat, e.price * quan \in Nat,
         NEW itemize \in BOOLEAN, NEW yes
  PROVE  LET r == PayEntry(a, yes, itemize)
         IN \/ r = [a EXCEPT !.at = @ + 1] /\ (~used <=> e.useup) /\ have = e.bquan
            \/ r = [a EXCEPT !.over = TRUE] /\ itemize
            \/ r = Skip(a, e) /\ itemize
            \/ r = [Skip(a, e) EXCEPT !.over = TRUE]
            \/ /\ r = [a EXCEPT !.g = PaidOff(pay(a.g, e.price * quan), e, at, used, have, quan)]
               /\ e.price * quan <= Wealth(a.g) /\ Asks(a.g, at, e, used, have, quan)
               /\ itemize => used \/ ~(quan < e.bquan)
<1>1. PICK n \in Nat : n = e.price * quan
  OBVIOUS
<1>2. PICK wealth \in Nat : wealth = Wealth(a.g)
  OBVIOUS
<1>3. PICK skip : skip = Skip(a, e)
  OBVIOUS
<1>4. PICK t : t = PaidOff(pay(a.g, e.price * quan), e, at, used, have, quan)
  OBVIOUS
<1>5. PICK r : r = PayEntry(a, yes, itemize)
  OBVIOUS
<1>6. used \in BOOLEAN /\ (a.pass = 1 <=> ~used) /\ (a.pass = 0 <=> used)
  <2>1. a.pass \in 0..2 /\ a.pass < 2 /\ used \in BOOLEAN /\ (used <=> a.pass = 0)
    BY DEF Looks
  <2>2. a.pass = 0 \/ (a.pass = 1 /\ a.pass # 0)
    BY <2>1
  <2>3. a.pass = 0 => a.pass # 1
    OBVIOUS
  <2> QED
    BY <2>1, <2>2, <2>3, Zenon
<1>7. PICK w : w = a.g
  OBVIOUS
<1>8. /\ at = a.at /\ e = w.shop.bill[at]
      /\ have = IF e.useup THEN e.bquan ELSE w.obj[e.id].quan
      /\ quan = IF used /\ e.bquan > have THEN e.bquan - have ELSE have
  BY <1>7 DEF Looks
<1>9. used = (a.pass = 0)
  BY <1>6, Zenon
<1>10. CASE (~used <=> e.useup) /\ have = e.bquan
  <2>1. (a.pass = 1) = e.useup
    BY <1>6, <1>10, Zenon
  <2>2. r = [a EXCEPT !.at = @ + 1]
    BY <1>5, <1>7, <1>8, <1>10, <2>1 DEF PayEntry
  <2> QED
    BY <1>5, <1>10, <2>2, Zenon
<1>11. CASE ~((~used <=> e.useup) /\ have = e.bquan)
  <2>1. Asks(a.g, at, e, used, have, quan)
    BY <1>6, <1>7, <1>8, <1>11 DEF Asks
  <2>2. ~((a.pass = 1) = e.useup /\ have = e.bquan)
    BY <1>6, <1>11, Zenon
  <2>3. r = CASE itemize /\ wealth = 0 -> [a EXCEPT !.over = TRUE]
              [] itemize /\ wealth > 0
                 /\ (<<e.id, a.pass>> \notin yes \/ (~used /\ quan < e.bquan)
                     \/ wealth < n) -> skip
              [] ~itemize /\ wealth < n -> [skip EXCEPT !.over = TRUE]
              [] OTHER -> [a EXCEPT !.g = t]
    BY <1>1, <1>2, <1>3, <1>4, <1>5, <1>7, <1>8, <1>9, <2>2 DEF PayEntry, Skip
  <2>4. wealth = 0 \/ wealth > 0
    OBVIOUS
  <2>5. \/ r = [a EXCEPT !.over = TRUE] /\ itemize
        \/ r = skip /\ itemize
        \/ r = [skip EXCEPT !.over = TRUE]
        \/ r = [a EXCEPT !.g = t] /\ n <= wealth /\ (itemize => used \/ ~(quan < e.bquan))
    <3>1. CASE wealth < n
      BY <2>3, <2>4, <3>1
    <3>2. CASE n <= wealth
      <4>1. ~(wealth < n)
        BY <3>2
      <4> QED
        BY <2>3, <2>4, <3>2, <4>1
    <3> QED
      BY <3>1, <3>2
  <2> QED
    BY <1>1, <1>2, <1>3, <1>4, <1>5, <2>1, <2>5
<1> QED
  BY <1>10, <1>11

LEMMA PayEntryIs ==
  ASSUME ShopConstants, NEW g, NEW a, Going(g, a), a.pass < 2,
         a.at \in 1..Len(a.g.shop.bill), NEW itemize \in BOOLEAN, NEW yes
  PROVE  Going(g, PayEntry(a, yes, itemize))
<1>1. PICK r : r = PayEntry(a, yes, itemize)
  OBVIOUS
<1>2. PICK w : w = a.g
  OBVIOUS
<1>3. PICK at \in 1..Len(w.shop.bill) : at = a.at
  BY <1>2
<1>4. PICK e : e = w.shop.bill[at]
  OBVIOUS
<1>5. PICK used \in BOOLEAN : used = (a.pass = 0)
  OBVIOUS
<1>6. PICK have : have = IF e.useup THEN e.bquan ELSE w.obj[e.id].quan
  OBVIOUS
<1>7. PICK quan : quan = IF used /\ e.bquan > have THEN e.bquan - have ELSE have
  OBVIOUS
<1>8. /\ a \in [g : Worlds, pass : 0..2, at : Nat \ {0}, over : BOOLEAN]
      /\ Settles(g, w) /\ Good(w) /\ w \in Worlds /\ w.shop.bill \in Seq(Entries)
  BY <1>2, GoodIs DEF Going, Settles, Good
<1>9. /\ e \in Entries /\ e.id \in Ids /\ e.bquan \in Nat \ {0} /\ e.useup \in BOOLEAN
      /\ e.price \in Nat /\ w.obj[e.id].quan \in Nat
  <2>1. e \in Entries /\ e.id \in Ids /\ e.bquan \in Nat \ {0} /\ e.useup \in BOOLEAN
        /\ e.price \in Prices \cup Sums
    BY <1>4, <1>8, BillIs
  <2>2. \A p \in Prices : p \in Nat /\ Surcharged(p) \in Nat
    BY DEF ShopConstants, Surcharged
  <2> QED
    BY <1>8, <2>1, <2>2, GoodIs DEF Sums
<1>10. have \in Nat /\ quan \in Nat /\ e.price * quan \in Nat /\ Wealth(w) \in Nat
  <2>1. have \in Nat
    BY <1>6, <1>9
  <2>2. quan \in Nat
    BY <1>7, <1>9, <2>1
  <2>3. e.price * quan \in Nat
    BY <1>9, <2>2
  <2>4. Wealth(w) \in Nat
    BY <1>8, GoodIs DEF Wealth
  <2> QED
    BY <2>1, <2>2, <2>3, <2>4
<1>11. PICK n \in Nat : n = e.price * quan
  BY <1>10
<1>12. PICK s : s = [w EXCEPT !.obj[e.id].unpaid = TRUE]
  OBVIOUS
<1>13. PICK skip : skip = Skip(a, e)
  OBVIOUS
<1>14. PICK p : p = pay(w, n)
  OBVIOUS
<1>15. PICK t : t = PaidOff(p, e, at, used, have, quan)
  OBVIOUS
<1>16. \/ r = [a EXCEPT !.at = @ + 1]
       \/ r = [a EXCEPT !.over = TRUE]
       \/ r = skip
       \/ r = [skip EXCEPT !.over = TRUE]
       \/ r = [a EXCEPT !.g = t] /\ n <= Wealth(w) /\ Asks(w, at, e, used, have, quan)
  <2>1. Looks(a, at, e, used, have, quan)
    BY <1>2, <1>3, <1>4, <1>5, <1>6, <1>7, <1>8 DEF Looks
  <2>2. e.useup \in BOOLEAN /\ Wealth(a.g) \in Nat /\ e.price * quan \in Nat
    BY <1>2, <1>9, <1>10
  <2> QED
    BY <1>1, <1>2, <1>11, <1>13, <1>14, <1>15, <2>1, <2>2, PayEntryCases
<1>17. Settles(g, s) /\ s \in Worlds
  <2>1. Settles(w, s)
    BY <1>4, <1>8, <1>12, SkippedIs
  <2>2. Settles(g, s)
    BY <1>8, <2>1, SettlesTwice
  <2> QED
    BY <2>2 DEF Settles, Good
<1>18. Going(g, skip)
  <2>1. skip = [a EXCEPT !.g = s, !.at = @ + 1]
    BY <1>2, <1>8, <1>12, <1>13 DEF Skip
  <2>2. PICK m \in Nat \ {0} : m = a.at + 1
    BY <1>8
  <2>3. skip = [a EXCEPT !.g = s, !.at = m]
    BY <2>1, <2>2
  <2>4. skip.g = s /\ skip \in [g : Worlds, pass : 0..2, at : Nat \ {0}, over : BOOLEAN]
    BY <1>8, <1>17, <2>2, <2>3
  <2> QED
    BY <1>17, <2>4 DEF Going
<1>7a. CASE r = [a EXCEPT !.at = @ + 1]
  BY <1>1, <1>2, <1>8, <1>7a DEF Going
<1>20. CASE r = [a EXCEPT !.over = TRUE]
  BY <1>1, <1>2, <1>8, <1>20 DEF Going
<1>21. CASE r = skip
  BY <1>1, <1>18, <1>21
<1>22. CASE r = [skip EXCEPT !.over = TRUE]
  <2>1. /\ Settles(g, skip.g)
        /\ skip \in [g : Worlds, pass : 0..2, at : Nat \ {0}, over : BOOLEAN]
    BY <1>18 DEF Going
  <2>2. r.g = skip.g /\ r \in [g : Worlds, pass : 0..2, at : Nat \ {0}, over : BOOLEAN]
    BY <1>22, <2>1
  <2> QED
    BY <1>1, <2>1, <2>2 DEF Going
<1>23. CASE r = [a EXCEPT !.g = t] /\ n <= Wealth(w) /\ Asks(w, at, e, used, have, quan)
  <2>1. Good(p) /\ Pays(w, p)
    <3>1. n \in Int /\ ~(n < 0)
      OBVIOUS
    <3> QED
      BY <1>8, <1>14, <1>23, <3>1, PayIs
  <2>2. p.shop.bill = w.shop.bill /\ p.obj = w.obj
    BY <2>1 DEF Pays
  <2>3. Asks(p, at, e, used, have, quan) /\ at \in 1..Len(p.shop.bill)
    BY <1>23, <2>2 DEF Asks
  <2>4. Settles(p, t)
    BY <1>15, <2>1, <2>3, PaidOffIs
  <2>5. Settles(g, t)
    BY <1>8, <2>1, <2>4, PaysSettles, SettlesTwice
  <2>6. t \in Worlds
    BY <2>5 DEF Settles, Good
  <2> QED
    BY <1>1, <1>8, <1>23, <2>5, <2>6 DEF Going
<1> QED
  BY <1>16, <1>7a, <1>20, <1>21, <1>22, <1>23

LEMMA PayStepIs ==
  ASSUME ShopConstants, NEW g, NEW a, Going(g, a), NEW itemize \in BOOLEAN, NEW yes
  PROVE  Going(g, PayStep(a, yes, itemize))
<1>1. PICK r : r = PayStep(a, yes, itemize)
  OBVIOUS
<1>2. /\ a \in [g : Worlds, pass : 0..2, at : Nat \ {0}, over : BOOLEAN]
      /\ Settles(g, a.g) /\ Len(a.g.shop.bill) \in Nat
  BY GoodIs DEF Going, Settles
<1>3. a.pass \in 0..2 /\ a.at \in Nat \ {0}
  BY <1>2
<1>4. CASE a.over \/ a.pass = 2
  <2>1. r = a
    BY <1>1, <1>3, <1>4 DEF PayStep
  <2> QED
    BY <1>1, <2>1
<1>5. CASE ~a.over /\ a.pass < 2 /\ a.at > Len(a.g.shop.bill)
  <2>1. a.pass # 2 /\ ~(a.at <= Len(a.g.shop.bill))
    BY <1>2, <1>3, <1>5
  <2>2. r = [a EXCEPT !.pass = @ + 1, !.at = 1]
    BY <1>1, <1>5, <2>1 DEF PayStep
  <2>3. PICK q \in 0..2 : q = a.pass + 1
    BY <1>3, <1>5
  <2>4. r = [a EXCEPT !.pass = q, !.at = 1]
    BY <2>2, <2>3
  <2>5. r.g = a.g /\ r \in [g : Worlds, pass : 0..2, at : Nat \ {0}, over : BOOLEAN]
    <3>1. a \in [g : Worlds, pass : 0..2, at : Nat \ {0}, over : BOOLEAN]
      BY <1>2
    <3>2. PICK w : w = a.g
      OBVIOUS
    <3>3. r = [g |-> w, pass |-> q, at |-> 1, over |-> a.over] /\ w \in Worlds
      BY <2>4, <3>1, <3>2
    <3> QED
      BY <3>1, <3>2, <3>3
  <2> QED
    BY <1>1, <1>2, <2>5 DEF Going
<1>6. CASE ~a.over /\ a.pass < 2 /\ a.at <= Len(a.g.shop.bill)
  <2>1. a.pass # 2 /\ ~(a.at > Len(a.g.shop.bill)) /\ a.at \in 1..Len(a.g.shop.bill)
    BY <1>2, <1>3, <1>6
  <2>2. r = PayEntry(a, yes, itemize)
    BY <1>1, <1>6, <2>1 DEF PayStep
  <2> QED
    BY <1>1, <1>6, <2>1, <2>2, PayEntryIs
<1>7. a.pass = 2 \/ a.pass < 2
  BY <1>3
<1>8. a.at <= Len(a.g.shop.bill) \/ a.at > Len(a.g.shop.bill)
  BY <1>2, <1>3
<1> QED
  BY <1>4, <1>5, <1>6, <1>7, <1>8

\* The bill of g is paid step by step: D are states that paying does not leave.
LEMMA PayBillSteps ==
  ASSUME BILLSZ \in Nat, NEW g, NEW itemize, NEW yes,
         NEW D, [g |-> g, pass |-> 0, at |-> 1, over |-> FALSE] \in D,
         \A q \in D : PayStep(q, yes, itemize) \in D
  PROVE  \E q \in D : PayBill(g, yes, itemize) = q.g
<1> DEFINE S == 1..(4 * BILLSZ + 2)
           step == [p \in S \X D |-> PayStep(p[2], yes, itemize)]
           base == [g |-> g, pass |-> 0, at |-> 1, over |-> FALSE]
           Eq(f) == f = [s \in SUBSET S |->
                           IF s = {} THEN base
                           ELSE PayStep(f[s \ {CHOOSE x \in s : TRUE}], yes, itemize)]
           it == CHOOSE f : Eq(f)
<1>1. PayBill(g, yes, itemize) = it[S].g
  BY Zenon DEF PayBill, FoldSet, MapThenFoldSet
<1>2. IsFiniteSet(S)
  BY FS_Interval
<1>3. base \in D
  OBVIOUS
<1> HIDE DEF S, base
<1>4. step \in [S \X D -> D]
  OBVIOUS
<1>5. PICK f : IsFold(f, S, D, base, step)
  <2> HIDE DEF step
  <2> QED
    BY <1>2, <1>3, <1>4, FoldDefined
<1>6. Eq(f)
  <2>1. f \in [SUBSET S -> D]
    BY <1>5 DEF IsFold
  <2>2. ASSUME NEW s \in SUBSET S
        PROVE  f[s] = IF s = {} THEN base ELSE PayStep(f[s \ {Pick(s)}], yes, itemize)
    <3>1. s # {} => Pick(s) \in S /\ s \ {Pick(s)} \in SUBSET S
      BY DEF Pick
    <3>2. f[s] = IF s = {} THEN base ELSE step[<<Pick(s), f[s \ {Pick(s)}]>>]
      BY <1>5 DEF IsFold
    <3>3. s # {} => step[<<Pick(s), f[s \ {Pick(s)}]>>]
                      = PayStep(f[s \ {Pick(s)}], yes, itemize)
      BY <2>1, <3>1
    <3> QED
      BY <3>2, <3>3
  <2> QED
    BY <2>1, <2>2 DEF Pick
<1> HIDE DEF step
<1>7. Eq(it)
  <2> HIDE DEF Eq
  <2> QED
    BY <1>6, Zenon
<1>8. \A s \in SUBSET S :
         it[s] = IF s = {} THEN base ELSE PayStep(it[s \ {Pick(s)}], yes, itemize)
  <2> HIDE DEF it
  <2> QED
    BY <1>7 DEF Pick
<1> HIDE DEF it, Eq
<1> DEFINE Holds == {s \in SUBSET S : it[s] \in D}
<1>9. {} \in Holds
  BY <1>3, <1>8
<1>10. ASSUME NEW s \in SUBSET S, s # {}, s \ {Pick(s)} \in Holds PROVE s \in Holds
  <2>1. Pick(s) \in S /\ it[s \ {Pick(s)}] \in D
    BY <1>10 DEF Pick
  <2> QED
    BY <1>8, <1>10, <2>1
<1>11. S \in Holds
  <2> HIDE DEF Holds
  <2> QED
    BY <1>2, <1>9, <1>10, SetsGrow
<1>12. it[S] \in D
  BY <1>11
<1> QED
  BY <1>1, <1>12

\* Nothing goes elsewhere while the bill is paid.
LEMMA PayBillIs ==
  ASSUME ShopConstants, NEW g, Good(g), NEW itemize \in BOOLEAN, NEW yes
  PROVE  Settles(g, PayBill(g, yes, itemize))
<1> DEFINE States == [g : Worlds, pass : 0..2, at : Nat \ {0}, over : BOOLEAN]
           base == [g |-> g, pass |-> 0, at |-> 1, over |-> FALSE]
<1>1. PICK D : D = {q \in States : Going(g, q)}
  OBVIOUS
<1>2. base \in D
  <2>1. g \in Worlds /\ Settles(g, g)
    BY SettlesItself DEF Good
  <2>2. base \in States
    BY <2>1
  <2>3. base.g = g
    OBVIOUS
  <2> HIDE DEF base
  <2> QED
    BY <1>1, <2>1, <2>2, <2>3 DEF Going
<1>3. ASSUME NEW q \in D PROVE PayStep(q, yes, itemize) \in D
  <2>1. PICK r : r = PayStep(q, yes, itemize)
    OBVIOUS
  <2>2. Going(g, q)
    BY <1>1
  <2>3. Going(g, r)
    BY <2>1, <2>2, PayStepIs
  <2>4. r \in States
    BY <2>3 DEF Going
  <2> QED
    BY <1>1, <2>1, <2>3, <2>4
<1>4. \A q \in D : Settles(g, q.g)
  BY <1>1 DEF Going
<1>5. BILLSZ \in Nat
  BY DEF ShopConstants
<1>6. \E q \in D : PayBill(g, yes, itemize) = q.g
  BY <1>2, <1>3, <1>5, PayBillSteps
<1> QED
  BY <1>4, <1>6

\* What is owed for goods, and for their use.
LEMMA PayDebitIs ==
  ASSUME ShopConstants, NEW g, Good(g), g.shop.debit <= Wealth(g)
  PROVE  LET h == PayDebit(g)
         IN /\ Settles(g, h) /\ Pays(g, h) /\ h.shop.robbed = g.shop.robbed
            /\ h.shop.debit = 0 /\ Wealth(h) = Wealth(g) - g.shop.debit
<1>1. PICK c : c = check_credit(g, g.shop.debit)
  OBVIOUS
<1>2. /\ c.due \in Nat /\ Good(c.g) /\ Pays(g, c.g) /\ c.g.hero = g.hero
      /\ c.g.shop.robbed = g.shop.robbed
      /\ c.due = g.shop.debit - (g.shop.credit - c.g.shop.credit)
      /\ c.due > 0 => c.g.shop.credit = 0
  <2>1. PICK n \in Nat : n = g.shop.debit
    BY GoodIs
  <2>2. c = check_credit(g, n)
    BY <1>1, <2>1
  <2>3. /\ c.due \in Nat /\ Good(c.g) /\ Pays(g, c.g) /\ c.g.hero = g.hero
        /\ c.g.shop.robbed = g.shop.robbed
        /\ c.due = n - (g.shop.credit - c.g.shop.credit)
        /\ c.due > 0 => c.g.shop.credit = 0
    BY <2>2, CreditIs
  <2> QED
    BY <2>1, <2>3
<1>3. PICK w : w = c.g
  OBVIOUS
<1>4. PICK due \in Nat : due = c.due
  BY <1>2
<1>5. PICK s : s = [w EXCEPT !.shop.debit = 0, !.shop.loan = 0]
  OBVIOUS
<1>6. w \in Worlds /\ Good(w) /\ Pays(g, w)
  BY <1>2, <1>3 DEF Good
<1>7. due <= w.hero.purse
  <2>1. /\ g.shop.credit \in Nat /\ g.shop.debit \in Nat /\ g.hero.purse \in Nat
        /\ w.shop.credit \in Nat
    BY <1>6, GoodIs
  <2>2. due = g.shop.debit - (g.shop.credit - w.shop.credit) /\ (due > 0 => w.shop.credit = 0)
        /\ w.hero.purse = g.hero.purse
    BY <1>2, <1>3, <1>4
  <2>3. CASE due > 0
    BY <2>1, <2>2, <2>3 DEF Wealth
  <2>4. CASE due = 0
    BY <2>1, <2>2, <2>4
  <2> QED
    BY <2>3, <2>4
<1>8. /\ s \in Worlds /\ s.hero = w.hero /\ s.obj = w.obj /\ s.wrong = w.wrong
      /\ s.shop.bill = w.shop.bill /\ s.shop.at = w.shop.at
      /\ s.shop.bill_inactive = w.shop.bill_inactive /\ s.shop.surcharge = w.shop.surcharge
      /\ s.shop.angry = w.shop.angry /\ s.shop.debit = 0 /\ s.shop.loan = 0
      /\ s.shop.till = w.shop.till /\ s.shop.credit = w.shop.credit
      /\ s.shop.robbed = w.shop.robbed
  BY <1>5, <1>6 DEF Worlds, Shops
<1>9. PICK h : h = PayDebit(g)
  OBVIOUS
<1>10. h = [s EXCEPT !.hero.purse = @ - due, !.shop.till = @ + due]
  <2>1. h = money2mon(s, due)
    BY <1>1, <1>3, <1>4, <1>5, <1>9 DEF PayDebit
  <2>2. ~(s.hero.purse < due)
    <3>1. w.hero.purse \in Nat
      BY <1>6, GoodIs
    <3> QED
      BY <1>7, <1>8, <3>1
  <2> QED
    BY <2>1, <2>2 DEF money2mon
<1>11. PICK left \in Nat : left = s.hero.purse - due
  <2>1. w.hero.purse \in Nat
    BY <1>6, GoodIs
  <2> QED
    BY <1>7, <1>8, <2>1
<1>12. PICK till \in Nat : till = s.shop.till + due
  <2>1. w.shop.till \in Nat
    BY <1>6, GoodIs
  <2> QED
    BY <1>8, <2>1
<1>13. h = [s EXCEPT !.hero.purse = left, !.shop.till = till]
  BY <1>10, <1>11, <1>12
<1>14. /\ h \in Worlds /\ h.obj = s.obj /\ h.wrong = s.wrong
       /\ h.hero.place = s.hero.place /\ h.hero.ushops = s.hero.ushops
       /\ h.shop.bill = s.shop.bill /\ h.shop.at = s.shop.at
       /\ h.shop.bill_inactive = s.shop.bill_inactive /\ h.shop.surcharge = s.shop.surcharge
       /\ h.shop.angry = s.shop.angry /\ h.shop.debit = 0 /\ h.shop.loan = 0
       /\ h.shop.credit = s.shop.credit /\ h.shop.robbed = s.shop.robbed
       /\ h.hero.purse = left
  BY <1>8, <1>13 DEF Worlds, Shops, Heroes
<1>15. Pays(w, h)
  BY <1>8, <1>14 DEF Pays, Stays
<1>16. Good(h)
  <2>1. h.shop.loan <= h.shop.debit
    BY <1>14
  <2> QED
    BY <1>6, <1>14, <1>15, <2>1, PaysIsGood
<1>17. Wealth(h) = Wealth(g) - g.shop.debit
  <2>1. /\ g.shop.credit \in Nat /\ g.shop.debit \in Nat /\ g.hero.purse \in Nat
        /\ w.shop.credit \in Nat
    BY <1>6, GoodIs
  <2>2. due = g.shop.debit - (g.shop.credit - w.shop.credit) /\ left = g.hero.purse - due
        /\ h.shop.credit = w.shop.credit /\ h.hero.purse = left
    BY <1>2, <1>3, <1>4, <1>8, <1>11, <1>14
  <2> QED
    BY <2>1, <2>2 DEF Wealth
<1>18. Pays(g, h) /\ h.shop.robbed = g.shop.robbed /\ h.shop.debit = 0
  BY <1>2, <1>3, <1>6, <1>8, <1>14, <1>15, PaysTwice
<1> QED
  BY <1>9, <1>16, <1>17, <1>18, PaysSettles

LEMMA PayDebtsIs ==
  ASSUME ShopConstants, NEW g, Good(g), NEW itemize \in BOOLEAN, NEW yes
  PROVE  Settles(g, PayDebts(g, yes, itemize))
<1>1. PICK d : d = IF g.shop.debit > 0 THEN PayDebit(g) ELSE g
  OBVIOUS
<1>2. Settles(g, g)
  BY SettlesItself
<1>3. CASE Wealth(g) < g.shop.debit
  BY <1>2, <1>3 DEF PayDebts
<1>4. CASE ~(Wealth(g) < g.shop.debit)
  <2>1. g.shop.debit <= Wealth(g)
    BY <1>4, GoodIs DEF Wealth
  <2>2. Settles(g, d)
    BY <1>1, <1>2, <2>1, PayDebitIs
  <2>3. Good(d)
    BY <2>2 DEF Settles
  <2>4. Settles(d, PayBill(d, yes, itemize))
    BY <2>3, PayBillIs
  <2>5. PayDebts(g, yes, itemize) \in {d, PayBill(d, yes, itemize)}
    BY <1>1, <1>4 DEF PayDebts
  <2> QED
    BY <2>2, <2>4, <2>5, SettlesTwice
<1> QED
  BY <1>3, <1>4

------------------------------------------------------------------------------
(* What lies in the shop.                                                   *)

\* What lies in the shop is not on the bill, but for a box of the player's that the
\* bill had no room for, and what is in it.
Lain(g) ==
  \A i \in Ids :
    g.obj[i].unpaid
      /\ (g.obj[i].where = "floor" \/ (g.obj[i].where = "box" /\ g.obj[Box].where = "floor"))
      => g.obj[Box].no_charge /\ (g.obj[i].where = "floor" => i = Box)

LEMMA LainSame ==
  ASSUME NEW g, Lain(g), NEW h, h.obj = g.obj
  PROVE  Lain(h)
BY DEF Lain

\* It remains so while nothing comes to lie in the shop.
LEMMA LainEased ==
  ASSUME NEW g, Lain(g), NEW h, Eased(g, h, {})
  PROVE  Lain(h)
<1> SUFFICES ASSUME NEW i \in Ids, h.obj[i].unpaid,
                    \/ h.obj[i].where = "floor"
                    \/ h.obj[i].where = "box" /\ h.obj[Box].where = "floor"
             PROVE  h.obj[Box].no_charge /\ (h.obj[i].where = "floor" => i = Box)
  BY DEF Lain
<1>1. h.obj[i].where = g.obj[i].where /\ g.obj[i].unpaid
  BY DEF Eased, Here
<1>2. Box \in Ids
  BY DEF Ids
<1>3. Here(h.obj[Box]) => /\ h.obj[Box].where = g.obj[Box].where
                          /\ g.obj[Box].no_charge => h.obj[Box].no_charge
  BY <1>2 DEF Eased
<1>4. CASE h.obj[i].where = "floor"
  <2>1. g.obj[Box].no_charge /\ i = Box
    BY <1>1, <1>4 DEF Lain
  <2> QED
    BY <1>3, <1>4, <2>1 DEF Here
<1>5. CASE h.obj[i].where = "box" /\ h.obj[Box].where = "floor"
  <2>1. g.obj[Box].where = "floor"
    BY <1>3, <1>5 DEF Here
  <2>2. g.obj[Box].no_charge
    BY <1>1, <1>5, <2>1 DEF Lain
  <2> QED
    BY <1>3, <1>5, <2>2 DEF Here
<1> QED
  BY <1>4, <1>5

\* Where nothing is unpaid, nothing that is lies anywhere.
LEMMA LainPaid ==
  ASSUME NEW g, Fine(g), ~Resident(g)
  PROVE  Lain(g) /\ \A i \in Ids : ~g.obj[i].unpaid
<1>1. g.shop.bill = <<>> /\ Agree(g.shop.bill, g.obj)
  BY DEF Fine, Good, Owing
<1>2. \A i \in Ids : ~g.obj[i].unpaid
  BY <1>1 DEF Agree
<1> QED
  BY <1>2 DEF Lain

\* Between two commands, nothing is in nobody's hands.
Ends(g) ==
  /\ Fine(g) /\ (g.hero.ushops => g.hero.place # "out") /\ Lain(g)
  /\ \A i \in Ids : g.obj[i].where # "free"

LEMMA SettlesEnds ==
  ASSUME NEW g, Ends(g), Resident(g), NEW h, Settles(g, h)
  PROVE  Ends(h)
<1>1. Fine(h)
  BY ResidentIsFine DEF Ends, Settles
<1>2. \A i \in Ids : h.obj[i].where # "free"
  BY DEF Ends, Settles
<1>3. Lain(h)
  BY LainEased DEF Ends, Settles
<1> QED
  BY <1>1, <1>2, <1>3 DEF Ends, Settles, Stays

LEMMA PaysEnds ==
  ASSUME NEW g, Ends(g), NEW h, Good(h), Pays(g, h), h.shop.debit = g.shop.debit
  PROVE  Ends(h)
<1>1. ~Resident(g) => h.shop.debit = 0
  BY DEF Ends, Fine, Owing
<1>2. Fine(h)
  BY <1>1, PaysIsFine DEF Ends
<1> QED
  BY <1>2, LainSame DEF Ends, Pays, Stays

LEMMA HappyEnds ==
  ASSUME ShopConstants, NEW g, Ends(g)
  PROVE  Ends(make_happy_shk(g))
<1>1. PICK h : h = make_happy_shk(g)
  OBVIOUS
<1>2. /\ Fine(h) /\ h.hero.place = g.hero.place /\ h.obj = g.obj
      /\ h.hero.ushops => g.hero.ushops \/ g.hero.place # "out"
  BY <1>1, MakeHappy DEF Ends
<1> QED
  BY <1>1, <1>2, LainSame DEF Ends

LEMMA MoodyEnds ==
  ASSUME NEW g, Ends(g), NEW h, Good(h), Moody(g, h)
  PROVE  Ends(h)
BY MoodyIsFine, LainSame DEF Ends, Moody

\* Paying leaves the bill in order, whatever is agreed to.
LEMMA DoPayIs ==
  ASSUME ShopConstants, NEW g, Ends(g), NEW itemize \in BOOLEAN, NEW luck \in BOOLEAN, NEW yes
  PROVE  Ends(dopay(g, yes, itemize, luck))
<1>1. PICK h : h = dopay(g, yes, itemize, luck)
  OBVIOUS
<1>2. PICK s : s = Keeper(g)
  OBVIOUS
<1>3. Ends(s) /\ Good(s)
  BY <1>2, KeeperIs, MoodyEnds DEF Ends, Fine
<1>4. PICK p : p = PaidRobbed(s)
  OBVIOUS
<1>5. PICK q : q = pay(s, Ransom)
  OBVIOUS
<1>6. PICK d : d = PayDebts(s, yes, itemize)
  OBVIOUS
<1>7. PICK w : w = Impossible(s, "paying with inactive bill")
  OBVIOUS
<1>8. Resident(s) \/ (s.shop.bill = <<>> /\ s.shop.debit = 0)
  BY <1>3 DEF Ends, Fine, Owing
<1>9. \/ h \in {s, p, make_happy_shk(p), w}
      \/ ~(s.hero.purse < Ransom) /\ h \in {q, make_happy_shk(q)}
      \/ Resident(s) /\ h = d
  <2>1. h = CASE s.shop.bill_inactive -> w
              [] ~s.shop.bill_inactive /\ ~Resident(s) /\ ~s.shop.angry ->
                   IF s.shop.robbed = 0 \/ s.hero.purse = 0 THEN s
                   ELSE IF ~Poor(s) THEN make_happy_shk(p) ELSE p
              [] ~s.shop.bill_inactive /\ (Resident(s) \/ s.shop.angry) /\ Settled(s) ->
                   IF s.shop.robbed > 0
                   THEN IF s.shop.robbed = 0 \/ Poor(s) THEN s
                        ELSE IF ~Poor(s) THEN make_happy_shk(p) ELSE p
                   ELSE IF ~s.shop.angry \/ s.hero.purse < Ransom THEN s
                        ELSE IF luck THEN make_happy_shk(q) ELSE q
              [] ~s.shop.bill_inactive /\ ~Resident(s) /\ s.shop.angry /\ ~Settled(s) ->
                   Impossible(s, "not to shopkeeper")
              [] ~s.shop.bill_inactive /\ Resident(s) /\ ~Settled(s) -> d
    BY <1>1, <1>2, <1>4, <1>5, <1>6, <1>7 DEF dopay, Resident, AtHome
  <2>2. Resident(s) \/ Settled(s)
    BY <1>8 DEF Settled
  <2>3. CASE s.shop.bill_inactive
    BY <2>1, <2>3
  <2>4. CASE ~s.shop.bill_inactive /\ ~Resident(s) /\ ~s.shop.angry
    BY <2>1, <2>4
  <2>5. CASE ~s.shop.bill_inactive /\ (Resident(s) \/ s.shop.angry) /\ Settled(s)
    BY <2>1, <2>5
  <2>6. CASE ~s.shop.bill_inactive /\ Resident(s) /\ ~Settled(s)
    BY <2>1, <2>6
  <2> QED
    BY <2>2, <2>3, <2>4, <2>5, <2>6
<1>10. Ends(p)
  <2>1. PICK n : n = IF s.hero.purse < s.shop.robbed THEN s.hero.purse ELSE s.shop.robbed
    OBVIOUS
  <2>2. /\ s.hero.purse \in Nat /\ s.shop.robbed \in Nat /\ s.shop.credit \in Nat
        /\ s.shop.till \in Nat
    BY <1>3, GoodIs
  <2>3. n \in Int /\ n <= Wealth(s) /\ ~(n < 0)
    BY <2>1, <2>2 DEF Wealth
  <2>4. p = pay(s, n)
    BY <1>4, <2>1 DEF PaidRobbed
  <2>5. Good(p) /\ Pays(s, p) /\ p.shop.debit = s.shop.debit
    BY <1>3, <2>3, <2>4, PayIs
  <2> QED
    BY <1>3, <2>5, PaysEnds
<1>11. ~(s.hero.purse < Ransom) => Ends(q)
  <2>1. Ransom \in Nat /\ s.hero.purse \in Nat /\ s.shop.credit \in Nat
    BY <1>3, GoodIs DEF ShopConstants
  <2>2. Ransom \in Int /\ ~(Ransom < 0)
    BY <2>1
  <2>3. ~(s.hero.purse < Ransom) => Ransom <= Wealth(s)
    BY <2>1 DEF Wealth
  <2>4. ~(s.hero.purse < Ransom) => Good(q) /\ Pays(s, q) /\ q.shop.debit = s.shop.debit
    BY <1>3, <1>5, <2>2, <2>3, PayIs
  <2> QED
    BY <1>3, <2>4, PaysEnds
<1>12. Resident(s) => Ends(d)
  BY <1>3, <1>6, PayDebtsIs, SettlesEnds
<1>13. Ends(w)
  <2>1. /\ w \in Worlds /\ w.shop = s.shop /\ w.hero = s.hero /\ w.obj = s.obj
    BY <1>3, <1>7 DEF Good, Worlds, Impossible
  <2>2. Good(w)
    BY <1>3, <2>1 DEF Good
  <2> QED
    BY <1>3, <2>1, <2>2, LainSame DEF Ends, Fine, Owing, Resident
<1> HIDE <1>9
<1>14. Ends(make_happy_shk(p)) /\ (~(s.hero.purse < Ransom) => Ends(make_happy_shk(q)))
  BY <1>10, <1>11, HappyEnds
<1> QED
  BY <1>1, <1>3, <1>9, <1>10, <1>11, <1>12, <1>13, <1>14

------------------------------------------------------------------------------
(* The player's commands.                                                   *)

\* The inductive invariant.
ShopInv == Ends(Now)

LEMMA BecomesEnds ==
  ASSUME NEW h, Ends(h), shop' = h.shop, obj' = h.obj, hero' = h.hero, wrong' = h.wrong
  PROVE  ShopInv'
<1>1. h = [shop |-> h.shop, obj |-> h.obj, hero |-> h.hero, wrong |-> h.wrong]
  BY DEF Ends, Fine, Good, Worlds
<1>2. Now' = h
  BY <1>1 DEF Now
<1> QED
  BY <1>2 DEF ShopInv

\* The player is elsewhere.
LEMMA PlaceIs ==
  ASSUME NEW g, Fine(g), NEW place \in {"out", "door", "in"}, NEW h, h = [g EXCEPT !.hero.place = place]
  PROVE  /\ Fine(h) /\ h.obj = g.obj /\ h.shop = g.shop
         /\ h.hero.place = place /\ h.hero.ushops = g.hero.ushops
<1>1. /\ h \in Worlds /\ h.obj = g.obj /\ h.shop = g.shop
      /\ h.hero.place = place /\ h.hero.ushops = g.hero.ushops
  BY DEF Fine, Good, Worlds, Heroes
<1>2. Good(h)
  BY <1>1 DEF Fine, Good
<1> QED
  BY <1>1, <1>2 DEF Fine, Owing, Resident

LEMMA SpecialRoomEnds ==
  ASSUME ShopConstants, NEW g, Ends(g), NEW place \in {"door", "in"}, NEW s,
         s = [g EXCEPT !.hero.place = place]
  PROVE  Ends(check_special_room(s))
<1>1. PICK h : h = check_special_room(s)
  OBVIOUS
<1>2. Fine(s) /\ s.obj = g.obj /\ s.hero.place = place
  <2>1. Fine(g) /\ place \in {"out", "door", "in"}
    BY DEF Ends
  <2> QED
    BY <2>1, PlaceIs
<1>3. Fine(h) /\ h.hero.place = s.hero.place /\ h.obj = s.obj
  BY <1>1, <1>2, SpecialRoom
<1>4. Lain(h)
  BY <1>2, <1>3, LainSame DEF Ends
<1> QED
  BY <1>1, <1>2, <1>3, <1>4 DEF Ends

LEMMA EnterEnds ==
  ASSUME ShopConstants, ShopInv, Enter
  PROVE  ShopInv'
<1>1. PICK g : g = Now
  OBVIOUS
<1>2. PICK s : s = [g EXCEPT !.hero.place = "door"]
  OBVIOUS
<1>3. PICK h : h = check_special_room(s)
  OBVIOUS
<1>4. Ends(h)
  BY <1>1, <1>2, <1>3, SpecialRoomEnds DEF ShopInv
<1>5. shop' = h.shop /\ obj' = h.obj /\ hero' = h.hero /\ wrong' = h.wrong
  BY <1>1, <1>2, <1>3 DEF Enter, Becomes
<1> QED
  BY <1>4, <1>5, BecomesEnds

LEMMA StepEnds ==
  ASSUME ShopConstants, ShopInv, Step
  PROVE  ShopInv'
<1>1. PICK g : g = Now
  OBVIOUS
<1>2. PICK place \in {"door", "in"} : place = IF g.hero.place = "in" THEN "door" ELSE "in"
  OBVIOUS
<1>3. PICK s : s = [g EXCEPT !.hero.place = place]
  OBVIOUS
<1>4. PICK h : h = check_special_room(s)
  OBVIOUS
<1>5. Ends(h)
  BY <1>1, <1>3, <1>4, SpecialRoomEnds DEF ShopInv
<1>6. s = [Now EXCEPT !.hero.place = IF @ = "in" THEN "door" ELSE "in"]
  BY <1>1, <1>2, <1>3
<1>7. shop' = h.shop /\ obj' = h.obj /\ hero' = h.hero /\ wrong' = h.wrong
  BY <1>4, <1>6 DEF Step, Becomes
<1> QED
  BY <1>5, <1>7, BecomesEnds

\* Nothing is on the bill of a shop that was left.
LEMMA LeaveEnds ==
  ASSUME ShopConstants, ShopInv, Leave
  PROVE  ShopInv'
<1>1. PICK g : g = Now
  OBVIOUS
<1>2. PICK w : w = IF g.hero.ushops THEN u_left_shop(g) ELSE g
  OBVIOUS
<1>3. PICK h : h = [w EXCEPT !.hero.place = "out", !.hero.ushops = FALSE]
  OBVIOUS
<1>4. Ends(g) /\ Good(g) /\ Owing(g)
  BY <1>1 DEF ShopInv, Ends, Fine
<1>5. /\ Good(w) /\ Keeps(g, w) /\ w.shop.bill = <<>> /\ w.shop.debit = 0
  <2>1. CASE g.hero.ushops
    <3>1. g.shop.bill_inactive => g.shop.at # "home"
      BY <1>4 DEF Owing
    <3>2. /\ Good(w) /\ Keeps(g, w)
          /\ g.shop.at = "home" => w.shop.bill = <<>> /\ w.shop.debit = 0
          /\ g.shop.bill = <<>> => w.shop.bill = <<>>
          /\ g.shop.debit = 0 => w.shop.debit = 0
      <4>1. NoneFloats(g)
        BY <1>4 DEF Ends, NoneFloats
      <4> QED
        BY <1>2, <1>4, <2>1, <3>1, <4>1, LeftShop
    <3> QED
      BY <1>4, <3>2 DEF Owing, Resident
  <2>2. CASE ~g.hero.ushops
    <3>1. w = g
      BY <1>2, <2>2
    <3>2. Stays(g, w)
      BY <3>1 DEF Stays
    <3> QED
      BY <1>4, <2>2, <3>1, <3>2, KeepsSame DEF Owing, Resident
  <2> QED
    BY <2>1, <2>2
<1>6. /\ h \in Worlds /\ h.shop = w.shop /\ h.obj = w.obj /\ ~h.hero.ushops
  BY <1>3, <1>5 DEF Good, Worlds, Heroes
<1>7. Good(h)
  BY <1>5, <1>6 DEF Good
<1>8. \A i \in Ids : h.obj[i].where # "free"
  BY <1>4, <1>5, <1>6 DEF Ends, Keeps, Like, Here
<1>9. Ends(h)
  <2>1. Fine(h) /\ ~Resident(h)
    BY <1>4, <1>5, <1>6, <1>7 DEF Fine, Owing, Resident, Keeps, Stays
  <2> QED
    BY <1>6, <1>8, <2>1, LainPaid DEF Ends
<1>10. shop' = h.shop /\ obj' = h.obj /\ hero' = h.hero /\ wrong' = h.wrong
  <2>1. w = IF hero.ushops THEN u_left_shop(Now) ELSE Now
    BY <1>1, <1>2 DEF Now
  <2> QED
    BY <1>3, <2>1 DEF Leave, Becomes
<1> QED
  BY <1>9, <1>10, BecomesEnds

\* What can be found, apart from b, and from what is in it, is unpaid only if it was.
Others(g, h, b) ==
  \A i \in Ids : i # b /\ Here(h.obj[i]) =>
    /\ h.obj[i].where = g.obj[i].where
    /\ b # Box \/ h.obj[i].where # "box" =>
         /\ h.obj[i].unpaid => g.obj[i].unpaid
         /\ g.obj[i].no_charge => h.obj[i].no_charge

LEMMA OthersTwice ==
  ASSUME NEW f, NEW g, NEW h, NEW b, Others(f, g, b), Others(g, h, b)
  PROVE  Others(f, h, b)
<1> SUFFICES ASSUME NEW i \in Ids, i # b, Here(h.obj[i])
             PROVE  /\ h.obj[i].where = f.obj[i].where
                    /\ b # Box \/ h.obj[i].where # "box" =>
                         /\ h.obj[i].unpaid => f.obj[i].unpaid
                         /\ f.obj[i].no_charge => h.obj[i].no_charge
  BY DEF Others
<1>1. /\ h.obj[i].where = g.obj[i].where
      /\ b # Box \/ h.obj[i].where # "box" =>
           /\ h.obj[i].unpaid => g.obj[i].unpaid
           /\ g.obj[i].no_charge => h.obj[i].no_charge
  BY DEF Others
<1>2. /\ g.obj[i].where = f.obj[i].where
      /\ b # Box \/ g.obj[i].where # "box" =>
           /\ g.obj[i].unpaid => f.obj[i].unpaid
           /\ f.obj[i].no_charge => g.obj[i].no_charge
  BY <1>1 DEF Others, Here
<1> QED
  BY <1>1, <1>2

LEMMA OthersEased ==
  ASSUME NEW g, NEW h, NEW b, NEW S, S \subseteq {b}, Eased(g, h, S)
  PROVE  Others(g, h, b)
BY DEF Eased, Others

LEMMA OthersReached ==
  ASSUME NEW g, NEW h, NEW b, Mild(g, h), Eased(g, h, Reach(g, b))
  PROVE  Others(g, h, b)
BY DEF Mild, Eased, Reach, Contents, Others

\* Only b is in somebody's hands.
Held(g, h, b) ==
  /\ Fine(h) /\ Stays(g, h) /\ Here(h.obj[b]) /\ Others(g, h, b)
  /\ \A i \in Ids : i # b => h.obj[i].where # "free"

\* What may come to lie in the shop: what is not on the bill.
MayLie(h, b, where) ==
  /\ where = "floor" => Given(h, b)
  /\ where = "box" => b # Box /\ (h.obj[Box].where = "floor" => ~h.obj[b].unpaid)

LEMMA LainAt ==
  ASSUME NEW g, Lain(g), NEW b \in Ids, NEW h, Others(g, h, b), NEW where, MayLie(h, b, where),
         NEW k, Laid(h, k, b, where)
  PROVE  Lain(k)
<1> SUFFICES ASSUME NEW i \in Ids, k.obj[i].unpaid,
                    \/ k.obj[i].where = "floor"
                    \/ k.obj[i].where = "box" /\ k.obj[Box].where = "floor"
             PROVE  k.obj[Box].no_charge /\ (k.obj[i].where = "floor" => i = Box)
  BY DEF Lain
<1>1. Box \in Ids
  BY DEF Ids
<1>2. /\ h.obj[i].unpaid
      /\ k.obj[i].where = IF i = b THEN where ELSE h.obj[i].where
  BY DEF Laid, Here
<1>3. k.obj[Box].where = "floor" =>
        /\ k.obj[Box].no_charge = h.obj[Box].no_charge
        /\ IF Box = b THEN where = "floor" ELSE h.obj[Box].where = "floor"
  BY <1>1 DEF Laid, Here
<1>4. h.obj[Box].where = "floor" /\ b # Box =>
        g.obj[Box].where = "floor" /\ (g.obj[Box].no_charge => h.obj[Box].no_charge)
  BY <1>1 DEF Others, Here
<1>5. i # b => /\ h.obj[i].where = g.obj[i].where
               /\ b # Box \/ h.obj[i].where # "box" => g.obj[i].unpaid
  BY <1>2 DEF Others, Here
<1>6. CASE k.obj[i].where = "floor"
  <2>1. CASE i = b
    <3>1. i = Box /\ h.obj[Box].no_charge
      BY <1>2, <1>6, <2>1 DEF MayLie, Given
    <3> QED
      BY <1>3, <1>6, <3>1
  <2>2. CASE i # b
    <3>1. g.obj[i].unpaid /\ g.obj[i].where = "floor"
      BY <1>2, <1>5, <1>6, <2>2
    <3>2. i = Box /\ g.obj[Box].no_charge
      BY <3>1 DEF Lain
    <3> QED
      BY <1>2, <1>3, <1>4, <1>6, <2>2, <3>2
  <2> QED
    BY <2>1, <2>2
<1>7. CASE k.obj[i].where = "box" /\ k.obj[Box].where = "floor"
  <2>1. CASE b = Box
    <3>1. i # b /\ h.obj[i].where = "box" /\ where = "floor"
      BY <1>2, <1>3, <1>7, <2>1
    <3> QED
      BY <1>2, <1>3, <1>7, <2>1, <3>1 DEF MayLie, Given
  <2>2. CASE b # Box
    <3>1. h.obj[Box].where = "floor" /\ g.obj[Box].where = "floor"
      BY <1>3, <1>4, <1>7, <2>2
    <3>2. i # b
      BY <1>2, <1>7, <3>1 DEF MayLie
    <3>3. g.obj[i].unpaid /\ g.obj[i].where = "box"
      BY <1>2, <1>5, <1>7, <2>2, <3>2
    <3>4. g.obj[Box].no_charge
      BY <3>1, <3>3 DEF Lain
    <3> QED
      BY <1>3, <1>4, <1>7, <2>2, <3>1, <3>4
  <2> QED
    BY <2>1, <2>2
<1> QED
  BY <1>6, <1>7

LEMMA HeldPut ==
  ASSUME ShopConstants, NEW g, Ends(g), NEW b \in Ids, NEW h, Held(g, h, b),
         NEW where \in {"floor", "outside", "invent", "box"}, MayLie(h, b, where),
         NEW k \in Put(h, b, where)
  PROVE  Ends(k)
<1>1. Fine(h) /\ Here(h.obj[b]) /\ \A i \in Ids : i # b => h.obj[i].where # "free"
  BY DEF Held
<1>2. /\ Fine(k) /\ Stays(h, k) /\ Laid(h, k, b, where)
      /\ \A i \in Ids : k.obj[i].where # "free"
  BY <1>1, PutIs
<1>3. Lain(k)
  BY <1>2, LainAt DEF Ends, Held
<1> QED
  BY <1>2, <1>3 DEF Ends, Held, Stays

\* A handler that leaves everything where it is.
LEMMA HeldStays ==
  ASSUME NEW g, NEW b, NEW h, Held(g, h, b), NEW k, Fine(k), Stays(h, k), Like(h, k), b \in Ids,
         Others(h, k, b)
  PROVE  Held(g, k, b)
<1>1. Here(k.obj[b]) /\ \A i \in Ids : i # b => k.obj[i].where # "free"
  BY DEF Held, Like, Here
<1>2. Others(g, k, b)
  BY OthersTwice DEF Held
<1> QED
  BY <1>1, <1>2 DEF Held, Stays

LEMMA HeldSells ==
  ASSUME NEW g, NEW b \in Ids, NEW h, Held(g, h, b), NEW k, Sells(h, k, b)
  PROVE  Held(g, k, b)
BY HeldStays, OthersEased DEF Sells

\* Part of a stack is taken in hand, or comes to another place.
LEMMA HeldApart ==
  ASSUME ShopConstants, NEW g, Ends(g), NEW o \in Ids, Here(g.obj[o]),
         NEW n \in 1..g.obj[o].quan, Room(g, (IF g.obj[o].quan > 1 THEN 1 ELSE 0) + 1),
         NEW b, b = Part(g, o, n), NEW where \in {"free", "floor", "outside", "invent", "box"},
         NEW h, h = [Apart(g, o, n) EXCEPT !.obj[b].where = where]
  PROVE  /\ b \in Ids /\ (b = Box => o = Box)
         /\ Held(g, h, b) /\ Room(h, 1) /\ h.obj[b].where = where
<1>1. PICK a : a = Apart(g, o, n)
  OBVIOUS
<1>2. Fine(g) /\ n \in Nat \ {0} /\ n <= g.obj[o].quan
  BY GoodIs DEF Ends, Fine
<1>3. /\ b \in Ids /\ (b = Box => o = Box)
      /\ Fine(a) /\ Stays(g, a) /\ Room(a, 1)
      /\ a.obj[b].where = g.obj[o].where
      /\ \A i \in Ids : i # b => a.obj[i].where = g.obj[i].where
      /\ Eased(g, a, {b})
  <2>1. PICK r \in Nat : r = 1
    OBVIOUS
  <2>2. Room(g, (IF g.obj[o].quan > 1 THEN 1 ELSE 0) + r)
    BY <2>1
  <2>3. LET c == Part(g, o, n)
            p == Apart(g, o, n)
        IN /\ c \in Ids /\ (c = Box => o = Box)
           /\ Fine(p) /\ Stays(g, p) /\ Room(p, r)
           /\ p.obj[c].where = g.obj[o].where
           /\ \A i \in Ids : i # c => p.obj[i].where = g.obj[i].where
           /\ Eased(g, p, {c})
    BY <1>2, <2>2, ApartIs
  <2> QED
    BY <1>1, <2>1, <2>3
<1>4. Good(a) /\ Here(a.obj[b])
  BY <1>3 DEF Fine, Here
<1>5. /\ Good(h) /\ Moved(a, h, b, where)
      /\ Unused(h) = Unused(a) /\ Partial(h) = Partial(a)
  <2>1. PICK k : k = [a EXCEPT !.obj[b].where = where]
    OBVIOUS
  <2>2. /\ Good(k) /\ Moved(a, k, b, where)
        /\ Unused(k) = Unused(a) /\ Partial(k) = Partial(a)
    BY <1>3, <1>4, <2>1, MovedIs
  <2>3. h = k
    BY <1>1, <2>1
  <2> QED
    BY <2>2, <2>3
<1>6. Fine(h)
  BY <1>3, <1>5, MovedIsFine
<1>7. Room(h, 1)
  BY <1>3, <1>5 DEF Room
<1>8. Stays(g, h)
  BY <1>3, <1>5 DEF Moved, Stays
<1>9. h.obj[b].where = where /\ \A i \in Ids : i # b => h.obj[i].where = g.obj[i].where
  BY <1>3, <1>5 DEF Moved
<1>10. Here(h.obj[b]) /\ \A i \in Ids : i # b => h.obj[i].where # "free"
  BY <1>9 DEF Here, Ends
<1>11. Others(g, h, b)
  <2>1. \A i \in Ids : i # b => /\ h.obj[i].where = a.obj[i].where
                                /\ h.obj[i].unpaid = a.obj[i].unpaid
                                /\ h.obj[i].no_charge = a.obj[i].no_charge
    BY <1>5 DEF Moved
  <2>2. Others(a, h, b)
    BY <2>1 DEF Others
  <2>3. Others(g, a, b)
    BY <1>3, OthersEased
  <2> QED
    BY <2>2, <2>3, OthersTwice
<1> QED
  BY <1>3, <1>6, <1>7, <1>8, <1>9, <1>10, <1>11 DEF Held

\* The bound on the numbers is that there is room.
LEMMA NumbersAre ==
  ASSUME ShopConstants, NEW o \in Ids, Numbers(o), NEW g, g = Now, g.obj[o].quan \in Nat
  PROVE  Room(g, (IF g.obj[o].quan > 1 THEN 1 ELSE 0) + 1)
<1>1. g.obj[o].quan = obj[o].quan
  BY DEF Now
<1> QED
  BY <1>1 DEF Numbers, Room

LEMMA DropEnds ==
  ASSUME ShopConstants, ShopInv, NEW o \in Ids, NEW yes \in BOOLEAN,
         NEW n \in 1..obj[o].quan, Drop(o, n, yes)
  PROVE  ShopInv'
<1>1. PICK g : g = Now
  OBVIOUS
<1>2. /\ g.obj = obj /\ g.hero = hero /\ g.shop = shop
  BY <1>1 DEF Now
<1>3. Ends(g) /\ Fine(g) /\ Good(g)
  BY <1>1 DEF ShopInv, Ends, Fine
<1>4. PICK b : b = Part(g, o, n)
  OBVIOUS
<1>5. PICK where \in {"floor", "outside"} : where = IF g.hero.place = "in" THEN "floor" ELSE "outside"
  OBVIOUS
<1>6. PICK s : s = [Apart(g, o, n) EXCEPT !.obj[b].where = where]
  OBVIOUS
<1>7. /\ b \in Ids /\ Held(g, s, b) /\ Room(s, 1)
  <2>1. Here(g.obj[o])
    BY <1>2 DEF Drop, Carried, Here
  <2>2. Room(g, (IF g.obj[o].quan > 1 THEN 1 ELSE 0) + 1)
    BY <1>1, <1>3, GoodIs, NumbersAre DEF Drop
  <2>3. n \in 1..g.obj[o].quan /\ where \in {"free", "floor", "outside", "invent", "box"}
    BY <1>2
  <2> QED
    BY <1>3, <1>4, <1>6, <2>1, <2>2, <2>3, HeldApart
<1>8. PICK t : t = IF OnCostly /\ hero.ushops THEN sellobj(s, b, yes) ELSE s
  OBVIOUS
<1>9. Held(g, t, b) /\ MayLie(t, b, where)
  <2>1. CASE OnCostly /\ hero.ushops
    <3>1. t = sellobj(s, b, yes)
      BY <1>8, <2>1
    <3>2. Resident(g)
      BY <1>1, <1>2, <2>1 DEF OnCostly, Resident, AtHome
    <3>3. Fine(s) /\ Resident(s) /\ Here(s.obj[b])
      BY <1>7, <3>2 DEF Held, Stays, Resident
    <3>4. Room(s, 0)
      BY <1>7, RoomIs DEF Room
    <3>5. Sells(s, t, b)
      BY <1>7, <3>1, <3>3, <3>4, SellObj
    <3>6. MayLie(t, b, where)
      BY <3>5 DEF Sells, MayLie
    <3> QED
      BY <1>7, <3>5, <3>6, HeldSells
  <2>2. CASE ~(OnCostly /\ hero.ushops)
    <3>1. t = s
      BY <1>8, <2>2
    <3>2. where = "floor" => ~Resident(s)
      BY <1>2, <1>5, <1>7, <2>2, <1>1 DEF OnCostly, AtHome, Resident, Held, Stays
    <3>3. ~Resident(s) => \A i \in Ids : ~s.obj[i].unpaid
      BY <1>7, LainPaid DEF Held
    <3>4. MayLie(s, b, where)
      BY <1>7, <3>2, <3>3 DEF MayLie, Given
    <3> QED
      BY <1>7, <3>1, <3>4
  <2> QED
    BY <2>1, <2>2
<1>10. PICK h \in Put(t, b, where) :
         shop' = h.shop /\ obj' = h.obj /\ hero' = h.hero /\ wrong' = h.wrong
  <2>1. b = Part(Now, o, n) /\ s = [Apart(Now, o, n) EXCEPT !.obj[b].where = where]
    BY <1>1, <1>4, <1>6
  <2>2. where = IF hero.place = "in" THEN "floor" ELSE "outside"
    BY <1>2, <1>5
  <2> QED
    BY <1>8, <2>1, <2>2 DEF Drop, Becomes
<1>11. Ends(h)
  BY <1>3, <1>5, <1>7, <1>9, HeldPut
<1> QED
  BY <1>10, <1>11, BecomesEnds

\* A player who is in a shop may owe something for it; another one may not.
LEMMA UnpaidIsResident ==
  ASSUME NEW g, Fine(g), NEW o \in Ids, g.obj[o].unpaid
  PROVE  Resident(g) /\ ~g.shop.bill_inactive
<1>1. \E k \in 1..Len(g.shop.bill) : g.shop.bill[k].id = o
  BY DEF Fine, Good, Agree
<1>2. g.shop.bill # <<>>
  BY <1>1
<1> QED
  BY <1>2 DEF Fine, Owing, Resident

LEMMA ThrowOutEnds ==
  ASSUME ShopConstants, ShopInv, NEW o \in Ids, NEW price \in Prices, ThrowOut(o, price)
  PROVE  ShopInv'
<1>1. PICK g : g = Now
  OBVIOUS
<1>2. /\ g.obj = obj /\ g.hero = hero /\ g.shop = shop
  BY <1>1 DEF Now
<1>3. Ends(g) /\ Fine(g) /\ Good(g)
  BY <1>1 DEF ShopInv, Ends, Fine
<1>4. PICK b : b = Part(g, o, 1)
  OBVIOUS
<1>5. PICK s : s = [Apart(g, o, 1) EXCEPT !.obj[b].where = "free"]
  OBVIOUS
<1>6. /\ b \in Ids /\ Held(g, s, b) /\ Room(s, 1)
  <2>1. Here(g.obj[o])
    BY <1>2 DEF ThrowOut, Carried, Here
  <2>2. Room(g, (IF g.obj[o].quan > 1 THEN 1 ELSE 0) + 1)
    BY <1>1, <1>3, GoodIs, NumbersAre DEF ThrowOut
  <2>3. PICK n \in 1..g.obj[o].quan : n = 1
    BY <1>3, <2>1, GoodIs DEF Good
  <2>4. PICK where \in {"free", "floor", "outside", "invent", "box"} : where = "free"
    OBVIOUS
  <2>5. b = Part(g, o, n) /\ s = [Apart(g, o, n) EXCEPT !.obj[b].where = where]
    BY <1>4, <1>5, <2>3, <2>4
  <2> HIDE <1>4, <1>5, <2>3, <2>4
  <2> QED
    BY <1>3, <2>1, <2>2, <2>5, HeldApart
<1>7. PICK v : v = stolen_value(s, b, price)
  OBVIOUS
<1>8. PICK t : t = IF hero.ushops /\ s.obj[b].unpaid THEN subfrombill(v, b) ELSE s
  OBVIOUS
<1>9. Held(g, t, b)
  <2>1. CASE hero.ushops /\ s.obj[b].unpaid
    <3>1. Fine(s) /\ Good(s) /\ Here(s.obj[b])
      BY <1>6 DEF Held, Fine
    <3>2. Resident(s) /\ ~s.shop.bill_inactive
      BY <1>6, <2>1, <3>1, UnpaidIsResident
    <3>3. Good(v) /\ Mild(s, v) /\ Eased(s, v, Reach(s, b))
      BY <1>6, <1>7, <3>1, StolenValueIs
    <3>4. Unused(v) = Unused(s) /\ Partial(v) = Partial(s)
      BY <3>1, <3>3, MildRoom
    <3>5. Room(v, 1)
      BY <1>6, <3>4 DEF Room
    <3>6. Stays(s, v) /\ Like(s, v)
      BY <3>3, MildIsLike
    <3>7. ~v.shop.bill_inactive /\ Here(v.obj[b])
      BY <1>6, <3>1, <3>2, <3>6 DEF Stays, Like, Here
    <3>8. Returned(v, t, 1)
      BY <1>6, <1>8, <2>1, <3>3, <3>5, <3>7, SubAll
    <3>9. Good(t) /\ Stays(v, t) /\ Like(v, t) /\ Keeps(v, t)
      BY <3>8 DEF Returned, Keeps
    <3>10. Stays(s, t) /\ Like(s, t)
      BY <3>6, <3>9, LikeTwice
    <3>11. Fine(t)
      BY <3>1, <3>2, <3>9, <3>10, ResidentIsFine
    <3>12. Others(s, t, b)
      <4>1. Others(s, v, b)
        BY <3>3, OthersReached
      <4>2. Others(v, t, b)
        <5>1. PICK S : S = {}
          OBVIOUS
        <5>2. Eased(v, t, S)
          BY <3>9, KeepsEases
        <5> QED
          BY <5>1, <5>2, OthersEased
      <4> QED
        BY <4>1, <4>2, OthersTwice
    <3> QED
      BY <1>6, <3>10, <3>11, <3>12, HeldStays
  <2>2. CASE ~(hero.ushops /\ s.obj[b].unpaid)
    BY <1>6, <1>8, <2>2
  <2> QED
    BY <2>1, <2>2
<1>10. PICK h \in Put(t, b, "outside") :
         shop' = h.shop /\ obj' = h.obj /\ hero' = h.hero /\ wrong' = h.wrong
  <2>1. b = Part(Now, o, 1) /\ s = [Apart(Now, o, 1) EXCEPT !.obj[b].where = "free"]
    BY <1>1, <1>4, <1>5
  <2> QED
    BY <1>7, <1>8, <2>1 DEF ThrowOut, Becomes
<1>11. Ends(h)
  <2>1. PICK where \in {"floor", "outside", "invent", "box"} : where = "outside"
    OBVIOUS
  <2>2. h \in Put(t, b, where) /\ MayLie(t, b, where)
    BY <2>1 DEF MayLie
  <2> QED
    BY <1>3, <1>6, <1>9, <2>2, HeldPut
<1> QED
  BY <1>10, <1>11, BecomesEnds

LEMMA PutInEnds ==
  ASSUME ShopConstants, ShopInv, NEW o \in Ids, NEW yes \in BOOLEAN,
         NEW n \in 1..obj[o].quan, PutIn(o, n, yes)
  PROVE  ShopInv'
<1>1. PICK g : g = Now
  OBVIOUS
<1>2. /\ g.obj = obj /\ g.hero = hero /\ g.shop = shop
  BY <1>1 DEF Now
<1>3. Ends(g) /\ Fine(g) /\ Good(g)
  BY <1>1 DEF ShopInv, Ends, Fine
<1>4. PICK b : b = Part(g, o, n)
  OBVIOUS
<1>5. PICK s : s = [Apart(g, o, n) EXCEPT !.obj[b].where = "free"]
  OBVIOUS
<1>6. /\ b \in Ids /\ b # Box /\ Held(g, s, b) /\ Room(s, 1)
  <2>1. Here(g.obj[o]) /\ o # Box
    BY <1>2 DEF PutIn, Carried, Here
  <2>2. Room(g, (IF g.obj[o].quan > 1 THEN 1 ELSE 0) + 1)
    BY <1>1, <1>3, GoodIs, NumbersAre DEF PutIn
  <2>3. PICK where \in {"free", "floor", "outside", "invent", "box"} : where = "free"
    OBVIOUS
  <2>4. n \in 1..g.obj[o].quan /\ s = [Apart(g, o, n) EXCEPT !.obj[b].where = where]
    BY <1>2, <1>5, <2>3
  <2> HIDE <1>5, <2>3
  <2> QED
    BY <1>3, <1>4, <2>1, <2>2, <2>4, HeldApart
<1>7. PICK t : t = CASE ~OnCostly \/ Carried(Box) -> s
                     [] OnCostly /\ ~Carried(Box) /\ obj[Box].no_charge /\ ~s.obj[b].unpaid ->
                          NoCharge(s, b)
                     [] OTHER -> IF hero.ushops THEN sellobj(s, b, yes) ELSE s
  OBVIOUS
<1>8. Fine(s) /\ Good(s) /\ Here(s.obj[b])
  BY <1>6 DEF Held, Fine
<1>9. \/ t = s /\ (~OnCostly \/ Carried(Box) \/ ~hero.ushops)
      \/ t = NoCharge(s, b) /\ ~s.obj[b].unpaid
      \/ t = sellobj(s, b, yes) /\ OnCostly /\ hero.ushops
  BY <1>7
<1>10. ~s.obj[b].unpaid => Sells(s, NoCharge(s, b), b)
  <2> SUFFICES ASSUME ~s.obj[b].unpaid PROVE Sells(s, NoCharge(s, b), b)
    OBVIOUS
  <2>1. Marks(s, NoCharge(s, b))
    BY <1>6, <1>8, NoChargeMarks
  <2>2. Given(NoCharge(s, b), b)
    BY <1>6, <2>1 DEF Marks, Given
  <2> QED
    BY <1>8, <2>1, <2>2, MarksSells
<1>11. t = sellobj(s, b, yes) /\ OnCostly /\ hero.ushops => Sells(s, t, b)
  <2> SUFFICES ASSUME t = sellobj(s, b, yes), OnCostly, hero.ushops PROVE Sells(s, t, b)
    OBVIOUS
  <2>1. Resident(g)
    BY <1>1, <1>2 DEF OnCostly, Resident, AtHome
  <2>2. Resident(s)
    BY <1>6, <2>1 DEF Held, Stays, Resident
  <2>3. Room(s, 0)
    BY <1>6, RoomIs DEF Room
  <2> QED
    BY <1>6, <1>8, <2>2, <2>3, SellObj
<1>12. Held(g, t, b) /\ (t.obj[Box].where = "floor" => ~t.obj[b].unpaid)
  <2>1. CASE t = s /\ (~OnCostly \/ Carried(Box) \/ ~hero.ushops)
    <3>1. s.obj[Box].where = "floor" => ~Resident(s)
      <4>1. Box \in Ids
        BY DEF Ids
      <4>2. s.obj[Box].where = "floor" => g.obj[Box].where = "floor"
        BY <1>6, <4>1 DEF Held, Others, Here
      <4>3. g.obj[Box].where = "floor" => ~Carried(Box) /\ hero.place = "in"
        BY <1>2 DEF PutIn, Reached, Carried
      <4> QED
        BY <1>1, <1>2, <1>6, <2>1, <4>2, <4>3 DEF OnCostly, AtHome, Resident, Held, Stays
    <3>2. ~Resident(s) => \A i \in Ids : ~s.obj[i].unpaid
      BY <1>8, LainPaid
    <3> QED
      BY <1>6, <2>1, <3>1, <3>2
  <2>2. CASE Sells(s, t, b)
    <3>1. ~t.obj[b].unpaid
      BY <1>6, <2>2 DEF Sells, Given
    <3> QED
      BY <1>6, <2>2, <3>1, HeldSells
  <2> QED
    BY <1>9, <1>10, <1>11, <2>1, <2>2
<1>13. PICK h \in Put(t, b, "box") :
         shop' = h.shop /\ obj' = h.obj /\ hero' = h.hero /\ wrong' = h.wrong
  <2>1. b = Part(Now, o, n) /\ s = [Apart(Now, o, n) EXCEPT !.obj[b].where = "free"]
    BY <1>1, <1>4, <1>5
  <2> QED
    BY <1>7, <2>1 DEF PutIn, Becomes
<1>14. Ends(h)
  <2>1. PICK where \in {"floor", "outside", "invent", "box"} : where = "box"
    OBVIOUS
  <2>2. h \in Put(t, b, where) /\ MayLie(t, b, where)
    BY <1>6, <1>12, <2>1 DEF MayLie
  <2> QED
    BY <1>3, <1>6, <1>12, <2>2, HeldPut
<1> QED
  BY <1>13, <1>14, BecomesEnds

LEMMA OthersAdded ==
  ASSUME NEW g, NEW h, NEW b, NEW dummy, ~dummy, Adds(g, h, Reach(g, b), dummy)
  PROVE  Others(g, h, b)
BY DEF Adds, Reach, Contents, Others

LEMMA AddsHeld ==
  ASSUME ShopConstants, NEW g, NEW b \in Ids, NEW s, Held(g, s, b), NEW price \in Prices,
         NEW dummy \in BOOLEAN, ~dummy
  PROVE  Held(g, addtobill(s, b, dummy, price), b)
<1>1. PICK t : t = addtobill(s, b, dummy, price)
  OBVIOUS
<1>2. Fine(s) /\ Here(s.obj[b])
  BY DEF Held
<1>3. Fine(t) /\ Adds(s, t, Reach(s, b), dummy)
  BY <1>1, <1>2, AddAll
<1>4. Stays(s, t) /\ \A i \in Ids : t.obj[i].where = s.obj[i].where
  BY <1>3 DEF Adds
<1>5. Here(t.obj[b]) /\ \A i \in Ids : i # b => t.obj[i].where # "free"
  BY <1>4 DEF Held, Here
<1>6. Others(g, t, b)
  BY <1>3, OthersAdded, OthersTwice DEF Held
<1> QED
  BY <1>1, <1>3, <1>4, <1>5, <1>6 DEF Held, Stays

LEMMA TakeOutEnds ==
  ASSUME ShopConstants, ShopInv, NEW o \in Ids, NEW price \in Prices,
         NEW n \in 1..obj[o].quan, TakeOut(o, n, price)
  PROVE  ShopInv'
<1>1. PICK g : g = Now
  OBVIOUS
<1>2. /\ g.obj = obj /\ g.hero = hero /\ g.shop = shop
  BY <1>1 DEF Now
<1>3. Ends(g) /\ Fine(g) /\ Good(g)
  BY <1>1 DEF ShopInv, Ends, Fine
<1>4. PICK b : b = Part(g, o, n)
  OBVIOUS
<1>5. PICK s : s = [Apart(g, o, n) EXCEPT !.obj[b].where = "free"]
  OBVIOUS
<1>6. /\ b \in Ids /\ Held(g, s, b)
  <2>1. Here(g.obj[o])
    BY <1>2 DEF TakeOut, Here
  <2>2. Room(g, (IF g.obj[o].quan > 1 THEN 1 ELSE 0) + 1)
    BY <1>1, <1>3, GoodIs, NumbersAre DEF TakeOut
  <2>3. PICK where \in {"free", "floor", "outside", "invent", "box"} : where = "free"
    OBVIOUS
  <2>4. n \in 1..g.obj[o].quan /\ s = [Apart(g, o, n) EXCEPT !.obj[b].where = where]
    BY <1>2, <1>5, <2>3
  <2> HIDE <1>5, <2>3
  <2> QED
    BY <1>3, <1>4, <2>1, <2>2, <2>4, HeldApart
<1>7. PICK t : t = IF ~s.obj[b].unpaid /\ ~Carried(Box) /\ OnCostly
                   THEN addtobill(s, b, FALSE, price) ELSE s
  OBVIOUS
<1>8. Held(g, t, b)
  <2>1. PICK dummy \in BOOLEAN : dummy = FALSE
    OBVIOUS
  <2>2. t \in {s, addtobill(s, b, dummy, price)}
    BY <1>7, <2>1
  <2>3. Held(g, addtobill(s, b, dummy, price), b)
    BY <1>6, <2>1, AddsHeld
  <2> QED
    BY <1>6, <2>2, <2>3
<1>9. PICK h \in Put(t, b, "invent") :
         shop' = h.shop /\ obj' = h.obj /\ hero' = h.hero /\ wrong' = h.wrong
  <2>1. b = Part(Now, o, n) /\ s = [Apart(Now, o, n) EXCEPT !.obj[b].where = "free"]
    BY <1>1, <1>4, <1>5
  <2> QED
    BY <1>7, <2>1 DEF TakeOut, Becomes
<1>10. Ends(h)
  <2>1. PICK where \in {"floor", "outside", "invent", "box"} : where = "invent"
    OBVIOUS
  <2>2. h \in Put(t, b, where) /\ MayLie(t, b, where)
    BY <2>1 DEF MayLie
  <2> QED
    BY <1>3, <1>6, <1>8, <2>2, HeldPut
<1> QED
  BY <1>9, <1>10, BecomesEnds

\* What lies in the shop is put on the bill of a player who is there.
LEMMA FetchedIs ==
  ASSUME ShopConstants, NEW g, NEW b \in Ids, NEW s, Held(g, s, b), s.shop.at = "home",
         s.hero.ushops, NEW price \in Prices
  PROVE  Held(g, Fetched(s, b, price), b)
<1>1. PICK x : x = [s EXCEPT !.hero.ushops = TRUE]
  OBVIOUS
<1>2. PICK dummy \in BOOLEAN : dummy = FALSE
  OBVIOUS
<1>3. PICK y : y = addtobill(x, b, dummy, price)
  OBVIOUS
<1>4. Fine(s) /\ Good(s) /\ s.hero.ushops \in BOOLEAN
  BY GoodIs DEF Held, Fine
<1>5. PICK there \in BOOLEAN : there = s.hero.ushops
  BY <1>4
<1>6. PICK z : z = [y EXCEPT !.hero.ushops = there]
  OBVIOUS
<1>7. PICK t : t = Fetched(s, b, price)
  OBVIOUS
<1>8. t = IF there THEN z ELSE u_left_shop(z)
  BY <1>1, <1>2, <1>3, <1>5, <1>6, <1>7 DEF Fetched
<1>9. /\ x \in Worlds /\ x.shop = s.shop /\ x.obj = s.obj /\ x.hero.ushops
      /\ x.hero.place = s.hero.place
  BY <1>1, <1>4 DEF Good, Worlds, Heroes
<1>10. Fine(x)
  <2>1. Good(x)
    BY <1>4, <1>9 DEF Good
  <2>2. ~s.shop.bill_inactive
    BY <1>4 DEF Fine, Owing
  <2> QED
    BY <1>9, <2>1, <2>2 DEF Fine, Owing, Resident
<1>11. Fine(y) /\ Adds(x, y, Reach(x, b), dummy)
  <2>1. Here(x.obj[b]) /\ (dummy => b # Box)
    BY <1>2, <1>9 DEF Held
  <2> QED
    BY <1>3, <1>10, <2>1, AddAll
<1>12. Stays(x, y) /\ \A i \in Ids : y.obj[i].where = x.obj[i].where
  BY <1>2, <1>11 DEF Adds
<1>13. /\ z \in Worlds /\ z.shop = y.shop /\ z.obj = y.obj /\ z.hero.ushops = there
       /\ z.hero.place = y.hero.place
  <2>1. y \in Worlds /\ there \in BOOLEAN
    BY <1>5, <1>11 DEF Fine, Good
  <2> QED
    BY <1>6, <2>1 DEF Worlds, Heroes
<1>14. Good(z) /\ z.shop.at = "home" /\ ~z.shop.bill_inactive
  <2>1. Good(z)
    BY <1>11, <1>13 DEF Fine, Good
  <2> QED
    BY <1>9, <1>11, <1>12, <1>13, <2>1 DEF Fine, Owing, Stays
<1>15. Stays(s, z)
  BY <1>5, <1>9, <1>12, <1>13 DEF Stays
<1>16. /\ Here(z.obj[b]) /\ \A i \in Ids : i # b => z.obj[i].where # "free"
  BY <1>9, <1>12, <1>13 DEF Held, Here
<1>7a. Others(g, z, b)
  <2>1. Others(x, y, b)
    BY <1>2, <1>11, OthersAdded
  <2>2. Others(s, z, b)
    BY <1>9, <1>13, <2>1 DEF Others
  <2> QED
    BY <2>2, OthersTwice DEF Held
<1>17. Fine(z)
  BY <1>5, <1>13, <1>14 DEF Fine, Owing, Resident
<1>18. t = z
  BY <1>5, <1>8
<1> QED
  BY <1>5, <1>7, <1>15, <1>16, <1>7a, <1>17, <1>18 DEF Held, Stays

LEMMA PickUpEnds ==
  ASSUME ShopConstants, ShopInv, NEW o \in Ids, NEW price \in Prices,
         NEW n \in 1..obj[o].quan, PickUp(o, n, price)
  PROVE  ShopInv'
<1>1. PICK g : g = Now
  OBVIOUS
<1>2. /\ g.obj = obj /\ g.hero = hero /\ g.shop = shop
  BY <1>1 DEF Now
<1>3. Ends(g) /\ Fine(g) /\ Good(g)
  BY <1>1 DEF ShopInv, Ends, Fine
<1>4. PICK b : b = Part(g, o, n)
  OBVIOUS
<1>5. PICK s : s = [Apart(g, o, n) EXCEPT !.obj[b].where = "free"]
  OBVIOUS
<1>6. /\ b \in Ids /\ Held(g, s, b)
  <2>1. Here(g.obj[o])
    BY <1>2 DEF PickUp, Here
  <2>2. Room(g, (IF g.obj[o].quan > 1 THEN 1 ELSE 0) + 1)
    BY <1>1, <1>3, GoodIs, NumbersAre DEF PickUp
  <2>3. PICK where \in {"free", "floor", "outside", "invent", "box"} : where = "free"
    OBVIOUS
  <2>4. n \in 1..g.obj[o].quan /\ s = [Apart(g, o, n) EXCEPT !.obj[b].where = where]
    BY <1>2, <1>5, <2>3
  <2> HIDE <1>5, <2>3
  <2> QED
    BY <1>3, <1>4, <2>1, <2>2, <2>4, HeldApart
<1>7. PICK t : t = IF obj[o].where = "floor" /\ AtHome(s) THEN Fetched(s, b, price) ELSE s
  OBVIOUS
<1>8. Held(g, t, b)
  <2>1. CASE obj[o].where = "floor" /\ AtHome(s)
    <3>1. s.shop.at = "home" /\ AtHome(Now)
      BY <1>1, <1>6, <2>1 DEF AtHome, Held, Stays
    <3>2. obj[o].where # "outside" /\ ~Hooks
      BY <2>1 DEF ShopConstants
    <3>3. hero.ushops
      BY <3>1, <3>2 DEF PickUp
    <3>4. s.hero.ushops
      BY <1>2, <1>6, <3>3 DEF Held, Stays
    <3> QED
      BY <1>6, <1>7, <2>1, <3>1, <3>4, FetchedIs
  <2>2. CASE ~(obj[o].where = "floor" /\ AtHome(s))
    BY <1>6, <1>7, <2>2
  <2> QED
    BY <2>1, <2>2
<1>9. PICK w : w = [t EXCEPT !.obj[b].no_charge = FALSE]
  OBVIOUS
<1>10. Held(g, w, b)
  <2>1. PICK mine \in BOOLEAN : mine = FALSE
    OBVIOUS
  <2>2. w = [t EXCEPT !.obj[b].no_charge = mine]
    BY <1>9, <2>1
  <2>3. Fine(t) /\ Good(t)
    BY <1>8 DEF Held, Fine
  <2> HIDE <1>9
  <2>4. Good(w) /\ Mild(t, w) /\ Marked(t, w, {b}, mine)
    BY <1>6, <2>2, <2>3, MarkIs
  <2>5. Fine(w)
    BY <2>3, <2>4, MarkedIsFine
  <2>6. Others(t, w, b)
    BY <2>4 DEF Marked, Mild, Others
  <2>7. Stays(t, w) /\ Like(t, w)
    BY <2>4, MildIsLike
  <2> QED
    BY <1>6, <1>8, <2>5, <2>6, <2>7, HeldStays
<1>11. PICK h \in Put(w, b, "invent") :
         shop' = h.shop /\ obj' = h.obj /\ hero' = h.hero /\ wrong' = h.wrong
  <2>1. b = Part(Now, o, n) /\ s = [Apart(Now, o, n) EXCEPT !.obj[b].where = "free"]
    BY <1>1, <1>4, <1>5
  <2> QED
    BY <1>7, <1>9, <2>1 DEF PickUp, Becomes
<1>12. Ends(h)
  <2>1. PICK where \in {"floor", "outside", "invent", "box"} : where = "invent"
    OBVIOUS
  <2>2. h \in Put(w, b, where) /\ MayLie(w, b, where)
    BY <2>1 DEF MayLie
  <2> QED
    BY <1>3, <1>6, <1>10, <2>2, HeldPut
<1> QED
  BY <1>11, <1>12, BecomesEnds

LEMMA UseUpEnds ==
  ASSUME ShopConstants, ShopInv, NEW o \in Ids, UseUp(o)
  PROVE  ShopInv'
<1>1. PICK g : g = Now
  OBVIOUS
<1>2. g.obj = obj
  BY <1>1 DEF Now
<1>3. Ends(g)
  BY <1>1 DEF ShopInv
<1>4. PICK h : h = useup(g, o)
  OBVIOUS
<1>5. Fine(h) /\ Stays(g, h) /\ Eased(g, h, {}) /\ \A i \in Ids : h.obj[i].where # "free"
  <2>1. Fine(g) /\ Here(g.obj[o]) /\ \A i \in Ids : g.obj[i].where # "free"
    BY <1>2, <1>3 DEF UseUp, Carried, Here, Ends
  <2> QED
    BY <1>4, <2>1, UseUpIs
<1>6. Ends(h)
  BY <1>3, <1>5, LainEased DEF Ends, Stays
<1>7. shop' = h.shop /\ obj' = h.obj /\ hero' = h.hero /\ wrong' = h.wrong
  BY <1>1, <1>4 DEF UseUp, Becomes
<1> QED
  BY <1>6, <1>7, BecomesEnds

LEMMA AlterEnds ==
  ASSUME ShopConstants, ShopInv, NEW o \in Ids, NEW price \in Prices,
         NEW n \in 1..obj[o].quan, Alter(o, n, price)
  PROVE  ShopInv'
<1>1. PICK g : g = Now
  OBVIOUS
<1>2. /\ g.obj = obj /\ g.hero = hero /\ g.shop = shop
  BY <1>1 DEF Now
<1>3. Ends(g) /\ Fine(g) /\ Good(g)
  BY <1>1 DEF ShopInv, Ends, Fine
<1>4. PICK b : b = Part(g, o, n)
  OBVIOUS
<1>5. PICK a : a = Apart(g, o, n)
  OBVIOUS
<1>6. /\ b \in Ids /\ b # Box /\ Fine(a) /\ Stays(g, a) /\ Room(a, 1) /\ Here(a.obj[b])
      /\ Others(g, a, b) /\ \A i \in Ids : a.obj[i].where # "free"
  <2>1. Here(g.obj[o]) /\ o # Box
    BY <1>2 DEF Alter, Carried, Here
  <2>2. n \in Nat \ {0} /\ n <= g.obj[o].quan
    BY <1>2, <1>3, GoodIs
  <2>3. PICK r \in Nat : r = 1
    OBVIOUS
  <2>4. Room(g, (IF g.obj[o].quan > 1 THEN 1 ELSE 0) + r)
    BY <1>1, <1>3, <2>3, GoodIs, NumbersAre DEF Alter
  <2>5. LET p == Part(g, o, n)
            q == Apart(g, o, n)
        IN /\ p \in Ids /\ (p = Box => o = Box)
           /\ Fine(q) /\ Stays(g, q) /\ Room(q, r)
           /\ q.obj[p].where = g.obj[o].where
           /\ \A i \in Ids : i # p => q.obj[i].where = g.obj[i].where
           /\ Eased(g, q, {p})
    BY <1>3, <2>1, <2>2, <2>4, ApartIs
  <2>6. /\ b \in Ids /\ (b = Box => o = Box)
        /\ Fine(a) /\ Stays(g, a) /\ Room(a, r)
        /\ a.obj[b].where = g.obj[o].where
        /\ \A i \in Ids : i # b => a.obj[i].where = g.obj[i].where
        /\ Eased(g, a, {b})
    BY <1>4, <1>5, <2>5
  <2>7. Others(g, a, b)
    BY <2>6, OthersEased
  <2> QED
    BY <1>3, <2>1, <2>3, <2>6, <2>7 DEF Ends, Here
<1>7. PICK h : h = bill_dummy_object(a, b, price)
  OBVIOUS
<1>8. /\ Fine(h) /\ Stays(a, h) /\ Eased(a, h, {}) /\ \A i \in Ids : h.obj[i].where # "free"
      /\ Here(h.obj[b]) => ~h.obj[b].unpaid
  BY <1>6, <1>7, BillDummyIs
<1>9. Ends(h)
  <2>1. Others(g, h, b)
    BY <1>6, <1>8, OthersEased, OthersTwice
  <2>2. PICK where : where = h.obj[b].where
    OBVIOUS
  <2>3. MayLie(h, b, where) /\ Laid(h, h, b, where)
    BY <1>6, <1>8, <2>2 DEF MayLie, Laid, Given, Here
  <2>4. Lain(h)
    BY <1>3, <1>6, <2>1, <2>3, LainAt DEF Ends
  <2> QED
    BY <1>3, <1>6, <1>8, <2>4 DEF Ends, Stays
<1>10. shop' = h.shop /\ obj' = h.obj /\ hero' = h.hero /\ wrong' = h.wrong
  <2>1. b = Part(Now, o, n) /\ a = Apart(Now, o, n)
    BY <1>1, <1>4, <1>5
  <2> QED
    BY <1>7, <2>1 DEF Alter, Becomes
<1> QED
  BY <1>9, <1>10, BecomesEnds

------------------------------------------------------------------------------
(* The player's money.                                                      *)

\* Other sums, while the bill and the objects remain as they are.
OtherSums(g, h) ==
  /\ h.obj = g.obj /\ Stays(g, h) /\ h.shop.bill = g.shop.bill
  /\ h.shop.surcharge = g.shop.surcharge /\ h.shop.loan <= h.shop.debit

LEMMA SumsEnds ==
  ASSUME NEW g, Ends(g), NEW h \in Worlds, OtherSums(g, h), ~Resident(g) => h.shop.debit = 0
  PROVE  Ends(h)
<1>1. Good(h)
  BY AccountIs DEF Ends, Fine, OtherSums
<1>2. Fine(h)
  BY <1>1 DEF Ends, Fine, Owing, Resident, OtherSums, Stays
<1>3. Lain(h)
  BY LainSame DEF Ends, OtherSums
<1> QED
  BY <1>2, <1>3 DEF Ends, OtherSums, Stays

LEMMA KeepsEnds ==
  ASSUME NEW g, Ends(g), NEW h, Fine(h), Keeps(g, h)
  PROVE  Ends(h)
<1>1. Lain(h)
  BY KeepsEases, LainEased DEF Ends
<1> QED
  BY <1>1 DEF Ends, Keeps, Stays, Like, Here

LEMMA ChargeEnds ==
  ASSUME ShopConstants, ShopInv, NEW o \in Ids, Charge(o)
  PROVE  ShopInv'
<1>1. PICK g : g = Now
  OBVIOUS
<1>2. /\ g.obj = obj /\ g.hero = hero /\ g.shop = shop
  BY <1>1 DEF Now
<1>3. Ends(g) /\ Fine(g) /\ Good(g)
  BY <1>1 DEF ShopInv, Ends, Fine
<1>4. PICK s : s = Keeper(g)
  OBVIOUS
<1>5. Ends(s) /\ Good(s) /\ Resident(s)
  <2>1. Good(s) /\ Moody(g, s)
    BY <1>3, <1>4, KeeperIs
  <2>2. Resident(g)
    BY <1>1, <1>2 DEF Charge, Resident, AtHome
  <2> QED
    BY <1>3, <2>1, <2>2, MoodyEnds DEF Moody, Resident
<1>6. PICK n \in Nat : n = s.shop.debit + Fee
  BY <1>5, GoodIs DEF ShopConstants
<1>7. PICK h : h = [s EXCEPT !.shop.debit = n]
  OBVIOUS
<1>8. h \in Worlds /\ OtherSums(s, h)
  <2>1. s.shop.loan <= n
    BY <1>5, <1>6, GoodIs DEF ShopConstants
  <2>2. /\ h \in Worlds /\ h.obj = s.obj /\ h.hero = s.hero /\ h.shop.bill = s.shop.bill
        /\ h.shop.at = s.shop.at /\ h.shop.bill_inactive = s.shop.bill_inactive
        /\ h.shop.surcharge = s.shop.surcharge /\ h.shop.loan = s.shop.loan
        /\ h.shop.debit = n
    BY <1>5, <1>6, <1>7 DEF Good, Worlds, Shops
  <2> QED
    BY <2>1, <2>2 DEF OtherSums, Stays
<1>9. Ends(h)
  BY <1>5, <1>8, SumsEnds
<1>10. shop' = h.shop /\ obj' = h.obj /\ hero' = h.hero /\ wrong' = h.wrong
  <2>1. h = [Keeper(Now) EXCEPT !.shop.debit = @ + Fee]
    BY <1>1, <1>4, <1>6, <1>7
  <2> QED
    BY <2>1 DEF Charge, Becomes
<1> QED
  BY <1>9, <1>10, BecomesEnds

\* Gold is in another place.
LEMMA GoldEnds ==
  ASSUME NEW g, Ends(g), NEW purse \in Nat, NEW gold \in Nat, NEW h,
         h = [g EXCEPT !.hero.purse = purse, !.shop.gold = gold]
  PROVE  /\ Ends(h) /\ Stays(g, h)
<1>1. g \in Worlds /\ Good(g)
  BY DEF Ends, Fine, Good
<1>2. /\ h \in Worlds /\ h.obj = g.obj /\ h.shop.bill = g.shop.bill /\ h.shop.at = g.shop.at
      /\ h.shop.bill_inactive = g.shop.bill_inactive /\ h.shop.surcharge = g.shop.surcharge
      /\ h.shop.debit = g.shop.debit /\ h.shop.loan = g.shop.loan
      /\ h.hero.place = g.hero.place /\ h.hero.ushops = g.hero.ushops
  BY <1>1 DEF Worlds, Shops, Heroes
<1>3. OtherSums(g, h)
  BY <1>1, <1>2 DEF OtherSums, Stays, Good
<1>4. ~Resident(g) => h.shop.debit = 0
  BY <1>2 DEF Ends, Fine, Owing
<1> QED
  BY <1>2, <1>3, <1>4, SumsEnds DEF OtherSums

LEMMA PickGoldEnds ==
  ASSUME ShopConstants, ShopInv, PickGold
  PROVE  ShopInv'
<1>1. PICK g : g = Now
  OBVIOUS
<1>2. /\ g.obj = obj /\ g.hero = hero /\ g.shop = shop
  BY <1>1 DEF Now
<1>3. Ends(g) /\ Good(g)
  BY <1>1 DEF ShopInv, Ends, Fine
<1>4. PICK purse \in Nat : purse = g.hero.purse + 1
  BY <1>3, GoodIs
<1>5. PICK gold \in Nat : gold = g.shop.gold - 1
  BY <1>2, <1>3, GoodIs DEF PickGold
<1>6. PICK s : s = [g EXCEPT !.hero.purse = purse, !.shop.gold = gold]
  OBVIOUS
<1>7. Ends(s) /\ Stays(g, s) /\ Fine(s) /\ Good(s)
  <2>1. purse \in Nat /\ gold \in Nat
    BY <1>4, <1>5
  <2>2. Ends(s) /\ Stays(g, s)
    BY <1>3, <1>6, <2>1, GoldEnds
  <2> QED
    BY <2>2 DEF Ends, Fine
<1>8. PICK c : c = Keeper(s)
  OBVIOUS
<1>9. Ends(c) /\ Moody(s, c) /\ Good(c)
  BY <1>7, <1>8, KeeperIs, MoodyEnds
<1>10. PICK d : d = costly_gold(c, 1)
  OBVIOUS
<1>11. OnCostly /\ hero.ushops => Ends(d)
  <2> SUFFICES ASSUME OnCostly, hero.ushops PROVE Ends(d)
    OBVIOUS
  <2>1. Resident(g)
    BY <1>1, <1>2 DEF OnCostly, Resident, AtHome
  <2>2. Resident(c) /\ Fine(c)
    BY <1>7, <1>9, <2>1 DEF Resident, Stays, Moody, Ends
  <2>3. PICK n \in Nat : n = 1
    OBVIOUS
  <2>4. Fine(d) /\ Pays(c, d)
    BY <1>10, <2>2, <2>3, CostlyGold
  <2>5. Keeps(c, d)
    BY <2>4, PaysKeeps
  <2> QED
    BY <1>9, <2>4, <2>5, KeepsEnds
<1>12. PICK h : /\ h \in {s, c} \/ (h = d /\ OnCostly /\ hero.ushops)
                /\ shop' = h.shop /\ obj' = h.obj /\ hero' = h.hero /\ wrong' = h.wrong
  <2>1. s = [Now EXCEPT !.hero.purse = @ + 1, !.shop.gold = @ - 1]
    BY <1>1, <1>4, <1>5, <1>6
  <2>2. PICK h : h = CASE ~OnCostly \/ ~hero.ushops -> s
                       [] OnCostly /\ hero.ushops /\ Full(s) -> c
                       [] OTHER -> d
    OBVIOUS
  <2>3. h \in {s, c} \/ (h = d /\ OnCostly /\ hero.ushops)
    BY <2>2
  <2>4. shop' = h.shop /\ obj' = h.obj /\ hero' = h.hero /\ wrong' = h.wrong
    BY <1>8, <1>10, <2>1, <2>2 DEF PickGold, Becomes
  <2> QED
    BY <2>3, <2>4
<1>13. Ends(h)
  BY <1>7, <1>9, <1>11, <1>12
<1> QED
  BY <1>12, <1>13, BecomesEnds

LEMMA DropGoldEnds ==
  ASSUME ShopConstants, ShopInv, DropGold
  PROVE  ShopInv'
<1>1. PICK g : g = Now
  OBVIOUS
<1>2. /\ g.obj = obj /\ g.hero = hero /\ g.shop = shop
  BY <1>1 DEF Now
<1>3. Ends(g) /\ Good(g)
  BY <1>1 DEF ShopInv, Ends, Fine
<1>4. PICK purse \in Nat : purse = g.hero.purse - 1
  BY <1>2, <1>3, GoodIs DEF DropGold
<1>5. PICK gold \in Nat : gold = g.shop.gold + 1
  BY <1>3, GoodIs
<1>6. PICK s : s = [g EXCEPT !.hero.purse = purse, !.shop.gold = gold]
  OBVIOUS
<1>7. Ends(s) /\ Fine(s)
  <2>1. purse \in Nat /\ gold \in Nat
    BY <1>4, <1>5
  <2>2. Ends(s)
    BY <1>3, <1>6, <2>1, GoldEnds
  <2> QED
    BY <2>2 DEF Ends
<1>8. PICK d : d = sellgold(s, 1)
  OBVIOUS
<1>9. Ends(d)
  <2>1. PICK n \in Nat : n = 1
    OBVIOUS
  <2>2. Fine(d) /\ Keeps(s, d)
    BY <1>7, <1>8, <2>1, SellGold
  <2> QED
    BY <1>7, <2>2, KeepsEnds
<1>10. PICK h : /\ h \in {s, d}
                /\ shop' = h.shop /\ obj' = h.obj /\ hero' = h.hero /\ wrong' = h.wrong
  <2>1. s = [Now EXCEPT !.hero.purse = @ - 1, !.shop.gold = @ + 1]
    BY <1>1, <1>4, <1>5, <1>6
  <2>2. PICK h : h = IF OnCostly /\ hero.ushops THEN d ELSE s
    OBVIOUS
  <2>3. shop' = h.shop /\ obj' = h.obj /\ hero' = h.hero /\ wrong' = h.wrong
    BY <1>8, <2>1, <2>2 DEF DropGold, Becomes
  <2> QED
    BY <2>2, <2>3
<1>11. Ends(h)
  BY <1>7, <1>9, <1>10
<1> QED
  BY <1>10, <1>11, BecomesEnds

LEMMA PayEnds ==
  ASSUME ShopConstants, ShopInv, NEW itemize \in BOOLEAN, NEW luck \in BOOLEAN, NEW yes,
         Pay(yes, itemize, luck)
  PROVE  ShopInv'
<1>1. PICK g : g = Now
  OBVIOUS
<1>2. PICK h : h = dopay(g, yes, itemize, luck)
  OBVIOUS
<1>3. Ends(h)
  BY <1>1, <1>2, DoPayIs DEF ShopInv
<1>4. shop' = h.shop /\ obj' = h.obj /\ hero' = h.hero /\ wrong' = h.wrong
  BY <1>1, <1>2 DEF Pay, Becomes
<1> QED
  BY <1>3, <1>4, BecomesEnds

\* What is thrown to the shopkeeper makes up for a robbery, or is credited.
LEMMA ThrowGoldEnds ==
  ASSUME ShopConstants, ShopInv, NEW mad \in BOOLEAN, ThrowGold(mad)
  PROVE  ShopInv'
<1>1. PICK g : g = Now
  OBVIOUS
<1>2. /\ g.obj = obj /\ g.hero = hero /\ g.shop = shop
  BY <1>1 DEF Now
<1>3. Ends(g) /\ Good(g)
  BY <1>1 DEF ShopInv, Ends, Fine
<1>4. PICK purse \in Nat : purse = g.hero.purse - 1
  BY <1>2, <1>3, GoodIs DEF ThrowGold
<1>5. PICK till \in Nat : till = g.shop.till + 1
  BY <1>3, GoodIs
<1>6. PICK angry \in BOOLEAN : angry = (g.shop.angry \/ mad)
  OBVIOUS
<1>7. PICK s : s = [g EXCEPT !.hero.purse = purse, !.shop.till = till, !.shop.angry = angry]
  OBVIOUS
<1>7a. /\ s \in Worlds /\ s.obj = g.obj
       /\ s.hero.place = g.hero.place /\ s.hero.ushops = g.hero.ushops
       /\ s.shop = [g.shop EXCEPT !.till = till, !.angry = angry]
  <2>1. g.shop \in Shops /\ g.hero \in Heroes /\ g \in Worlds
    BY <1>3 DEF Good, Worlds
  <2>2. g.shop.surcharge => angry
    BY <1>6, <2>1 DEF Shops
  <2>3. PICK shp : shp = [g.shop EXCEPT !.till = till, !.angry = angry]
    OBVIOUS
  <2>4. shp \in Shops
    BY <1>5, <1>6, <2>1, <2>2, <2>3 DEF Shops
  <2>5. PICK her : her = [g.hero EXCEPT !.purse = purse]
    OBVIOUS
  <2>6. her \in Heroes /\ her.place = g.hero.place /\ her.ushops = g.hero.ushops
    BY <1>4, <2>1, <2>5 DEF Heroes
  <2>7. s = [g EXCEPT !.hero = her, !.shop = shp]
    BY <1>7, <2>1, <2>3, <2>5 DEF Worlds
  <2> QED
    BY <2>1, <2>3, <2>4, <2>6, <2>7 DEF Worlds
<1>8. ASSUME NEW w, NEW robbed \in Nat, NEW credit \in Nat,
             w = [s EXCEPT !.shop.robbed = robbed, !.shop.credit = credit]
      PROVE  Ends(w)
  <2>1. g.shop \in Shops
    BY <1>3 DEF Good, Worlds
  <2>2. /\ s \in Worlds /\ s.obj = g.obj /\ s.shop.bill = g.shop.bill /\ s.shop.at = g.shop.at
        /\ s.shop.bill_inactive = g.shop.bill_inactive /\ s.shop.surcharge = g.shop.surcharge
        /\ s.shop.debit = g.shop.debit /\ s.shop.loan = g.shop.loan
        /\ s.hero.place = g.hero.place /\ s.hero.ushops = g.hero.ushops
    BY <1>7a, <2>1 DEF Shops
  <2>3. /\ w \in Worlds /\ w.obj = s.obj /\ w.shop.bill = s.shop.bill /\ w.shop.at = s.shop.at
        /\ w.shop.bill_inactive = s.shop.bill_inactive /\ w.shop.surcharge = s.shop.surcharge
        /\ w.shop.debit = s.shop.debit /\ w.shop.loan = s.shop.loan
        /\ w.hero = s.hero
    BY <1>8, <2>2 DEF Worlds, Shops
  <2>4. OtherSums(g, w)
    BY <1>3, <2>2, <2>3 DEF OtherSums, Stays, Good
  <2>5. ~Resident(g) => w.shop.debit = 0
    BY <1>3, <2>2, <2>3 DEF Ends, Fine, Owing
  <2> QED
    BY <1>3, <2>3, <2>4, <2>5, SumsEnds
<1>9. s.shop.robbed = g.shop.robbed /\ s.shop.credit = g.shop.credit /\ s \in Worlds
  <2>1. g.shop \in Shops
    BY <1>3 DEF Good, Worlds
  <2> QED
    BY <1>7a, <2>1 DEF Shops
<1>10. g.shop.robbed \in Nat /\ g.shop.credit \in Nat
  BY <1>3, GoodIs
<1>11. PICK z : z = [s EXCEPT !.shop.robbed = 0]
  OBVIOUS
<1>12. Ends(make_happy_shk(z))
  <2>1. z = [s EXCEPT !.shop.robbed = 0, !.shop.credit = s.shop.credit]
    BY <1>9, <1>11 DEF Worlds, Shops
  <2>2. Ends(z)
    BY <1>8, <1>9, <1>10, <2>1
  <2> QED
    BY <2>2, HappyEnds
<1>13. g.shop.robbed > 1 => Ends([s EXCEPT !.shop.robbed = g.shop.robbed - 1])
  <2> SUFFICES ASSUME g.shop.robbed > 1 PROVE Ends([s EXCEPT !.shop.robbed = g.shop.robbed - 1])
    OBVIOUS
  <2>1. PICK left \in Nat : left = g.shop.robbed - 1
    BY <1>10
  <2>2. PICK w : w = [s EXCEPT !.shop.robbed = left]
    OBVIOUS
  <2>3. w = [s EXCEPT !.shop.robbed = left, !.shop.credit = s.shop.credit]
    BY <1>9, <2>2 DEF Worlds, Shops
  <2>4. left \in Nat /\ s.shop.credit \in Nat
    BY <1>9, <1>10, <2>1
  <2>5. Ends(w)
    BY <1>8, <2>3, <2>4
  <2> QED
    BY <2>1, <2>2, <2>5
<1>14. Ends([s EXCEPT !.shop.credit = @ + 1])
  <2>1. PICK more \in Nat : more = s.shop.credit + 1
    BY <1>9, <1>10
  <2>2. PICK w : w = [s EXCEPT !.shop.credit = more]
    OBVIOUS
  <2>3. w = [s EXCEPT !.shop.robbed = s.shop.robbed, !.shop.credit = more]
    BY <1>9, <2>2 DEF Worlds, Shops
  <2>4. more \in Nat /\ s.shop.robbed \in Nat
    BY <1>9, <1>10, <2>1
  <2>5. Ends(w)
    BY <1>8, <2>3, <2>4
  <2> QED
    BY <2>1, <2>2, <2>5
<1>15. Ends(s)
  <2>1. s = [s EXCEPT !.shop.robbed = s.shop.robbed, !.shop.credit = s.shop.credit]
    BY <1>9 DEF Worlds, Shops
  <2> QED
    BY <1>8, <1>9, <1>10, <2>1
<1>16. PICK h : h = CASE shop.robbed = 1 -> make_happy_shk(z)
                     [] shop.robbed > 1 -> [s EXCEPT !.shop.robbed = g.shop.robbed - 1]
                     [] shop.robbed = 0 /\ ~s.shop.angry -> [s EXCEPT !.shop.credit = @ + 1]
                     [] OTHER -> s
  OBVIOUS
<1>17. Ends(h)
  BY <1>2, <1>12, <1>13, <1>14, <1>15, <1>16
<1>18. shop' = h.shop /\ obj' = h.obj /\ hero' = h.hero /\ wrong' = h.wrong
  <2>1. s = [Now EXCEPT !.hero.purse = @ - 1, !.shop.till = @ + 1, !.shop.angry = @ \/ mad]
    BY <1>1, <1>4, <1>5, <1>6, <1>7
  <2> QED
    BY <1>2, <1>11, <1>16, <2>1 DEF ThrowGold, Becomes
<1> QED
  BY <1>17, <1>18, BecomesEnds

------------------------------------------------------------------------------
(* What happens to the shopkeeper.                                          *)

LEMMA AttackEnds ==
  ASSUME ShopConstants, ShopInv, Attack
  PROVE  ShopInv'
<1>1. PICK g : g = Now
  OBVIOUS
<1>2. g.hero = hero
  BY <1>1 DEF Now
<1>3. Ends(g) /\ Good(g)
  BY <1>1 DEF ShopInv, Ends, Fine
<1>4. PICK s : s = [g EXCEPT !.shop.angry = TRUE]
  OBVIOUS
<1>5. Ends(s) /\ Good(s)
  <2>1. /\ s \in Worlds /\ s.obj = g.obj /\ s.shop.bill = g.shop.bill /\ s.shop.at = g.shop.at
        /\ s.shop.bill_inactive = g.shop.bill_inactive /\ s.shop.surcharge = g.shop.surcharge
        /\ s.shop.debit = g.shop.debit /\ s.shop.loan = g.shop.loan /\ s.hero = g.hero
    BY <1>3, <1>4 DEF Good, Worlds, Shops
  <2>2. OtherSums(g, s)
    BY <1>3, <2>1 DEF OtherSums, Stays, Good
  <2>3. ~Resident(g) => s.shop.debit = 0
    BY <1>3, <2>1 DEF Ends, Fine, Owing
  <2> QED
    BY <1>3, <2>1, <2>2, <2>3, SumsEnds DEF Ends, Fine
<1>6. Ends(hot_pursuit(s))
  BY <1>5, Pursuit, MoodyEnds
<1>7. PICK h : h = IF hero.ushops THEN s ELSE hot_pursuit(s)
  OBVIOUS
<1>8. shop' = h.shop /\ obj' = h.obj /\ hero' = h.hero /\ wrong' = h.wrong
  BY <1>1, <1>4, <1>7 DEF Attack, Becomes
<1>9. Ends(h)
  BY <1>5, <1>6, <1>7
<1> QED
  BY <1>8, <1>9, BecomesEnds

\* The shopkeeper is elsewhere: what is on the bill has to be seen to.
LEMMA ElsewhereIs ==
  ASSUME NEW g, Good(g), NEW at \in {"home", "away", "dead"}, NEW h, h = [g EXCEPT !.shop.at = at]
  PROVE  /\ Good(h) /\ h.obj = g.obj /\ h.hero = g.hero /\ h.shop.at = at
         /\ h.shop.bill = g.shop.bill /\ h.shop.debit = g.shop.debit
         /\ h.shop.bill_inactive = g.shop.bill_inactive
<1>1. /\ h \in Worlds /\ h.obj = g.obj /\ h.hero = g.hero /\ h.shop.at = at
      /\ h.shop.bill = g.shop.bill /\ h.shop.debit = g.shop.debit
      /\ h.shop.bill_inactive = g.shop.bill_inactive /\ h.shop.loan = g.shop.loan
      /\ h.shop.surcharge = g.shop.surcharge
  BY DEF Good, Worlds, Shops
<1>2. Good(h)
  BY <1>1, AccountIs DEF Good
<1> QED
  BY <1>1, <1>2

LEMMA TeleportEnds ==
  ASSUME ShopConstants, ShopInv, Teleport
  PROVE  ShopInv'
<1>1. PICK g : g = Now
  OBVIOUS
<1>2. Ends(g) /\ Good(g) /\ ~g.shop.bill_inactive
  BY <1>1 DEF ShopInv, Ends, Fine, Owing, Teleport, AtHome
<1>3. PICK s : s = [g EXCEPT !.shop.at = "away"]
  OBVIOUS
<1>4. PICK at \in {"home", "away", "dead"} : at = "away"
  OBVIOUS
<1>5. s = [g EXCEPT !.shop.at = at]
  BY <1>3, <1>4
<1>6. Good(s) /\ s.obj = g.obj /\ s.hero = g.hero /\ s.shop.at = at /\ ~s.shop.bill_inactive
  BY <1>2, <1>5, ElsewhereIs
<1>7. PICK h : h = make_angry_shk(s)
  OBVIOUS
<1>8. Good(h) /\ Keeps(s, h) /\ h.hero = s.hero /\ h.shop.bill = <<>> /\ h.shop.debit = 0
  <2>1. NoneFloats(s)
    BY <1>2, <1>6 DEF Ends, NoneFloats
  <2> QED
    BY <1>6, <1>7, <2>1, MakeAngry
<1>9. Fine(h)
  BY <1>6, <1>8 DEF Fine, Owing, Keeps, Stays
<1>10. \A i \in Ids : h.obj[i].where # "free"
  BY <1>2, <1>6, <1>8 DEF Ends, Keeps, Like, Here
<1>11. Ends(h)
  <2>1. ~Resident(h)
    BY <1>4, <1>6, <1>8 DEF Keeps, Stays, Resident
  <2> QED
    BY <1>2, <1>6, <1>8, <1>9, <1>10, <2>1, LainPaid DEF Ends
<1>12. shop' = h.shop /\ obj' = h.obj /\ hero' = h.hero /\ wrong' = h.wrong
  BY <1>1, <1>3, <1>7 DEF Teleport, Becomes
<1> QED
  BY <1>11, <1>12, BecomesEnds

\* Only from a shop that the player is not in.
LEMMA WalkOutEnds ==
  ASSUME ShopConstants, ShopInv, WalkOut
  PROVE  ShopInv'
<1>1. PICK g : g = Now
  OBVIOUS
<1>2. Ends(g) /\ Good(g)
  BY <1>1 DEF ShopInv, Ends, Fine
<1>3. ~g.hero.ushops /\ ~g.shop.bill_inactive
  BY <1>1, <1>2 DEF WalkOut, AtHome, ShopConstants, Now, Ends, Fine, Owing
<1>4. PICK h : h = [g EXCEPT !.shop.at = "away"]
  OBVIOUS
<1>5. PICK at \in {"home", "away", "dead"} : at = "away"
  OBVIOUS
<1>6. h = [g EXCEPT !.shop.at = at]
  BY <1>4, <1>5
<1>7. /\ Good(h) /\ h.obj = g.obj /\ h.hero = g.hero /\ h.shop.bill = g.shop.bill
      /\ h.shop.debit = g.shop.debit /\ ~h.shop.bill_inactive
  BY <1>2, <1>3, <1>6, ElsewhereIs
<1>8. Ends(h)
  BY <1>2, <1>3, <1>7, LainSame DEF Ends, Fine, Owing, Resident
<1>9. shop' = h.shop /\ obj' = h.obj /\ hero' = h.hero /\ wrong' = h.wrong
  BY <1>1, <1>4 DEF WalkOut, Becomes
<1> QED
  BY <1>8, <1>9, BecomesEnds

LEMMA ReturnEnds ==
  ASSUME ShopConstants, ShopInv, Return
  PROVE  ShopInv'
<1>1. PICK g : g = Now
  OBVIOUS
<1>2. Ends(g) /\ g.shop.at # "home"
  BY <1>1 DEF ShopInv, Return, Now
<1>3. PICK h : h = ComesHome(g)
  OBVIOUS
<1>4. /\ Fine(h) /\ h.hero.place = g.hero.place /\ h.obj = g.obj
      /\ h.hero.ushops => g.hero.ushops \/ g.hero.place # "out"
  BY <1>2, <1>3, HomeAgain DEF Ends
<1>5. Ends(h)
  BY <1>2, <1>4, LainSame DEF Ends
<1>6. shop' = h.shop /\ obj' = h.obj /\ hero' = h.hero /\ wrong' = h.wrong
  BY <1>1, <1>3 DEF Return, Becomes
<1> QED
  BY <1>5, <1>6, BecomesEnds

LEMMA TameEnds ==
  ASSUME ShopConstants, ShopInv, Tame
  PROVE  ShopInv'
<1>1. PICK g : g = Now
  OBVIOUS
<1>2. PICK h : h = make_happy_shk(g)
  OBVIOUS
<1>3. Ends(h)
  BY <1>1, <1>2, HappyEnds DEF ShopInv
<1>4. shop' = h.shop /\ obj' = h.obj /\ hero' = h.hero /\ wrong' = h.wrong
  BY <1>1, <1>2 DEF Tame, Becomes
<1> QED
  BY <1>3, <1>4, BecomesEnds

\* With the shopkeeper the bill dies.
LEMMA DieEnds ==
  ASSUME ShopConstants, ShopInv, Die
  PROVE  ShopInv'
<1>1. PICK g : g = Now
  OBVIOUS
<1>2. g.hero = hero /\ g.obj = obj
  BY <1>1 DEF Now
<1>3. Ends(g) /\ Good(g)
  BY <1>1 DEF ShopInv, Ends, Fine
<1>4. PICK d : d = [g EXCEPT !.shop.at = "dead"]
  OBVIOUS
<1>5. PICK at \in {"home", "away", "dead"} : at = "dead"
  OBVIOUS
<1>6. d = [g EXCEPT !.shop.at = at]
  BY <1>4, <1>5
<1>7. /\ Good(d) /\ d.obj = g.obj /\ d.hero = g.hero /\ d.shop.at = "dead"
      /\ d.shop.bill = g.shop.bill /\ d.shop.debit = g.shop.debit
      /\ d.shop.bill_inactive = g.shop.bill_inactive
  BY <1>3, <1>5, <1>6, ElsewhereIs
<1>8. PICK S \in SUBSET Ids : S = {i \in Ids : obj[i].where = "floor"}
  OBVIOUS
<1>9. PICK s : s = SetNoCharge(d, S, FALSE)
  OBVIOUS
<1>10. Good(s) /\ Mild(d, s) /\ s.shop = d.shop /\ s.hero = d.hero
  <2>1. PICK mine \in BOOLEAN : mine = FALSE
    OBVIOUS
  <2>2. s = SetNoCharge(d, S, mine) /\ S \in SUBSET Ids /\ mine \in BOOLEAN
    BY <1>8, <1>9, <2>1
  <2> HIDE <1>9, <2>1
  <2>3. Good(s) /\ Mild(d, s) /\ Marked(d, s, S, mine)
    BY <1>7, <2>2, MarksAre
  <2> QED
    BY <2>3 DEF Marked
<1>11. \A i \in Ids : s.obj[i].where # "free"
  BY <1>3, <1>7, <1>10 DEF Mild, Ends
<1>12. PICK p : p = setpaid(s)
  OBVIOUS
<1>13. PICK w : w = [p EXCEPT !.shop.bill_inactive = TRUE, !.hero.ushops = FALSE]
  OBVIOUS
<1>14. g.hero.ushops => Ends(w)
  <2> SUFFICES ASSUME g.hero.ushops PROVE Ends(w)
    OBVIOUS
  <2>1. ~s.shop.bill_inactive
    BY <1>3, <1>7, <1>10 DEF Ends, Fine, Owing
  <2>2. /\ Good(p) /\ Stays(s, p) /\ Like(s, p)
        /\ p.shop = [s.shop EXCEPT !.bill = <<>>, !.credit = 0, !.debit = 0, !.loan = 0]
    <3>1. NoneFloats(s)
      BY <1>11 DEF NoneFloats
    <3> QED
      BY <1>10, <1>12, <2>1, <3>1, SetpaidIs
  <2>3. p.shop.bill = <<>> /\ p.shop.debit = 0 /\ p.shop.at = "dead"
    BY <1>7, <1>10, <2>2 DEF Good, Worlds, Shops
  <2>4. /\ w \in Worlds /\ w.obj = p.obj /\ w.shop.bill = p.shop.bill
        /\ w.shop.debit = p.shop.debit /\ w.shop.loan = p.shop.loan
        /\ w.shop.surcharge = p.shop.surcharge /\ w.shop.at = p.shop.at /\ ~w.hero.ushops
    BY <1>13, <2>2 DEF Good, Worlds, Shops, Heroes
  <2>5. Good(w)
    BY <2>2, <2>4, AccountIs DEF Good
  <2>6. \A i \in Ids : w.obj[i].where # "free"
    BY <1>11, <2>2, <2>4 DEF Like, Here
  <2>7. Fine(w) /\ ~Resident(w)
    BY <2>3, <2>4, <2>5 DEF Fine, Owing, Resident
  <2> QED
    BY <2>4, <2>6, <2>7, LainPaid DEF Ends
<1>15. ~g.hero.ushops => Ends(s)
  <2>1. ~g.hero.ushops => Fine(s) /\ ~Resident(s)
    BY <1>3, <1>7, <1>10 DEF Ends, Fine, Owing, Resident
  <2> QED
    BY <1>7, <1>10, <1>11, <2>1, LainPaid DEF Ends
<1>16. PICK h : h = IF hero.ushops THEN w ELSE s
  OBVIOUS
<1>17. Ends(h)
  BY <1>2, <1>14, <1>15, <1>16
<1>18. shop' = h.shop /\ obj' = h.obj /\ hero' = h.hero /\ wrong' = h.wrong
  <2>1. s = SetNoCharge([Now EXCEPT !.shop.at = "dead"],
                        {i \in Ids : obj[i].where = "floor"}, FALSE)
    BY <1>1, <1>4, <1>8, <1>9
  <2> QED
    BY <1>12, <1>13, <1>16, <2>1 DEF Die, Becomes
<1> QED
  BY <1>17, <1>18, BecomesEnds

------------------------------------------------------------------------------
(* The theorems.                                                            *)

LEMMA ShopInitEnds ==
  ASSUME ShopConstants, ShopInit
  PROVE  ShopInv
<1>1. PICK g : g = Now
  OBVIOUS
<1>2. /\ g.shop = shop /\ g.obj = obj /\ g.hero = hero /\ g.wrong = {}
      /\ g = [shop |-> shop, obj |-> obj, hero |-> hero, wrong |-> wrong] /\ wrong = {}
  BY <1>1 DEF Now, ShopInit
<1>3. shop \in Shops /\ hero \in Heroes
  <2>1. Purse \in Nat /\ Till \in Nat /\ Gold \in Nat /\ <<>> \in Seq(Entries)
    BY DEF ShopConstants
  <2>2. shop \in Shops
    BY <2>1 DEF ShopInit, Shops
  <2>3. PICK p \in {0, Purse} : hero = [place |-> "out", ushops |-> FALSE, purse |-> p]
    BY DEF ShopInit
  <2>4. p \in Nat
    BY <2>1, <2>3
  <2> QED
    BY <2>2, <2>3, <2>4 DEF Heroes
<1>4. /\ obj \in [Ids -> Objects]
      /\ \A i \in Ids : /\ ~obj[i].unpaid /\ obj[i].where \in {"none", "floor"}
                        /\ Here(obj[i]) => obj[i].quan > 0
  <2>1. PICK place \in {"floor", "none"} :
          obj = [i \in Ids |->
                   CASE i \in Goods -> [Nothing EXCEPT !.quan = Quantity, !.where = "floor"]
                     [] i = Box     -> [Nothing EXCEPT !.kind = "box", !.quan = 1, !.where = place]
                     [] OTHER       -> Nothing]
    BY DEF ShopInit
  <2>2. Quantity \in Nat /\ Quantity > 0
    BY DEF ShopConstants
  <2>3. PICK stack : stack = [Nothing EXCEPT !.quan = Quantity, !.where = "floor"]
    OBVIOUS
  <2>4. PICK box : box = [Nothing EXCEPT !.kind = "box", !.quan = 1, !.where = place]
    OBVIOUS
  <2>5. /\ stack \in Objects /\ ~stack.unpaid /\ stack.where = "floor" /\ stack.quan > 0
    BY <2>2, <2>3 DEF Nothing, Objects
  <2>6. /\ box \in Objects /\ ~box.unpaid /\ box.where \in {"none", "floor"} /\ box.quan > 0
    <3>1. place \in {"floor", "none"}
      BY <2>1
    <3>2. box = [kind |-> "box", quan |-> 1, unpaid |-> FALSE, no_charge |-> FALSE,
                 where |-> place]
      BY <2>4 DEF Nothing
    <3> QED
      BY <3>1, <3>2 DEF Objects
  <2>7. Nothing \in Objects /\ ~Nothing.unpaid /\ Nothing.where = "none"
    BY DEF Nothing, Objects
  <2>8. obj = [i \in Ids |-> CASE i \in Goods -> stack [] i = Box -> box [] OTHER -> Nothing]
    BY <2>1, <2>3, <2>4
  <2>9. \A i \in Ids : obj[i] \in {stack, box, Nothing}
    BY <2>8
  <2>10. obj \in [Ids -> Objects]
    <3>1. DOMAIN obj = Ids /\ obj = [i \in Ids |-> obj[i]]
      BY <2>8
    <3> HIDE <2>8, <2>1
    <3> QED
      BY <2>5, <2>6, <2>7, <2>9, <3>1
  <2> QED
    BY <2>5, <2>6, <2>7, <2>9, <2>10 DEF Here
<1>5. /\ shop.bill = <<>> /\ shop.debit = 0 /\ shop.loan = 0 /\ ~shop.bill_inactive
      /\ ~hero.ushops
  BY DEF ShopInit
<1>6. g \in Worlds
  BY <1>2, <1>3, <1>4 DEF Worlds
<1>7. Len(g.shop.bill) = 0 /\ Len(g.shop.bill) <= BILLSZ /\ g.shop.loan <= g.shop.debit
  BY <1>2, <1>5 DEF ShopConstants
<1>8. Priced(g.shop.bill, g.shop.surcharge) /\ Agree(g.shop.bill, g.obj)
  BY <1>2, <1>4, <1>7 DEF Priced, Agree
<1>9. Good(g)
  BY <1>2, <1>4, <1>6, <1>7, <1>8 DEF Good
<1>10. Fine(g) /\ ~Resident(g)
  BY <1>2, <1>5, <1>9 DEF Fine, Owing, Resident
<1>11. \A i \in Ids : g.obj[i].where # "free"
  BY <1>2, <1>4
<1> QED
  BY <1>1, <1>2, <1>5, <1>10, <1>11, LainPaid DEF ShopInv, Ends

LEMMA ShopNextEnds ==
  ASSUME ShopConstants, ShopInv, [ShopNext]_shopVars
  PROVE  ShopInv'
<1>1. CASE Enter
  BY <1>1, EnterEnds
<1>2. CASE Step
  BY <1>2, StepEnds
<1>3. CASE Leave
  BY <1>3, LeaveEnds
<1>4. ASSUME NEW o \in Ids, NEW price \in Prices, ThrowOut(o, price)
      PROVE  ShopInv'
  BY <1>4, ThrowOutEnds
<1>5. ASSUME NEW o \in Ids, NEW price \in Prices, NEW n \in 1..obj[o].quan,
             PickUp(o, n, price) \/ TakeOut(o, n, price) \/ Alter(o, n, price)
      PROVE  ShopInv'
  BY <1>5, PickUpEnds, TakeOutEnds, AlterEnds
<1>6. ASSUME NEW o \in Ids, NEW yes \in BOOLEAN, NEW n \in 1..obj[o].quan,
             Drop(o, n, yes) \/ PutIn(o, n, yes)
      PROVE  ShopInv'
  BY <1>6, DropEnds, PutInEnds
<1>7. ASSUME NEW o \in Ids, UseUp(o) \/ Charge(o)
      PROVE  ShopInv'
  BY <1>7, UseUpEnds, ChargeEnds
<1>8. CASE PickGold
  BY <1>8, PickGoldEnds
<1>9. CASE DropGold
  BY <1>9, DropGoldEnds
<1>10. ASSUME NEW mad \in BOOLEAN, ThrowGold(mad)
       PROVE  ShopInv'
  BY <1>10, ThrowGoldEnds
<1>11. ASSUME NEW yes \in Answers, Pay(yes, TRUE, TRUE)
       PROVE  ShopInv'
  <2>1. \E itemize, luck \in BOOLEAN : Pay(yes, itemize, luck)
    BY <1>11
  <2> QED
    BY <2>1, PayEnds
<1>12. ASSUME NEW luck \in BOOLEAN, Pay({}, FALSE, luck)
       PROVE  ShopInv'
  <2>1. \E itemize \in BOOLEAN : Pay({}, itemize, luck)
    BY <1>12
  <2> QED
    BY <2>1, PayEnds
<1>13. CASE Attack
  BY <1>13, AttackEnds
<1>14. CASE Teleport
  BY <1>14, TeleportEnds
<1>15. CASE WalkOut
  BY <1>15, WalkOutEnds
<1>16. CASE Return
  BY <1>16, ReturnEnds
<1>17. CASE Tame
  BY <1>17, TameEnds
<1>18. CASE Die
  BY <1>18, DieEnds
<1>7a. CASE UNCHANGED shopVars
  BY <1>7a DEF shopVars, ShopInv, Now
<1>20. \/ Enter \/ Step \/ Leave
       \/ \E o \in Ids, price \in Prices :
            \/ ThrowOut(o, price)
            \/ \E n \in 1..obj[o].quan :
                 PickUp(o, n, price) \/ TakeOut(o, n, price) \/ Alter(o, n, price)
       \/ \E o \in Ids, yes \in BOOLEAN : \E n \in 1..obj[o].quan : Drop(o, n, yes) \/ PutIn(o, n, yes)
       \/ \E o \in Ids : UseUp(o) \/ Charge(o)
       \/ PickGold \/ DropGold \/ \E mad \in BOOLEAN : ThrowGold(mad)
       \/ \E yes \in Answers : Pay(yes, TRUE, TRUE)
       \/ \E luck \in BOOLEAN : Pay({}, FALSE, luck)
       \/ Attack \/ Teleport \/ WalkOut \/ Return \/ Tame \/ Die
       \/ UNCHANGED shopVars
  BY DEF ShopNext
<1> QED
  BY <1>1, <1>2, <1>3, <1>4, <1>5, <1>6, <1>7, <1>8, <1>9, <1>10, <1>11, <1>12, <1>13, <1>14,
     <1>15, <1>16, <1>17, <1>18, <1>7a, <1>20

\* What the bill and the objects say of each other holds whenever the player
\* gives the next command, and so do the three that follow from it.
THEOREM ShopInvariance == ASSUME ShopConstants PROVE ShopSpec => []ShopInv
<1>1. ShopInit => ShopInv
  BY ShopInitEnds
<1>2. ShopInv /\ [ShopNext]_shopVars => ShopInv'
  BY ShopNextEnds
<1> QED
  BY <1>1, <1>2, PTL DEF ShopSpec

\* ShopTypeOK: no debt or credit goes below zero, and shk.c finds nothing wrong
\* with its bill but that it is inactive.
THEOREM ShopTypeCorrect == ASSUME ShopConstants PROVE ShopSpec => []ShopTypeOK
<1>1. ShopInv => ShopTypeOK
  <2> SUFFICES ASSUME ShopInv PROVE ShopTypeOK
    OBVIOUS
  <2>1. PICK g : g = Now
    OBVIOUS
  <2>2. g.shop = shop /\ g.obj = obj /\ g.hero = hero /\ g.wrong = wrong
    BY <2>1 DEF Now
  <2>3. g \in Worlds /\ Len(shop.bill) <= BILLSZ /\ shop.loan <= shop.debit
        /\ \A i \in Ids : obj[i].where # "free"
    BY <2>1, <2>2 DEF ShopInv, Ends, Fine, Good
  <2>4. shop \in Shops /\ obj \in [Ids -> Objects] /\ hero \in Heroes
        /\ wrong \subseteq {"paying with inactive bill", "riling with inactive bill",
                            "pacifying with inactive bill"}
    BY <2>2, <2>3 DEF Worlds
  <2>5. obj \in [Ids -> [kind : {"goods", "box"}, quan : Nat, unpaid : BOOLEAN,
                         no_charge : BOOLEAN,
                         where : {"none", "floor", "outside", "invent", "box", "billed"}]]
    <3>1. \A i \in Ids : obj[i] \in Objects /\ obj[i].where # "free"
      BY <2>3, <2>4
    <3>2. \A i \in Ids : obj[i] \in [kind : {"goods", "box"}, quan : Nat, unpaid : BOOLEAN,
                                     no_charge : BOOLEAN,
                                     where : {"none", "floor", "outside", "invent", "box", "billed"}]
      BY <3>1 DEF Objects
    <3>3. DOMAIN obj = Ids /\ obj = [i \in Ids |-> obj[i]]
      BY <2>4
    <3> QED
      BY <3>2, <3>3
  <2> QED
    BY <2>3, <2>4, <2>5 DEF ShopTypeOK, Shops, Heroes, Entries
<1> QED
  BY <1>1, ShopInvariance, PTL

\* BillMatches: an object is unpaid just if it is on the bill, and no more of it
\* is there than the bill says.
THEOREM BillAlwaysMatches == ASSUME ShopConstants PROVE ShopSpec => []BillMatches
<1>1. ShopInv => BillMatches
  <2> SUFFICES ASSUME ShopInv PROVE BillMatches
    OBVIOUS
  <2>1. PICK g : g = Now
    OBVIOUS
  <2>2. g.shop = shop /\ g.obj = obj /\ Good(g)
    BY <2>1 DEF Now, ShopInv, Ends, Fine
  <2>3. DOMAIN shop.bill = 1..Len(shop.bill)
    BY <2>2, GoodIs
  <2>4. Agree(shop.bill, obj) /\ Priced(shop.bill, shop.surcharge)
    BY <2>2 DEF Good
  <2> QED
    BY <2>3, <2>4 DEF BillMatches, Agree, Priced, IsFor, Here
<1> QED
  BY <1>1, ShopInvariance, PTL

\* NobodyLeavesWithBill: a player who is out of a shop whose owner is there owes
\* nothing for goods, however the two came and went.
THEOREM NobodyEverLeavesWithBill == ASSUME ShopConstants PROVE ShopSpec => []NobodyLeavesWithBill
<1>1. ShopInv => NobodyLeavesWithBill
  <2> SUFFICES ASSUME ShopInv, hero.place = "out", AtHome(Now)
               PROVE  /\ shop.bill = <<>> /\ shop.debit = 0
                      /\ \A i \in Ids : ~obj[i].unpaid
    BY DEF NobodyLeavesWithBill
  <2>1. PICK g : g = Now
    OBVIOUS
  <2>2. g.shop = shop /\ g.obj = obj /\ g.hero = hero /\ Fine(g)
        /\ (hero.ushops => hero.place # "out")
    BY <2>1 DEF Now, ShopInv, Ends
  <2>3. shop.bill = <<>> /\ shop.debit = 0
    BY <2>2 DEF Fine, Owing, Resident
  <2>4. \A i \in Ids : ~obj[i].unpaid
    BY <2>2, <2>3 DEF Fine, Good, Agree
  <2> QED
    BY <2>3, <2>4
<1> QED
  BY <1>1, ShopInvariance, PTL

\* UnpaidIsCarried: whatever the player takes, splits, uses, puts back or down in
\* a box, bought or not, nothing that lies in the shop remains on the bill, except
\* what is in a box of the player's that the bill had no room for.
THEOREM UnpaidStaysCarried == ASSUME ShopConstants PROVE ShopSpec => []UnpaidIsCarried
<1>1. ShopInv => UnpaidIsCarried
  <2> SUFFICES ASSUME ShopInv PROVE UnpaidIsCarried
    OBVIOUS
  <2>1. Lain(Now) /\ Now.obj = obj
    BY DEF ShopInv, Ends, Now
  <2> QED
    BY <2>1 DEF Lain, UnpaidIsCarried
<1> QED
  BY <1>1, ShopInvariance, PTL

------------------------------------------------------------------------------
(* Sums.                                                                    *)

\* A sum can begin with any of the elements.
LEMMA AnyFirst ==
  ASSUME NEW S, IsFiniteSet(S), NEW c \in [S -> Nat], NEW t, IsSum(t, S, c),
         NEW s \in SUBSET S, NEW x \in s
  PROVE  t[s] = c[x] + t[s \ {x}]
<1> DEFINE Fails == {r \in SUBSET S : \E y \in r : t[r] # c[y] + t[r \ {y}]}
           Sizes == {Cardinality(r) : r \in Fails}
<1>1. \A r \in SUBSET S : /\ IsFiniteSet(r) /\ Cardinality(r) \in Nat
                          /\ \A y \in r : Cardinality(r \ {y}) = Cardinality(r) - 1
  BY FS_Subset, FS_CardinalityType, FS_RemoveElement
<1>2. SUFFICES ASSUME Fails # {} PROVE FALSE
  OBVIOUS
<1>3. Sizes \subseteq Nat /\ Sizes # {}
  BY <1>1, <1>2
<1>4. PICK n \in Sizes : \A m \in Sizes : n <= m
  <2> HIDE DEF Sizes
  <2> QED
    BY <1>3, LeastOf
<1>5. PICK r \in Fails : Cardinality(r) = n
  BY <1>4
<1>6. PICK y \in r : t[r] # c[y] + t[r \ {y}]
  BY <1>5
<1>7. PICK z \in r : z = Pick(r)
  BY <1>6 DEF Pick
<1>8. t[r] = c[z] + t[r \ {z}]
  BY <1>5, <1>6, <1>7 DEF IsSum
<1>9. y # z
  BY <1>6, <1>8
<1>10. \A q \in SUBSET S : Cardinality(q) < n => q \notin Fails
  <2> TAKE q \in SUBSET S
  <2> HAVE Cardinality(q) < n
  <2>1. q \in Fails => n <= Cardinality(q)
    BY <1>4
  <2>2. n \in Nat /\ Cardinality(q) \in Nat
    BY <1>1, <1>3
  <2> QED
    BY <2>1, <2>2
<1>11. /\ r \ {y} \in SUBSET S /\ r \ {z} \in SUBSET S
       /\ Cardinality(r \ {y}) < n /\ Cardinality(r \ {z}) < n
  BY <1>1, <1>5, <1>6, <1>7
<1>12. /\ t[r \ {z}] = c[y] + t[(r \ {z}) \ {y}]
       /\ t[r \ {y}] = c[z] + t[(r \ {y}) \ {z}]
  <2>1. y \in r \ {z} /\ z \in r \ {y}
    BY <1>9
  <2> QED
    BY <1>10, <1>11, <2>1
<1>13. (r \ {z}) \ {y} = (r \ {y}) \ {z}
  OBVIOUS
<1>14. PICK q \in SUBSET S : q = (r \ {y}) \ {z}
  BY <1>11
<1>15. c[y] \in Nat /\ c[z] \in Nat /\ t[q] \in Nat
  BY <1>5, <1>14 DEF IsSum
<1>16. t[r \ {z}] = c[y] + t[q] /\ t[r \ {y}] = c[z] + t[q]
  BY <1>12, <1>13, <1>14
<1> QED
  BY <1>6, <1>8, <1>15, <1>16

\* Sums of the same numbers are the same.
LEMMA SameSums ==
  ASSUME NEW S, NEW c \in [S -> Nat], NEW t, IsSum(t, S, c),
         NEW R, NEW d \in [R -> Nat], NEW u, IsSum(u, R, d),
         NEW W, IsFiniteSet(W), W \subseteq S, W \subseteq R, \A x \in W : c[x] = d[x]
  PROVE  t[W] = u[W]
<1> DEFINE Holds == {s \in SUBSET W : t[s] = u[s]}
<1>1. {} \in Holds
  BY DEF IsSum
<1>2. ASSUME NEW s \in SUBSET W, s # {}, s \ {Pick(s)} \in Holds PROVE s \in Holds
  <2>1. Pick(s) \in s
    BY <1>2 DEF Pick
  <2>2. t[s] = c[Pick(s)] + t[s \ {Pick(s)}] /\ u[s] = d[Pick(s)] + u[s \ {Pick(s)}]
    BY <1>2 DEF IsSum
  <2>3. c[Pick(s)] = d[Pick(s)] /\ t[s \ {Pick(s)}] = u[s \ {Pick(s)}]
    BY <1>2, <2>1
  <2> QED
    BY <2>2, <2>3
<1>3. W \in Holds
  <2> HIDE DEF Holds
  <2> QED
    BY <1>1, <1>2, SetsGrow
<1> QED
  BY <1>3

\* One of the numbers is another, or is left out.
LEMMA SumChanged ==
  ASSUME NEW S, IsFiniteSet(S), NEW x \in S, NEW c \in [S -> Nat], NEW d \in [S -> Nat],
         \A y \in S \ {x} : c[y] = d[y]
  PROVE  SumFunction(d) = SumFunction(c) - c[x] + d[x]
<1>1. PICK t : IsSum(t, S, c) /\ SumFunction(c) = t[S]
  BY SumDefined
<1>2. PICK u : IsSum(u, S, d) /\ SumFunction(d) = u[S]
  BY SumDefined
<1>3. PICK W \in SUBSET S : W = S \ {x}
  OBVIOUS
<1>4. t[S] = c[x] + t[W] /\ u[S] = d[x] + u[W]
  BY <1>1, <1>2, <1>3, AnyFirst
<1>5. t[W] = u[W]
  <2>1. IsFiniteSet(W)
    BY FS_Subset
  <2> QED
    BY <1>1, <1>2, <1>3, <2>1, SameSums
<1>6. c[x] \in Nat /\ d[x] \in Nat /\ t[W] \in Nat
  BY <1>1 DEF IsSum
<1> QED
  BY <1>1, <1>2, <1>4, <1>5, <1>6

Lacks(W, S, x) == x \in S /\ W = S \ {x}

LEMMA SumWithout ==
  ASSUME NEW S, IsFiniteSet(S), NEW c \in [S -> Nat],
         NEW W, NEW d \in [W -> Nat], \A y \in W : c[y] = d[y],
         NEW x, Lacks(W, S, x)
  PROVE  SumFunction(d) = SumFunction(c) - c[x]
<1>1. W \in SUBSET S /\ x \in S /\ W = S \ {x}
  BY DEF Lacks
<1>2. IsFiniteSet(W) /\ d \in [W -> Nat]
  BY <1>1, FS_Subset
<1>3. PICK t : IsSum(t, S, c) /\ SumFunction(c) = t[S]
  BY SumDefined
<1>4. PICK u : IsSum(u, W, d) /\ SumFunction(d) = u[W]
  BY <1>2, SumDefined
<1>5. t[S] = c[x] + t[W]
  BY <1>1, <1>3, AnyFirst
<1>6. t[W] = u[W]
  <2>1. W \subseteq S /\ W \subseteq W /\ IsSum(t, S, c) /\ IsSum(u, W, d) /\ IsFiniteSet(W)
    BY <1>1, <1>2, <1>3, <1>4
  <2> QED
    BY <2>1, SameSums
<1>7. c[x] \in Nat /\ t[W] \in Nat
  BY <1>1, <1>3 DEF IsSum
<1> QED
  BY <1>3, <1>4, <1>5, <1>6, <1>7

------------------------------------------------------------------------------
(* What is owed for a bill.                                                 *)

Cost(e) == e.price * e.bquan

LEMMA CostIs ==
  ASSUME ShopConstants, NEW e \in Entries
  PROVE  Cost(e) \in Nat /\ e.price \in Nat /\ e.bquan \in Nat
<1>1. e.price \in Prices \cup Sums /\ e.bquan \in Nat
  BY DEF Entries
<1>2. \A p \in Prices : p \in Nat /\ Surcharged(p) \in Nat
  BY DEF ShopConstants, Surcharged
<1>3. e.price \in Nat
  BY <1>1, <1>2 DEF Sums
<1> QED
  BY <1>1, <1>3 DEF Cost

\* Due is the sum of what the entries cost.
LEMMA CostsAre ==
  ASSUME ShopConstants, NEW b \in Seq(Entries)
  PROVE  LET c == [k \in 1..Len(b) |-> Cost(b[k])]
         IN c \in [1..Len(b) -> Nat] /\ Due(b) = SumFunction(c)
<1>1. DOMAIN b = 1..Len(b)
  BY BillIs
<1>2. \A k \in 1..Len(b) : Cost(b[k]) \in Nat
  BY BillIs, CostIs
<1>3. Due(b) = SumFunction([k \in 1..Len(b) |-> Cost(b[k])])
  BY <1>1, Zenon DEF Due, Cost
<1> QED
  BY <1>2, <1>3

\* An entry is replaced by another.
LEMMA DueReplaced ==
  ASSUME ShopConstants, NEW b \in Seq(Entries), NEW at \in 1..Len(b),
         NEW b1 \in Seq(Entries), Len(b1) = Len(b),
         \A k \in 1..Len(b) : k # at => b1[k] = b[k]
  PROVE  Due(b1) = Due(b) - Cost(b[at]) + Cost(b1[at])
<1>1. PICK S : S = 1..Len(b)
  OBVIOUS
<1>2. PICK c : c = [k \in S |-> Cost(b[k])]
  OBVIOUS
<1>3. PICK d : d = [k \in S |-> Cost(b1[k])]
  OBVIOUS
<1>4. c \in [S -> Nat] /\ Due(b) = SumFunction(c)
  BY <1>1, <1>2, CostsAre
<1>5. d \in [S -> Nat] /\ Due(b1) = SumFunction(d)
  BY <1>1, <1>3, CostsAre
<1>6. IsFiniteSet(S) /\ at \in S
  BY <1>1, BillIs
<1>7. \A k \in S \ {at} : c[k] = d[k]
  BY <1>1, <1>2, <1>3
<1>8. c[at] = Cost(b[at]) /\ d[at] = Cost(b1[at])
  BY <1>2, <1>3, <1>6
<1>9. SumFunction(d) = SumFunction(c) - c[at] + d[at]
  <2>1. c \in [S -> Nat] /\ d \in [S -> Nat] /\ IsFiniteSet(S) /\ at \in S
    BY <1>4, <1>5, <1>6
  <2> QED
    BY <1>7, <2>1, SumChanged
<1> QED
  BY <1>4, <1>5, <1>8, <1>9

\* An entry is taken off: the last one takes its place, which then is one too many.
LEMMA DueWithout ==
  ASSUME ShopConstants, NEW b \in Seq(Entries), NEW at \in 1..Len(b)
  PROVE  Due(Without(b, at)) = Due(b) - Cost(b[at])
<1>1. PICK n \in Nat : n = Len(b)
  BY BillIs
<1>2. PICK b1 : b1 = [b EXCEPT ![at] = b[n]]
  OBVIOUS
<1>3. PICK w : w = Without(b, at)
  OBVIOUS
<1>4. /\ w \in Seq(Entries) /\ Len(w) = n - 1 /\ n \in 1..n
      /\ \A k \in 1..(n - 1) : w[k] = IF k = at THEN b[n] ELSE b[k]
  <2>1. n \in 1..n
    BY <1>1
  <2>2. /\ w \in Seq(Entries) /\ Len(w) = Len(b) - 1
        /\ \A k \in 1..(Len(b) - 1) : w[k] = IF k = at THEN b[Len(b)] ELSE b[k]
    BY <1>3, WithoutIs
  <2> QED
    BY <1>1, <2>1, <2>2
<1>5. /\ b1 \in Seq(Entries) /\ Len(b1) = n
      /\ \A k \in 1..n : b1[k] = IF k = at THEN b[n] ELSE b[k]
  <2>1. b[n] \in Entries
    BY <1>1, <1>4, BillIs
  <2> QED
    BY <1>1, <1>2, <2>1, ExceptSeq
<1>6. Due(b1) = Due(b) - Cost(b[at]) + Cost(b[n])
  <2>1. \A k \in 1..Len(b) : k # at => b1[k] = b[k]
    BY <1>1, <1>5
  <2>2. Due(b1) = Due(b) - Cost(b[at]) + Cost(b1[at])
    BY <1>1, <1>5, <2>1, DueReplaced
  <2> QED
    BY <1>1, <1>5, <2>2
<1>7. PICK S : S = 1..n
  OBVIOUS
<1>8. PICK c : c = [k \in S |-> Cost(b1[k])]
  OBVIOUS
<1>9. c \in [S -> Nat] /\ Due(b1) = SumFunction(c)
  BY <1>5, <1>7, <1>8, CostsAre
<1>10. PICK d : d = [k \in 1..(n - 1) |-> Cost(w[k])]
  OBVIOUS
<1>11. d \in [1..(n - 1) -> Nat] /\ Due(w) = SumFunction(d)
  BY <1>4, <1>10, CostsAre
<1>12. PICK W : W = 1..(n - 1) /\ W = S \ {n}
  BY <1>1, <1>7
<1>13. IsFiniteSet(S) /\ n \in S
  BY <1>1, <1>4, <1>7, BillIs
<1>14. \A k \in W : c[k] = d[k]
  <2> TAKE k \in W
  <2>1. k \in 1..(n - 1) /\ k \in 1..n
    BY <1>7, <1>12
  <2>2. w[k] = b1[k]
    BY <1>4, <1>5, <2>1
  <2> QED
    BY <1>7, <1>8, <1>10, <2>1, <2>2
<1>15. c[n] = Cost(b[n])
  <2>1. b1[n] = b[n]
    BY <1>4, <1>5
  <2> QED
    BY <1>8, <1>13, <2>1
<1>16. SumFunction(d) = SumFunction(c) - c[n]
  <2>1. d \in [W -> Nat] /\ Lacks(W, S, n)
    BY <1>11, <1>12, <1>13 DEF Lacks
  <2>2. c \in [S -> Nat] /\ IsFiniteSet(S)
    BY <1>9, <1>13
  <2> QED
    BY <1>14, <2>1, <2>2, SumWithout
<1>17. Due(w) = Due(b1) - Cost(b[n])
  BY <1>9, <1>11, <1>15, <1>16
<1>18. Due(b) \in Nat /\ Cost(b[at]) \in Nat /\ Cost(b[n]) \in Nat
  <2>1. b[at] \in Entries /\ b[n] \in Entries
    BY <1>1, <1>4, BillIs
  <2> QED
    BY <2>1, DueIs, CostIs
<1> QED
  BY <1>3, <1>6, <1>17, <1>18

------------------------------------------------------------------------------
(* Paying.                                                                  *)

\* What the player has, and what of it is the shop's: Account.
Balance(g) == Wealth(g) - g.shop.debit - Due(g.shop.bill)

LEMMA BalanceIs ==
  ASSUME ShopConstants, NEW g, Good(g)
  PROVE  /\ Wealth(g) \in Nat /\ g.shop.debit \in Nat /\ Due(g.shop.bill) \in Nat
         /\ Balance(g) \in Int
<1>1. g.shop.bill \in Seq(Entries) /\ g.shop.credit \in Nat /\ g.hero.purse \in Nat
      /\ g.shop.debit \in Nat
  BY GoodIs
<1>2. Due(g.shop.bill) \in Nat
  BY <1>1, DueIs
<1>3. Wealth(g) \in Nat
  BY <1>1 DEF Wealth
<1> QED
  BY <1>1, <1>2, <1>3 DEF Balance

\* Nothing is used up of the k-th entry.
Whole(g, k) ==
  ~g.shop.bill[k].useup /\ g.shop.bill[k].bquan = g.obj[g.shop.bill[k].id].quan

\* A change to the bill and the objects only.
Rebooked(p, h) ==
  Wealth(h) = Wealth(p) /\ h.shop.debit = p.shop.debit

\* What is paid for is taken off the bill, and just that.
LEMMA PaidOffFair ==
  ASSUME ShopConstants, NEW p, Good(p), NEW at \in 1..Len(p.shop.bill), NEW e,
         NEW used \in BOOLEAN, NEW have, NEW quan, Asks(p, at, e, used, have, quan),
         used \/ ~(quan < e.bquan)
  PROVE  LET h == PaidOff(p, e, at, used, have, quan)
         IN /\ Rebooked(p, h) /\ Due(h.shop.bill) = Due(p.shop.bill) - e.price * quan
            /\ \A k \in 1..Len(h.shop.bill) :
                 /\ k < at => k \in 1..Len(p.shop.bill) /\ (Whole(p, k) => Whole(h, k))
                 /\ ~used /\ (\A j \in 1..Len(p.shop.bill) : Whole(p, j)) => Whole(h, k)
<1>1. PICK old : old = p.shop.bill
  OBVIOUS
<1>2. PICK was : was = p.obj
  OBVIOUS
<1>3. PICK o \in Ids : o = e.id
  BY GoodIs, BillIs DEF Asks
<1>4. PICK h : h = PaidOff(p, e, at, used, have, quan)
  OBVIOUS
<1>5. /\ p \in Worlds /\ old \in Seq(Entries) /\ Agree(old, was)
      /\ at \in 1..Len(old) /\ old[at] = e /\ e \in Entries
      /\ was \in [Ids -> Objects] /\ IsFor(e, was[o]) /\ was[o] \in Objects
  BY <1>1, <1>2, <1>3, GoodIs, BillIs DEF Good, Worlds, Agree, Asks
<1>6. /\ e.bquan \in Nat \ {0} /\ e.useup \in BOOLEAN /\ was[o].quan \in Nat
      /\ 0 < was[o].quan /\ was[o].quan <= e.bquan /\ e.price \in Nat
      /\ Cost(e) \in Nat /\ Due(old) \in Nat
  BY <1>5, CostIs, DueIs DEF Entries, Objects, IsFor
<1>7. /\ have = IF e.useup THEN e.bquan ELSE was[o].quan
      /\ quan = IF used /\ e.bquan > have THEN e.bquan - have ELSE have
      /\ e.useup => used
  <2>1. (~used) # e.useup \/ have # e.bquan
    BY DEF Asks
  <2>2. have = IF e.useup THEN e.bquan ELSE was[o].quan
    BY <1>2, <1>3 DEF Asks
  <2>3. e.useup => used
    BY <1>6, <2>1, <2>2
  <2> QED
    BY <2>2, <2>3 DEF Asks
<1>8. CASE used /\ quan # e.bquan
  <2>1. ~e.useup /\ have = was[o].quan /\ e.bquan > have /\ quan = e.bquan - have
    <3>1. PICK q \in Nat : q = was[o].quan
      BY <1>6
    <3>2. e.useup => quan = e.bquan
      BY <1>6, <1>7
    <3>3. ~e.useup /\ have = q
      BY <1>8, <1>7, <3>1, <3>2
    <3>4. q # e.bquan
      BY <1>6, <1>8, <1>7, <3>3
    <3>5. e.bquan > q
      BY <1>6, <3>1, <3>4
    <3> QED
      BY <1>8, <1>7, <3>1, <3>3, <3>5
  <2>2. PICK e1 : e1 = [e EXCEPT !.bquan = have, !.useup = FALSE]
    OBVIOUS
  <2>3. e1 \in Entries /\ e1.bquan = have /\ e1.price = e.price
    <3>1. have \in Nat \ {0}
      BY <1>6, <2>1
    <3> QED
      BY <1>5, <2>2, <3>1 DEF Entries
  <2>4. PICK b : b = [old EXCEPT ![at] = e1]
    OBVIOUS
  <2>5. /\ b \in Seq(Entries) /\ Len(b) = Len(old)
        /\ \A k \in 1..Len(old) : b[k] = IF k = at THEN e1 ELSE old[k]
    BY <1>5, <2>3, <2>4, ExceptSeq
  <2>6. h = [p EXCEPT !.shop.bill[at] = e1, !.obj[o].unpaid = TRUE]
    BY <1>3, <1>4, <1>8, <2>2 DEF PaidOff
  <2>7. /\ h.shop.bill = b /\ Rebooked(p, h)
        /\ \A i \in Ids : h.obj[i].quan = p.obj[i].quan
    <3>1. h.shop.bill = b /\ Rebooked(p, h) /\ h.obj = [p.obj EXCEPT ![o].unpaid = TRUE]
      BY <1>1, <1>5, <2>4, <2>6 DEF Worlds, Shops, Rebooked, Wealth
    <3>2. PICK new : new = [was[o] EXCEPT !.unpaid = TRUE]
      OBVIOUS
    <3>3. new.quan = was[o].quan
      BY <1>5, <3>2 DEF Objects
    <3>4. h.obj = [was EXCEPT ![o] = new]
      BY <1>2, <3>1, <3>2
    <3> QED
      BY <1>2, <1>5, <3>1, <3>3, <3>4
  <2>8. Due(b) = Due(old) - e.price * quan
    <3>1. \A k \in 1..Len(old) : k # at => b[k] = old[k]
      BY <2>5
    <3>2. Due(b) = Due(old) - Cost(old[at]) + Cost(b[at])
      BY <1>5, <2>5, <3>1, DueReplaced
    <3>3. Due(b) = Due(old) - Cost(e) + Cost(e1)
      BY <1>5, <2>5, <3>2
    <3>4. PICK x \in Nat : x = have
      BY <1>6, <2>1
    <3>5. PICK y \in Nat : y = quan
      BY <1>6, <2>1
    <3>6. PICK price \in Nat : price = e.price
      BY <1>6
    <3>7. e.bquan = x + y
      BY <1>6, <2>1, <3>4, <3>5
    <3>8. price * (x + y) = price * x + price * y
      OBVIOUS
    <3>9. Cost(e) = price * (x + y) /\ Cost(e1) = price * x
      BY <2>3, <3>4, <3>6, <3>7 DEF Cost
    <3>10. price * x \in Nat /\ price * y \in Nat
      OBVIOUS
    <3>11. Due(b) = Due(old) - price * y
      BY <1>6, <3>3, <3>8, <3>9, <3>10
    <3> QED
      BY <3>5, <3>6, <3>11
  <2>9. ASSUME NEW k \in 1..Len(b), k < at
        PROVE  k \in 1..Len(old) /\ (Whole(p, k) => Whole(h, k))
    <3>1. k \in 1..Len(old) /\ b[k] = old[k] /\ old[k].id \in Ids
      <4>1. k \in 1..Len(old) /\ k # at
        BY <1>5, <2>5, <2>9
      <4> QED
        BY <1>5, <2>5, <4>1, BillIs
    <3> QED
      BY <1>1, <2>7, <3>1 DEF Whole
  <2> QED
    BY <1>1, <1>4, <1>8, <2>7, <2>8, <2>9
<1>9. CASE ~(used /\ quan # e.bquan)
  <2>1. quan = e.bquan
    <3>1. CASE used
      BY <1>9, <3>1
    <3>2. CASE ~used
      BY <1>6, <1>7, <3>2
    <3> QED
      BY <3>1, <3>2
  <2>2. PICK new : new = IF used THEN Nothing ELSE [was[o] EXCEPT !.unpaid = FALSE]
    OBVIOUS
  <2>3. PICK b : b = Without(old, at)
    OBVIOUS
  <2>4. h = [p EXCEPT !.shop.bill = b, !.obj[o] = new]
    BY <1>1, <1>2, <1>3, <1>4, <1>9, <2>2, <2>3 DEF PaidOff
  <2>5. /\ h.shop.bill = b /\ Rebooked(p, h)
        /\ \A i \in Ids : i # o => h.obj[i] = p.obj[i]
        /\ ~used => h.obj[o].quan = p.obj[o].quan
    BY <1>2, <1>3, <1>5, <2>2, <2>4 DEF Worlds, Shops, Objects, Rebooked, Wealth
  <2>6. Due(b) = Due(old) - e.price * quan
    BY <1>5, <2>1, <2>3, DueWithout DEF Cost
  <2>7. /\ Len(b) = Len(old) - 1 /\ Len(old) \in Nat
        /\ \A k \in 1..(Len(old) - 1) : b[k] = IF k = at THEN old[Len(old)] ELSE old[k]
    BY <1>5, <2>3, WithoutIs
  <2>8. ASSUME NEW k \in 1..Len(b)
        PROVE  /\ k < at => k \in 1..Len(old) /\ (Whole(p, k) => Whole(h, k))
               /\ ~used /\ (\A j \in 1..Len(old) : Whole(p, j)) => Whole(h, k)
    <3>1. PICK j \in 1..Len(old) : b[k] = old[j] /\ (k < at => j = k)
      <4>1. k \in 1..(Len(old) - 1) /\ k \in 1..Len(old) /\ Len(old) \in 1..Len(old)
        BY <2>7
      <4>2. k < at => k # at
        BY <1>5
      <4> QED
        BY <2>7, <4>1, <4>2
    <3>2. old[j].id \in Ids
      BY <1>5, BillIs
    <3>3. k < at => h.obj[old[j].id] = p.obj[old[j].id]
      <4>1. k < at => j # at
        BY <1>5, <3>1
      <4>2. j # at => old[j].id # o
        BY <1>3, <1>5 DEF Agree
      <4> QED
        BY <2>5, <3>2, <4>1, <4>2
    <3>4. ~used => h.obj[old[j].id].quan = p.obj[old[j].id].quan
      BY <2>5, <3>2
    <3>5. h.shop.bill[k] = p.shop.bill[j]
      BY <1>1, <2>5, <3>1
    <3>6. k < at => k \in 1..Len(old) /\ (Whole(p, k) => Whole(h, k))
      BY <1>1, <3>1, <3>3, <3>5 DEF Whole
    <3>7. ~used /\ Whole(p, j) => Whole(h, k)
      BY <1>1, <3>1, <3>4, <3>5 DEF Whole
    <3> QED
      BY <3>1, <3>6, <3>7
  <2> QED
    BY <1>1, <1>4, <2>5, <2>6, <2>8
<1> QED
  BY <1>8, <1>9

\* Where paying the bill of g has come to: nothing is lost.  Who pays all of it
\* begins with what is used up; what was looked at is whole then.
Fair(g, a, itemize) ==
  /\ Going(g, a) /\ Balance(a.g) = Balance(g)
  /\ ~itemize /\ ~a.over =>
       \A k \in 1..Len(a.g.shop.bill) : a.pass > 0 \/ k < a.at => Whole(a.g, k)

LEMMA PayEntryFair ==
  ASSUME ShopConstants, NEW itemize \in BOOLEAN, NEW yes, NEW g, NEW a, Fair(g, a, itemize),
         ~a.over, a.pass < 2, a.at \in 1..Len(a.g.shop.bill)
  PROVE  Fair(g, PayEntry(a, yes, itemize), itemize)
<1>1. PICK r : r = PayEntry(a, yes, itemize)
  OBVIOUS
<1>2. PICK w : w = a.g
  OBVIOUS
<1>3. PICK at \in 1..Len(w.shop.bill) : at = a.at
  BY <1>2
<1>4. PICK e : e = w.shop.bill[at]
  OBVIOUS
<1>5. PICK used \in BOOLEAN : used <=> a.pass = 0
  <2>1. (a.pass = 0) \in BOOLEAN
    OBVIOUS
  <2> QED
    BY <2>1, Zenon
<1>6. PICK have : have = IF e.useup THEN e.bquan ELSE w.obj[e.id].quan
  OBVIOUS
<1>7. PICK quan : quan = IF used /\ e.bquan > have THEN e.bquan - have ELSE have
  OBVIOUS
<1>8. /\ a \in [g : Worlds, pass : 0..2, at : Nat \ {0}, over : BOOLEAN]
      /\ Going(g, a) /\ Good(w) /\ w \in Worlds /\ w.shop.bill \in Seq(Entries)
      /\ Balance(w) = Balance(g)
  BY <1>2, GoodIs DEF Fair, Going, Settles, Good
<1>9. /\ e \in Entries /\ e.id \in Ids /\ e.bquan \in Nat \ {0} /\ e.useup \in BOOLEAN
      /\ e.price \in Nat /\ w.obj[e.id].quan \in Nat
  BY <1>4, <1>8, BillIs, CostIs, GoodIs
<1>10. have \in Nat /\ quan \in Nat /\ e.price * quan \in Nat /\ Wealth(w) \in Nat
  <2>1. have \in Nat
    BY <1>6, <1>9
  <2>2. quan \in Nat
    BY <1>7, <1>9, <2>1
  <2>3. e.price * quan \in Nat
    BY <1>9, <2>2
  <2> QED
    BY <1>8, <2>1, <2>2, <2>3, BalanceIs
<1>11. Looks(a, at, e, used, have, quan)
  BY <1>2, <1>3, <1>4, <1>5, <1>6, <1>7, <1>8 DEF Looks
<1>12. PICK n \in Nat : n = e.price * quan
  BY <1>10
<1>13. PICK p : p = pay(w, n)
  OBVIOUS
<1>14. PICK t : t = PaidOff(p, e, at, used, have, quan)
  OBVIOUS
<1>15. PICK skip : skip = Skip(a, e)
  OBVIOUS
<1>16. \/ r = [a EXCEPT !.at = @ + 1] /\ (~used <=> e.useup) /\ have = e.bquan
       \/ r = [a EXCEPT !.over = TRUE] /\ itemize
       \/ r = skip /\ itemize
       \/ r = [skip EXCEPT !.over = TRUE]
       \/ /\ r = [a EXCEPT !.g = t] /\ n <= Wealth(w) /\ Asks(w, at, e, used, have, quan)
          /\ itemize => used \/ ~(quan < e.bquan)
  <2>1. e.useup \in BOOLEAN /\ Wealth(a.g) \in Nat /\ e.price * quan \in Nat
    BY <1>2, <1>9, <1>10
  <2> QED
    BY <1>1, <1>2, <1>11, <1>12, <1>13, <1>14, <1>15, <2>1, PayEntryCases
<1>17. Going(g, r)
  BY <1>1, <1>8, PayEntryIs
<1>18. ~itemize => \A k \in 1..Len(w.shop.bill) : ~used \/ k < at => Whole(w, k)
  <2>1. a.pass \in 0..2
    BY <1>8
  <2>2. ~used => a.pass > 0
    BY <1>5, <2>1
  <2> QED
    BY <1>2, <1>3, <2>2 DEF Fair
<1>19. a.pass > 0 => ~used
  <2>1. a.pass > 0 => a.pass # 0
    OBVIOUS
  <2> QED
    BY <1>5, <2>1
<1>20. CASE r = [a EXCEPT !.at = @ + 1] /\ (~used <=> e.useup) /\ have = e.bquan
  <2>1. r.g = w /\ r.pass = a.pass /\ r.at = at + 1
    BY <1>2, <1>3, <1>8, <1>20
  <2>2. used => Whole(w, at)
    BY <1>4, <1>6, <1>20 DEF Whole
  <2>3. ASSUME NEW k \in 1..Len(w.shop.bill), ~itemize, r.pass > 0 \/ k < r.at
        PROVE  Whole(w, k)
    <3>1. k < at + 1 => k < at \/ k = at
      BY <1>3
    <3>2. CASE used
      BY <1>18, <1>19, <2>1, <2>2, <2>3, <3>1, <3>2
    <3>3. CASE ~used
      BY <1>18, <2>3, <3>3
    <3> QED
      BY <3>2, <3>3
  <2> QED
    BY <1>1, <1>8, <1>17, <2>1, <2>3 DEF Fair
<1>21. CASE r = [a EXCEPT !.over = TRUE] /\ itemize
  BY <1>1, <1>2, <1>8, <1>17, <1>21 DEF Fair
<1>22. Balance(skip.g) = Balance(g)
  <2>1. skip.g = [w EXCEPT !.obj[e.id].unpaid = TRUE]
    BY <1>2, <1>8, <1>15 DEF Skip
  <2>2. skip.g.shop = w.shop /\ skip.g.hero = w.hero
    BY <1>8, <2>1 DEF Worlds
  <2> QED
    BY <1>8, <2>2 DEF Balance, Wealth
<1>23. CASE r = skip /\ itemize
  BY <1>1, <1>17, <1>22, <1>23 DEF Fair
<1>24. CASE r = [skip EXCEPT !.over = TRUE]
  <2>1. r.g = skip.g /\ r.over = TRUE
    BY <1>8, <1>15, <1>24 DEF Skip
  <2> QED
    BY <1>1, <1>17, <1>22, <2>1 DEF Fair
<1>25. CASE /\ r = [a EXCEPT !.g = t] /\ n <= Wealth(w) /\ Asks(w, at, e, used, have, quan)
            /\ itemize => used \/ ~(quan < e.bquan)
  <2>1. r.g = t /\ r.pass = a.pass /\ r.at = at
    BY <1>3, <1>8, <1>25
  <2>2. Good(p) /\ Pays(w, p) /\ p.shop.debit = w.shop.debit /\ Wealth(p) = Wealth(w) - n
    <3>1. n \in Int /\ ~(n < 0)
      OBVIOUS
    <3> QED
      BY <1>8, <1>13, <1>25, <3>1, PayIs
  <2>3. p.shop.bill = w.shop.bill /\ p.obj = w.obj
    BY <2>2 DEF Pays
  <2>4. Asks(p, at, e, used, have, quan) /\ at \in 1..Len(p.shop.bill)
    BY <1>25, <2>3 DEF Asks
  <2>5. used \/ ~(quan < e.bquan)
    <3>1. ~itemize /\ ~used => Whole(w, at)
      BY <1>18
    <3>2. ~itemize /\ ~used => have = e.bquan
      BY <1>4, <1>6, <3>1 DEF Whole
    <3>3. ~itemize /\ ~used => quan = e.bquan
      BY <1>7, <3>2
    <3> QED
      BY <1>9, <1>25, <3>3
  <2>6. /\ Rebooked(p, t) /\ Due(t.shop.bill) = Due(p.shop.bill) - n
        /\ \A k \in 1..Len(t.shop.bill) :
             /\ k < at => k \in 1..Len(p.shop.bill) /\ (Whole(p, k) => Whole(t, k))
             /\ ~used /\ (\A j \in 1..Len(p.shop.bill) : Whole(p, j)) => Whole(t, k)
    BY <1>12, <1>14, <2>2, <2>4, <2>5, PaidOffFair
  <2>7. Balance(t) = Balance(g)
    <3>1. /\ Wealth(t) = Wealth(w) - n /\ t.shop.debit = w.shop.debit
          /\ Due(t.shop.bill) = Due(w.shop.bill) - n
      BY <2>2, <2>3, <2>6 DEF Rebooked
    <3>2. Wealth(w) \in Nat /\ w.shop.debit \in Nat /\ Due(w.shop.bill) \in Nat
      BY <1>8, BalanceIs
    <3>3. Balance(t) = Balance(w)
      BY <3>1, <3>2 DEF Balance
    <3> QED
      BY <1>8, <3>3
  <2>8. \A k \in 1..Len(p.shop.bill) : Whole(p, k) <=> Whole(w, k)
    BY <2>3 DEF Whole
  <2>9. ASSUME NEW k \in 1..Len(t.shop.bill), ~itemize, r.pass > 0 \/ k < r.at
        PROVE  Whole(t, k)
    <3>1. CASE ~used
      <4>1. \A j \in 1..Len(p.shop.bill) : Whole(p, j)
        BY <1>18, <2>3, <2>8, <2>9, <3>1
      <4> QED
        BY <2>6, <3>1, <4>1
    <3>2. CASE used
      <4>1. k < at
        BY <1>19, <2>1, <2>9, <3>2
      <4>2. k \in 1..Len(p.shop.bill)
        BY <2>6, <4>1
      <4>3. Whole(p, k)
        BY <1>18, <2>3, <2>8, <2>9, <4>1, <4>2
      <4> QED
        BY <2>6, <4>1, <4>3
    <3> QED
      BY <3>1, <3>2
  <2> QED
    BY <1>1, <1>17, <2>1, <2>7, <2>9 DEF Fair
<1> QED
  BY <1>16, <1>20, <1>21, <1>23, <1>24, <1>25

LEMMA PayStepFair ==
  ASSUME ShopConstants, NEW itemize \in BOOLEAN, NEW yes, NEW g, NEW a, Fair(g, a, itemize)
  PROVE  Fair(g, PayStep(a, yes, itemize), itemize)
<1>1. PICK r : r = PayStep(a, yes, itemize)
  OBVIOUS
<1>2. /\ a \in [g : Worlds, pass : 0..2, at : Nat \ {0}, over : BOOLEAN]
      /\ Going(g, a) /\ Len(a.g.shop.bill) \in Nat
  BY GoodIs DEF Fair, Going, Settles
<1>3. a.pass \in 0..2 /\ a.at \in Nat \ {0}
  BY <1>2
<1>4. CASE a.over \/ a.pass = 2
  <2>1. r = a
    BY <1>1, <1>3, <1>4 DEF PayStep
  <2> QED
    BY <1>1, <2>1
<1>5. CASE ~a.over /\ a.pass < 2 /\ a.at > Len(a.g.shop.bill)
  <2>1. a.pass # 2 /\ ~(a.at <= Len(a.g.shop.bill))
    BY <1>2, <1>3, <1>5
  <2>2. r = [a EXCEPT !.pass = @ + 1, !.at = 1]
    BY <1>1, <1>5, <2>1 DEF PayStep
  <2>3. r.g = a.g /\ r.over = a.over
    BY <1>2, <2>2
  <2>4. ~itemize => \A k \in 1..Len(a.g.shop.bill) : Whole(a.g, k)
    <3>1. \A k \in 1..Len(a.g.shop.bill) : k < a.at
      BY <1>2, <1>3, <1>5
    <3> QED
      BY <1>5, <3>1 DEF Fair
  <2>5. Going(g, r)
    BY <1>1, <1>2, PayStepIs
  <2>6. ~itemize => \A k \in 1..Len(r.g.shop.bill) : Whole(r.g, k)
    BY <2>3, <2>4
  <2> QED
    BY <1>1, <2>3, <2>5, <2>6 DEF Fair
<1>6. CASE ~a.over /\ a.pass < 2 /\ a.at <= Len(a.g.shop.bill)
  <2>1. a.pass # 2 /\ ~(a.at > Len(a.g.shop.bill)) /\ a.at \in 1..Len(a.g.shop.bill)
    BY <1>2, <1>3, <1>6
  <2>2. r = PayEntry(a, yes, itemize)
    BY <1>1, <1>6, <2>1 DEF PayStep
  <2> QED
    BY <1>1, <1>6, <2>1, <2>2, PayEntryFair
<1>7. a.pass = 2 \/ a.pass < 2
  BY <1>3
<1>8. a.at <= Len(a.g.shop.bill) \/ a.at > Len(a.g.shop.bill)
  BY <1>2, <1>3
<1> QED
  BY <1>4, <1>5, <1>6, <1>7, <1>8

LEMMA PayBillFair ==
  ASSUME ShopConstants, NEW g, Good(g), NEW itemize \in BOOLEAN, NEW yes
  PROVE  Balance(PayBill(g, yes, itemize)) = Balance(g)
<1> DEFINE States == [g : Worlds, pass : 0..2, at : Nat \ {0}, over : BOOLEAN]
           base == [g |-> g, pass |-> 0, at |-> 1, over |-> FALSE]
<1>1. PICK D : D = {q \in States : Fair(g, q, itemize)}
  OBVIOUS
<1>2. base \in D
  <2>1. g \in Worlds /\ Settles(g, g) /\ Len(g.shop.bill) \in Nat
    BY SettlesItself, GoodIs DEF Good
  <2>2. base \in States
    BY <2>1
  <2>3. base.g = g /\ base.pass = 0 /\ base.at = 1
    OBVIOUS
  <2>4. \A k \in 1..Len(g.shop.bill) : ~(0 > 0 \/ k < 1)
    BY <2>1
  <2> HIDE DEF base
  <2>5. Going(g, base)
    BY <2>1, <2>2, <2>3 DEF Going
  <2>6. Fair(g, base, itemize)
    BY <2>3, <2>4, <2>5 DEF Fair
  <2> QED
    BY <1>1, <2>2, <2>6
<1>3. ASSUME NEW q \in D PROVE PayStep(q, yes, itemize) \in D
  <2>1. PICK r : r = PayStep(q, yes, itemize)
    OBVIOUS
  <2>2. Fair(g, q, itemize)
    BY <1>1
  <2>3. Fair(g, r, itemize)
    BY <2>1, <2>2, PayStepFair
  <2>4. r \in States
    BY <2>3 DEF Fair, Going
  <2> QED
    BY <1>1, <2>1, <2>3, <2>4
<1>4. \A q \in D : Balance(q.g) = Balance(g)
  BY <1>1 DEF Fair
<1>5. BILLSZ \in Nat
  BY DEF ShopConstants
<1>6. \E q \in D : PayBill(g, yes, itemize) = q.g
  BY <1>2, <1>3, <1>5, PayBillSteps
<1> QED
  BY <1>4, <1>6

LEMMA PayDebtsFair ==
  ASSUME ShopConstants, NEW g, Good(g), NEW itemize \in BOOLEAN, NEW yes
  PROVE  Balance(PayDebts(g, yes, itemize)) = Balance(g)
<1>1. PICK d : d = IF g.shop.debit > 0 THEN PayDebit(g) ELSE g
  OBVIOUS
<1>2. CASE Wealth(g) < g.shop.debit
  BY <1>2 DEF PayDebts
<1>3. CASE ~(Wealth(g) < g.shop.debit)
  <2>1. Wealth(g) \in Nat /\ g.shop.debit \in Nat /\ Due(g.shop.bill) \in Nat
    BY BalanceIs
  <2>2. Good(d) /\ Balance(d) = Balance(g)
    <3>1. CASE g.shop.debit > 0
      <4>1. g.shop.debit <= Wealth(g)
        BY <1>3, <2>1
      <4>2. /\ Settles(g, d) /\ Pays(g, d) /\ d.shop.debit = 0
            /\ Wealth(d) = Wealth(g) - g.shop.debit
        BY <1>1, <3>1, <4>1, PayDebitIs
      <4>3. Good(d) /\ d.shop.bill = g.shop.bill
        BY <4>2 DEF Settles, Pays
      <4> QED
        BY <2>1, <4>2, <4>3 DEF Balance
    <3>2. CASE ~(g.shop.debit > 0)
      BY <1>1, <3>2
    <3> QED
      BY <3>1, <3>2
  <2>3. Balance(PayBill(d, yes, itemize)) = Balance(d)
    BY <2>2, PayBillFair
  <2>4. PayDebts(g, yes, itemize) \in {d, PayBill(d, yes, itemize)}
    BY <1>1, <1>3 DEF PayDebts
  <2> QED
    BY <2>2, <2>3, <2>4
<1> QED
  BY <1>2, <1>3

\* Where the owner is not angry and was not robbed, only debts are paid.
LEMMA DoPayFair ==
  ASSUME ShopConstants, NEW g, Good(g), ~g.shop.angry, g.shop.robbed = 0,
         NEW itemize \in BOOLEAN, NEW luck \in BOOLEAN, NEW yes
  PROVE  Balance(dopay(g, yes, itemize, luck)) = Balance(g)
<1>1. PICK h : h = dopay(g, yes, itemize, luck)
  OBVIOUS
<1>2. ~g.shop.surcharge
  BY DEF Good, Worlds, Shops
<1>3. Keeper(g) = g
  BY <1>2 DEF Keeper
<1>4. PICK d : d = PayDebts(g, yes, itemize)
  OBVIOUS
<1>5. PICK w : w = Impossible(g, "paying with inactive bill")
  OBVIOUS
<1>6. PICK p : p = PaidRobbed(g)
  OBVIOUS
<1>7. PICK q : q = pay(g, Ransom)
  OBVIOUS
<1>8. h = CASE g.shop.bill_inactive -> w
            [] ~g.shop.bill_inactive /\ ~Resident(g) /\ ~g.shop.angry ->
                 IF g.shop.robbed = 0 \/ g.hero.purse = 0 THEN g
                 ELSE IF ~Poor(g) THEN make_happy_shk(p) ELSE p
            [] ~g.shop.bill_inactive /\ (Resident(g) \/ g.shop.angry) /\ Settled(g) ->
                 IF g.shop.robbed > 0
                 THEN IF g.shop.robbed = 0 \/ Poor(g) THEN g
                      ELSE IF ~Poor(g) THEN make_happy_shk(p) ELSE p
                 ELSE IF ~g.shop.angry \/ g.hero.purse < Ransom THEN g
                      ELSE IF luck THEN make_happy_shk(q) ELSE q
            [] ~g.shop.bill_inactive /\ ~Resident(g) /\ g.shop.angry /\ ~Settled(g) ->
                 Impossible(g, "not to shopkeeper")
            [] ~g.shop.bill_inactive /\ Resident(g) /\ ~Settled(g) -> d
  BY <1>1, <1>3, <1>4, <1>5, <1>6, <1>7 DEF dopay, Resident, AtHome
<1>9. h = w \/ h = g \/ h = d
  <2>1. CASE g.shop.bill_inactive
    BY <1>8, <2>1
  <2>2. CASE ~g.shop.bill_inactive /\ ~Resident(g)
    BY <1>8, <2>2
  <2>3. CASE ~g.shop.bill_inactive /\ Resident(g) /\ Settled(g)
    <3>1. ~(g.shop.robbed > 0)
      OBVIOUS
    <3> QED
      BY <1>8, <2>3, <3>1
  <2>4. CASE ~g.shop.bill_inactive /\ Resident(g) /\ ~Settled(g)
    BY <1>8, <2>4
  <2> QED
    BY <2>1, <2>2, <2>3, <2>4
<1>10. Balance(w) = Balance(g)
  <2>1. w.shop = g.shop /\ w.hero = g.hero
    BY <1>5 DEF Impossible, Good, Worlds
  <2> QED
    BY <2>1 DEF Balance, Wealth
<1>11. Balance(d) = Balance(g)
  BY <1>4, PayDebtsFair
<1> QED
  BY <1>1, <1>9, <1>10, <1>11

\* PayingIsFair: whichever entries and parts of entries of the bill are paid, and
\* whatever is owed for gold and for use, the player gives for it what it is worth.
THEOREM PayingIsAlwaysFair == ASSUME ShopConstants PROVE ShopSpec => PayingIsFair
<1>1. ASSUME ShopInv, ~shop.angry, shop.robbed = 0, Paying PROVE Account' = Account
  <2>1. PICK g : g = Now
    OBVIOUS
  <2>2. Good(g) /\ g.shop = shop /\ g.hero = hero
    BY <1>1, <2>1 DEF ShopInv, Ends, Fine, Now
  <2>3. PICK yes : \E itemize \in BOOLEAN, luck \in BOOLEAN : Pay(yes, itemize, luck)
    BY <1>1, Zenon DEF Paying
  <2>4. PICK itemize \in BOOLEAN, luck \in BOOLEAN : Pay(yes, itemize, luck)
    BY <2>3
  <2>5. PICK h : h = dopay(g, yes, itemize, luck)
    OBVIOUS
  <2>6. shop' = h.shop /\ hero' = h.hero
    BY <2>1, <2>4, <2>5 DEF Pay, Becomes
  <2>7. Balance(h) = Balance(g)
    BY <1>1, <2>2, <2>5, DoPayFair
  <2>8. Good(h)
    BY <1>1, <2>1, <2>5, DoPayIs DEF ShopInv, Ends, Fine
  <2>9. Account = Balance(g)
    <3>1. /\ g.hero.purse \in Nat /\ g.shop.credit \in Nat /\ g.shop.debit \in Nat
          /\ Due(g.shop.bill) \in Nat
      BY <2>2, GoodIs, BalanceIs
    <3>2. Account = g.hero.purse + g.shop.credit - g.shop.debit - Due(g.shop.bill)
      BY <2>2, Zenon DEF Account
    <3> QED
      BY <3>1, <3>2 DEF Balance, Wealth
  <2>10. Account' = Balance(h)
    <3>1. /\ h.hero.purse \in Nat /\ h.shop.credit \in Nat /\ h.shop.debit \in Nat
          /\ Due(h.shop.bill) \in Nat
      BY <2>8, GoodIs, BalanceIs
    <3>2. Account' = h.hero.purse + h.shop.credit - h.shop.debit - Due(h.shop.bill)
      BY <2>6, Zenon DEF Account
    <3> QED
      BY <3>1, <3>2 DEF Balance, Wealth
  <2> QED
    BY <2>7, <2>9, <2>10
<1>2. ShopInv =>
        (~shop.angry /\ shop.robbed = 0 /\ Account' # Account => ~Paying)
  BY <1>1
<1> QED
  BY <1>2, ShopInvariance, PTL DEF PayingIsFair
===============================================================================
