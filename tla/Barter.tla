------------------------------- MODULE Barter ------------------------------
(***************************************************************************)
(* Trade with somebody who does not travel with the player (inventory.cc,  *)
(* game_dialog.cc). The trader's gear is put aside and what he hides goes  *)
(* into a box; both sides lay goods on a table each; an accepted offer     *)
(* swaps the tables. The player may trade for a companion: the left pane   *)
(* is switched, and a list remembers which object was offered by whom. In  *)
(* the model every object carries its own entries of that list.            *)
(***************************************************************************)
EXTENDS Goods

CONSTANTS
  Kept,      \* sets of kinds a script may refuse to have moved
  MaxOffers  \* bound: how often one object is offered

VARIABLE gear \* the trader's armor, the weapon in his hand, the weapon he carries

vars == <<goods, gear>>

NoGear == [armor |-> <<>>, hand |-> <<>>, carried |-> <<>>]
BarterInit == Init /\ gear = NoGear

At(b, i) == IF i = 0 THEN <<>> ELSE <<Leaving(b[i], 1)>>
Off(b, i) == IF i = 0 THEN b ELSE Without(b, i, 1)
Hidden(s) == Is("claws", s)
AllAdded(b, stacks) == FoldLeft(Added, b, stacks)

\* barterProcessUI until its loop, _setup_inventory with it.
OpenTrade ==
  LET pack == bag[Trader]
      noArmor == Off(pack, Worn(pack, "armor"))
      armed == Worn(noArmor, "right") # 0
      carried == IF armed THEN 0 ELSE SelectInSeq(noArmor, LAMBDA s : Is("gun", s))
      bare == Off(Off(noArmor, Worn(noArmor, "right")), carried)
  IN /\ screen = "world" /\ screen' = "trade"
     /\ gear' = [armor |-> At(pack, Worn(pack, "armor")), hand |-> At(noArmor, Worn(noArmor, "right")),
                 carried |-> At(noArmor, carried)]
     /\ slot' = Stripped(bag[Dude])
     /\ bag' = [bag EXCEPT ![Dude] = Bare(@), !["box"] = AllAdded(@, SelectSeq(bare, Hidden)),
                           ![Trader] = SelectSeq(bare, LAMBDA s : ~Hidden(s))]
     /\ UNCHANGED <<base, pane, fired>>

\* barterMoveToTable, from the left pane: the object's source is recorded.
Offer(i, q) ==
  /\ screen = "trade" /\ i \in DOMAIN List /\ q \in 1..List[i].n /\ Len(List[i].from) < MaxOffers
  /\ bag' = [bag EXCEPT ![pane] = Without(@, i, q),
       !["offer"] = Added(@, [Leaving(List[i], q) EXCEPT !.from = Append(@, pane)])]
  /\ UNCHANGED <<slot, base, pane, screen, fired, gear>>
\* barterMoveFromTable, to the left pane: the object's first entry is dropped.
TakeBack(i, q) ==
  LET s == bag["offer"][i] IN
  /\ screen = "trade" /\ i \in DOMAIN bag["offer"] /\ q \in 1..s.n
  /\ bag' = [bag EXCEPT !["offer"] = Without(@, i, q),
       ![pane] = Added(@, [Leaving(s, q) EXCEPT !.from = IF @ = <<>> THEN @ ELSE Tail(@)])]
  /\ UNCHANGED <<slot, base, pane, screen, fired, gear>>

\* Both between the trader and his table.
Moved(from, to, i, q) ==
  /\ screen = "trade" /\ i \in DOMAIN bag[from] /\ q \in 1..bag[from][i].n
  /\ bag' = [bag EXCEPT ![from] = Without(@, i, q), ![to] = Added(@, Leaving(bag[from][i], q))]
  /\ UNCHANGED <<slot, base, pane, screen, fired, gear>>
Request(i, q) == Moved(Trader, "want", i, q)
PutBack(i, q) == Moved("want", Trader, i, q)

\* barterAttemptTransaction, whose weights and prices may or may not fit: what no script
\* keeps changes hands, from the lists' ends.
Transact(kept) ==
  LET goes(t) == Reverse(SelectSeq(bag[t], LAMBDA s : s.kind \notin kept))
      stays(t) == SelectSeq(bag[t], LAMBDA s : s.kind \in kept)
  IN /\ screen = "trade" /\ bag["offer"] # <<>>
     /\ bag' = [bag EXCEPT ![Dude] = AllAdded(@, goes("want")), !["want"] = stays("want"),
                           ![Trader] = AllAdded(@, goes("offer")), !["offer"] = stays("offer")]
     /\ UNCHANGED <<slot, base, pane, screen, fired, gear>>

\* inventorySetLeftPaneCritter
SwitchPane(c) ==
  /\ screen = "trade" /\ c \in {Dude, Pal} \ {base}
  /\ LET dressed == [bag EXCEPT ![base] = Dressed(@, slot)] IN
     slot' = Stripped(dressed[c]) /\ bag' = [dressed EXCEPT ![c] = Bare(@)]
  /\ base' = c /\ pane' = c
  /\ UNCHANGED <<screen, fired, gear>>

\* Mutant: the weapon is given back, not wielded.
RearmedLoose(b) ==
  LET held(p, worn) == IF gear[p] = <<>> THEN <<>> ELSE <<[gear[p][1] EXCEPT !.worn = worn]>>
  IN AllAdded(b, bag["box"] \o held("hand", "") \o held("armor", "armor") \o gear.carried)
\* After the loop: the box, the weapon and the armor are the trader's again.
Rearmed(b) ==
  LET held(p, worn) == IF gear[p] = <<>> THEN <<>> ELSE <<[gear[p][1] EXCEPT !.worn = worn]>>
  IN AllAdded(b, bag["box"] \o held("hand", "right") \o held("armor", "armor") \o gear.carried)

\* The window closes with these inventories; the list of sources is gone.
Closed(bs) ==
  /\ screen' = "world" /\ gear' = NoGear /\ slot' = NoSlots /\ base' = Dude /\ pane' = Dude
  /\ bag' = [h \in Holders |-> [i \in DOMAIN bs[h] |-> [bs[h][i] EXCEPT !.from = <<>>]]]
  /\ UNCHANGED fired
\* _exit_inventory and what is done before it.
Put(bs) == [bs EXCEPT ![Trader] = Rearmed(@), !["box"] = <<>>, ![base] = Dressed(@, slot)]
\* Mutant: the trader's table is given back but not cleared.
OfferEmptied(bs) == [bs EXCEPT !["offer"] = <<>>]
Emptied(bs) == [bs EXCEPT !["offer"] = <<>>, !["want"] = <<>>]

\* Back to the talk: every offer to the first source recorded for its object.
Talk ==
  LET source(s) == IF s.from = <<>> THEN Dude ELSE Head(s.from)
      given == FoldLeft(LAMBDA bs, s : [bs EXCEPT ![source(s)] = Added(@, s)],
                        [bag EXCEPT ![Trader] = AllAdded(@, bag["want"])], bag["offer"])
  IN screen = "trade" /\ Closed(Put(Emptied(given)))

\* Escape: gameDialogBarterCleanupTables gives what lies there to the player and the trader.
Leave ==
  LET put == Put(bag) IN
  /\ screen = "trade"
  /\ Closed(Emptied([put EXCEPT ![Dude] = AllAdded(@, bag["offer"]), ![Trader] = AllAdded(@, bag["want"])]))

InTrade ==
  \/ OpenTrade \/ Talk \/ Leave
  \/ \E kept \in Kept : Transact(kept)
  \/ \E c \in {Dude, Pal} : SwitchPane(c)
  \/ \E i \in DOMAIN List : \E q \in 1..List[i].n : Offer(i, q)
  \/ \E i \in DOMAIN bag["offer"] : \E q \in 1..bag["offer"][i].n : TakeBack(i, q)
  \/ \E i \in DOMAIN bag[Trader] : \E q \in 1..bag[Trader][i].n : Request(i, q)
  \/ \E i \in DOMAIN bag["want"] : \E q \in 1..bag["want"][i].n : PutBack(i, q)

AtHome == (InPack \/ \E c \in People : InWorld(c)) /\ UNCHANGED gear
Next == AtHome \/ InTrade
Spec == BarterInit /\ [][Next]_vars

-----------------------------------------------------------------------------
(* Properties                                                               *)

Aside == slot["left"] \o slot["right"] \o slot["armor"] \o gear.armor \o gear.hand \o gear.carried
Everything == FoldSet(LAMBDA h, all : all \o bag[h], Aside, Holders)
Totals ==
  LET all == Everything
      Total(worth(_)) == FoldLeft(LAMBDA sum, s : sum + worth(s), 0, all)
  IN [guns |-> Total(LAMBDA s : IF Is("gun", s) THEN s.n ELSE 0),
      clips |-> Total(LAMBDA s : IF Is("clip", s) THEN s.n ELSE 0),
      other |-> Total(LAMBDA s : IF s.kind \in {"vest", "sack", "claws"} THEN s.n ELSE 0),
      rounds |-> fired + Total(LAMBDA s : CASE Is("clip", s) -> (s.n - 1) * Cap + s.rounds
                                            [] Is("gun", s) -> s.n * s.rounds
                                            [] OTHER -> 0)]

TypeOK ==
  /\ \A s \in Range(Everything) :
       /\ s.n > 0 /\ s.rounds >= 0
       /\ Is("clip", s) => s.rounds \in 1..Cap
       /\ Is("gun", s) => s.rounds <= Mag
  /\ screen \in {"world", "pack", "trade"} /\ base \in {Dude, Pal} /\ pane \in {base, "sack"}

\* No gun, armor or sack is lost or made, and no round is (clips are, by loading and
\* unloading), whatever is carried, merged, loaded, offered, taken back or sold
\* (itemAdd, itemRemoveInternal, _drop_ammo_into_weapon).
NothingLost(before) ==
  LET after == Totals
  IN after.guns = before.guns /\ after.other = before.other /\ after.rounds = before.rounds

\* Nobody holds two things in one hand, and only one object is held, so that a stack does
\* not share one gun's rounds (inventoryEquipFunc).
OneInHand ==
  \A c \in People : \A i, j \in DOMAIN bag[c] :
    /\ bag[c][i].worn # "" => bag[c][i].n = 1
    /\ bag[c][i].worn = bag[c][j].worn /\ i # j => bag[c][i].worn = ""

\* Outside of a trade the tables and the box are empty, nothing is put aside, and nobody
\* else has what the trader hides (barterProcessUI, gameDialogBarterCleanupTables).
TradeEnds ==
  screen = "world" =>
    /\ bag["offer"] = <<>> /\ bag["want"] = <<>> /\ bag["box"] = <<>> /\ Aside = <<>>
    /\ \A h \in Holders \ {Trader} : \A i \in DOMAIN bag[h] : ~Hidden(bag[h][i])

\* Whatever was sold, the trader leaves the table as armed as he came: what he wielded and
\* wore is again in its place, once, with its rounds (barterProcessUI).
TraderRearmed ==
  [][screen = "trade" /\ screen' = "world" =>
       \A p \in {"hand", "armor"} : LET worn == IF p = "hand" THEN "right" ELSE "armor" IN
         gear[p] # <<>> =>
           \E i \in DOMAIN bag'[Trader] : LET s == bag'[Trader][i] IN
             s.worn = worn /\ s.kind = gear[p][1].kind /\ s.rounds = gear[p][1].rounds]_vars
=============================================================================
