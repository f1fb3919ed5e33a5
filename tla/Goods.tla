------------------------------- MODULE Goods -------------------------------
(***************************************************************************)
(* Items and who carries them (item.cc, inventory.cc). An inventory is a   *)
(* list of stacks; a stack is one object and a count, so that a pile of    *)
(* clips knows the rounds of one clip only, the others being full. Adding  *)
(* to a stack keeps the new object and destroys the old one; taking a part *)
(* moves the object away and leaves a copy of it.                          *)
(*                                                                         *)
(* A window takes what its critter holds and wears off the list, into      *)
(* variables of its own, and puts it back when it closes.                  *)
(***************************************************************************)
EXTENDS Integers, SequencesExt

CONSTANTS
  Dude, Pal, Trader,
  Cap,      \* rounds in a clip
  Mag,      \* rounds in a gun
  Starts    \* what everybody may carry at first

People == {Dude, Pal, Trader}
Holders == People \cup {"sack", "offer", "want", "box"}
Places == <<"left", "right", "armor">>
Hands == {"left", "right"}

VARIABLES
  bag,      \* the stacks of every holder
  slot,     \* at most one stack each: gInventoryLeftHandItem and its like
  base,     \* _stack[0], the critter in the left pane
  pane,     \* _inven_dude: it, or the sack that is looked into
  screen,   \* "world", "pack" or "trade"
  fired     \* rounds

goods == <<bag, slot, base, pane, screen, fired>>

NoSlots == [p \in {"left", "right", "armor"} |-> <<>>]

Init ==
  /\ bag \in Starts /\ slot = NoSlots /\ base = Dude /\ pane = Dude
  /\ screen = "world" /\ fired = 0

-----------------------------------------------------------------------------
(* Stacks: [kind, n, rounds, worn, from]                                    *)

Is(kind, s) == s.kind = kind
\* _item_identical: clips whatever their rounds, guns with as many, no containers.
Identical(old, new) ==
  /\ old.kind = new.kind /\ old.kind # "sack" /\ old.worn = "" /\ new.worn = ""
  /\ old.kind = "gun" => old.rounds = new.rounds

\* Mutant: the clip that is added keeps what both had together (M-75 in item.cc).
MergedTwice(old, new) ==
  IF new.kind # "clip" THEN [new EXCEPT !.n = old.n + new.n]
  ELSE LET sum == old.rounds + new.rounds IN
       [new EXCEPT !.rounds = IF sum > Cap THEN Cap ELSE sum,
                   !.n = (IF sum > Cap THEN old.n + 1 ELSE old.n) + new.n - 1]
Merged(old, new) ==
  IF new.kind # "clip" THEN [new EXCEPT !.n = old.n + new.n]
  ELSE LET sum == old.rounds + new.rounds IN
       [new EXCEPT !.rounds = IF sum > Cap THEN sum - Cap ELSE sum,
                   !.n = (IF sum > Cap THEN old.n + 1 ELSE old.n) + new.n - 1]
\* itemAdd
Added(b, s) ==
  LET i == SelectInSeq(b, LAMBDA o : Identical(o, s)) IN
  IF i = 0 THEN Append(b, s) ELSE [b EXCEPT ![i] = Merged(@, s)]

\* itemRemove: what leaves, and the copy that stays.
Leaving(s, q) == [s EXCEPT !.n = q, !.worn = ""]
Staying(s, q) ==
  [s EXCEPT !.n = @ - q, !.rounds = IF s.kind = "clip" THEN Cap ELSE @, !.from = <<>>]
Without(b, i, q) ==
  IF q = b[i].n THEN RemoveAt(b, i) ELSE [b EXCEPT ![i] = Staying(@, q)]

\* critterGetItem1, critterGetItem2, critterGetArmor: 0 if there is none.
Worn(b, p) == SelectInSeq(b, LAMBDA s : s.worn = p)
\* critterStripEquipped, _setup_inventory: one object from every place.
Stripped(b) ==
  [p \in DOMAIN NoSlots |-> IF Worn(b, p) = 0 THEN <<>> ELSE <<Leaving(b[Worn(b, p)], 1)>>]
Bare(b) ==
  FoldLeft(LAMBDA c, p : IF Worn(c, p) = 0 THEN c ELSE Without(c, Worn(c, p), 1), b, Places)
\* critterRestoreEquipped, _exit_inventory
Dressed(b, held) ==
  FoldLeft(LAMBDA c, p : IF held[p] = <<>> THEN c ELSE Added(c, [held[p][1] EXCEPT !.worn = p]),
           b, Places)

-----------------------------------------------------------------------------
(* weaponReload and the loops around it                                     *)

\* Rounds left in the clip, rounds then in the gun.
Remains(gun, clip) ==
  IF gun.rounds = Mag THEN clip.rounds
  ELSE IF gun.rounds + clip.rounds > Mag THEN clip.rounds - (Mag - gun.rounds) ELSE 0
Filled(gun, clip) ==
  [gun EXCEPT !.rounds = IF @ + clip.rounds > Mag THEN Mag ELSE @ + clip.rounds]
\* An emptied clip leaves the list before it is destroyed.
Used(b, i, left) == IF left = 0 THEN Without(b, i, 1) ELSE [b EXCEPT ![i].rounds = left]

Clip(b) == SelectInSeq(b, LAMBDA s : Is("clip", s))
CanReload(b) ==
  LET g == Worn(b, "right") IN
  g # 0 /\ Is("gun", b[g]) /\ b[g].rounds < Mag /\ Clip(b) # 0
\* One turn of weaponAttemptReload; the gun is in the list, in its hand.
ReloadedOnce(b) ==
  LET g == Worn(b, "right") IN
  Used([b EXCEPT ![g] = Filled(@, b[Clip(b)])], Clip(b), Remains(b[g], b[Clip(b)]))
\* _intface_item_reload, aiAttemptWeaponReload: until the gun is full or the clips end.
Reloaded(b) ==
  LET turn[k \in 0..Mag] ==
        IF k = 0 THEN b
        ELSE IF CanReload(turn[k - 1]) THEN ReloadedOnce(turn[k - 1]) ELSE turn[k - 1]
  IN turn[Mag]

\* _drop_ammo_into_weapon, from the list: the clip that follows is whatever the same
\* button shows, counted from the list's end, although the gun may have left the list.
Filling(gun, b, i, button, q) ==
  LET turn[k \in 0..q] ==
        IF k = 0 THEN [gun |-> gun, b |-> b, at |-> i]
        ELSE LET was == turn[k - 1] IN
             IF was.at < 1 \/ ~Is("clip", was.b[was.at]) THEN [was EXCEPT !.at = 0]
             ELSE LET clip == was.b[was.at]
                      rest == Used(was.b, was.at, Remains(was.gun, clip))
                  IN [gun |-> Filled(was.gun, clip), b |-> rest,
                      at |-> IF Remains(was.gun, clip) = 0 THEN Len(rest) - button ELSE 0]
  IN turn[q]

\* The context menu's loop around weaponUnload.
Unloaded(b, gun) ==
  LET turn[k \in 0..Mag] ==
        IF k = 0 THEN [b |-> b, gun |-> gun]
        ELSE LET was == turn[k - 1]
                 r == IF was.gun.rounds <= Cap THEN was.gun.rounds ELSE Cap
             IN IF r = 0 THEN was
                ELSE [b |-> Added(was.b, [kind |-> "clip", n |-> 1, rounds |-> r,
                                          worn |-> "", from |-> <<>>]),
                      gun |-> [was.gun EXCEPT !.rounds = @ - r]]
  IN turn[Mag]

-----------------------------------------------------------------------------
(* In the world                                                             *)

LetGo(b) == IF Worn(b, "right") = 0 THEN b ELSE [b EXCEPT ![Worn(b, "right")].worn = ""]
\* What was in the hand is let go, though it be the object itself; one object of the
\* stack is taken out and added in the hand.
Wielded(b, i) ==
  LET free == LetGo(b)
      hand == IF b[i].worn = "right" THEN "" ELSE "right"
  IN Added(Without(free, i, 1), [Leaving(free[i], 1) EXCEPT !.worn = hand])

\* inventoryEquipFunc, for the right hand; a script may refuse it.
Wield(c, i) ==
  /\ screen = "world" /\ i \in DOMAIN bag[c] /\ Is("gun", bag[c][i]) /\ bag[c][i].worn # "left"
  /\ bag' = [bag EXCEPT ![c] = Wielded(@, i)]
  /\ UNCHANGED <<slot, base, pane, screen, fired>>

\* inventoryUnequipFunc: the object stays where it is.
Unwield(c) ==
  /\ screen = "world" /\ Worn(bag[c], "right") # 0
  /\ bag' = [bag EXCEPT ![c] = LetGo(@)]
  /\ UNCHANGED <<slot, base, pane, screen, fired>>

Reload(c) ==
  /\ screen = "world" /\ CanReload(bag[c])
  /\ bag' = [bag EXCEPT ![c] = Reloaded(@)]
  /\ UNCHANGED <<slot, base, pane, screen, fired>>

\* _combat_anim_finished
Fire(c) ==
  LET g == Worn(bag[c], "right") IN
  /\ screen = "world" /\ g # 0 /\ Is("gun", bag[c][g]) /\ bag[c][g].rounds > 0
  /\ bag' = [bag EXCEPT ![c][g].rounds = @ - 1]
  /\ fired' = fired + 1
  /\ UNCHANGED <<slot, base, pane, screen>>

-----------------------------------------------------------------------------
(* In the inventory window                                                  *)

OpenPack ==
  /\ screen = "world" /\ screen' = "pack"
  /\ slot' = Stripped(bag[Dude]) /\ bag' = [bag EXCEPT ![Dude] = Bare(@)]
  /\ UNCHANGED <<base, pane, fired>>

ClosePack ==
  /\ screen = "pack" /\ screen' = "world"
  /\ bag' = [bag EXCEPT ![base] = Dressed(@, slot)]
  /\ slot' = NoSlots /\ pane' = base
  /\ UNCHANGED <<base, fired>>

\* _container_enter, _container_exit
LookIn ==
  /\ screen # "world" /\ pane = base /\ \E i \in DOMAIN bag[base] : Is("sack", bag[base][i])
  /\ pane' = "sack" /\ UNCHANGED <<bag, slot, base, screen, fired>>
LookOut ==
  /\ screen # "world" /\ pane # base
  /\ pane' = base /\ UNCHANGED <<bag, slot, base, screen, fired>>

List == bag[pane]
Relisted(b) == bag' = [bag EXCEPT ![pane] = b]

\* What is dropped on a hand goes into the sack or the gun it holds rather than in its
\* place.
Holds(h, kind) == slot[h] # <<>> /\ Is(kind, slot[h][1])
Displaces(s, h) == ~Holds(h, "sack") /\ ~(Is("clip", s) /\ Holds(h, "gun"))

\* _switch_hand, from the list. What the hand held goes to the critter, not to the sack.
TakeInHand(i, h) ==
  /\ screen = "pack" /\ i \in DOMAIN List /\ Displaces(List[i], h)
  /\ LET left == [bag EXCEPT ![pane] = Without(@, i, 1)] IN
     bag' = IF slot[h] = <<>> THEN left ELSE [left EXCEPT ![base] = Added(@, slot[h][1])]
  /\ slot' = [slot EXCEPT ![h] = <<Leaving(List[i], 1)>>]
  /\ UNCHANGED <<base, pane, screen, fired>>

\* _switch_hand, from another slot: they change places, unless that would put something
\* else in the armor's.
ChangeHands(p, h) ==
  /\ screen = "pack" /\ p # h /\ slot[p] # <<>> /\ Displaces(slot[p][1], h)
  /\ IF slot[h] # <<>> /\ p = "armor" /\ ~Holds(h, "vest")
     THEN /\ slot' = [slot EXCEPT ![h] = slot[p], ![p] = <<>>]
          /\ bag' = [bag EXCEPT ![base] = Added(@, slot[h][1])]
     ELSE slot' = [slot EXCEPT ![h] = slot[p], ![p] = slot[h]] /\ bag' = bag
  /\ UNCHANGED <<base, pane, screen, fired>>

\* _inven_pickup, onto the armor's slot, from the list or from a hand.
Wear(i) ==
  /\ screen = "pack" /\ i \in DOMAIN List /\ Is("vest", List[i])
  /\ slot' = [slot EXCEPT !["armor"] = <<Leaving(List[i], 1)>>]
  /\ Relisted(LET left == Without(List, i, 1) IN
              IF slot["armor"] = <<>> THEN left ELSE Added(left, slot["armor"][1]))
  /\ UNCHANGED <<base, pane, screen, fired>>
WearFromHand(h) ==
  /\ screen = "pack" /\ Holds(h, "vest")
  /\ slot' = [slot EXCEPT !["armor"] = slot[h], ![h] = slot["armor"]]
  /\ UNCHANGED <<bag, base, pane, screen, fired>>

\* _inven_pickup, from a slot into the list that is shown.
PutAway(p) ==
  /\ screen = "pack" /\ slot[p] # <<>>
  /\ slot' = [slot EXCEPT ![p] = <<>>] /\ Relisted(Added(List, slot[p][1]))
  /\ UNCHANGED <<base, pane, screen, fired>>

\* _drop_into_container: into the sack, or out of it onto who carries it. What is too
\* heavy goes back to the list's end.
Into == IF pane = "sack" THEN base ELSE "sack"
SackNear ==
  \/ pane = "sack" \/ \E h \in Hands : Holds(h, "sack")
  \/ \E i \in DOMAIN List : Is("sack", List[i])
PutIn(i, q) ==
  /\ screen = "pack" /\ SackNear /\ i \in DOMAIN List /\ ~Is("sack", List[i]) /\ q \in 1..List[i].n
  /\ \E fits \in BOOLEAN :
       bag' = IF fits THEN [bag EXCEPT ![pane] = Without(@, i, q), ![Into] = Added(@, Leaving(List[i], q))]
              ELSE [bag EXCEPT ![pane] = Added(Without(@, i, q), Leaving(List[i], q))]
  /\ UNCHANGED <<slot, base, pane, screen, fired>>
PutInFromSlot(p) ==
  /\ screen = "pack" /\ SackNear /\ slot[p] # <<>> /\ ~Is("sack", slot[p][1])
  /\ bag' = [bag EXCEPT ![Into] = Added(@, slot[p][1])]
  /\ slot' = [slot EXCEPT ![p] = <<>>]
  /\ UNCHANGED <<base, pane, screen, fired>>

\* _drop_ammo_into_weapon: a clip of the list onto a gun of the list or in a hand, or
\* the clip in a hand onto such a gun.
LoadListed(w, i, q) ==
  /\ screen = "pack" /\ {w, i} \subseteq DOMAIN List /\ Is("gun", List[w]) /\ Is("clip", List[i])
  /\ q \in 1..List[i].n
  /\ LET out == Without(List, w, 1)
         r == Filling(Leaving(List[w], 1), out, IF w < i THEN i - (Len(List) - Len(out)) ELSE i,
                      Len(List) - i, q)
     IN Relisted(Added(r.b, r.gun))
  /\ UNCHANGED <<slot, base, pane, screen, fired>>
LoadHeld(h, i, q) ==
  /\ screen = "pack" /\ Holds(h, "gun")
  /\ i \in DOMAIN List /\ Is("clip", List[i]) /\ q \in 1..List[i].n
  /\ LET r == Filling(slot[h][1], List, i, Len(List) - i, q)
     IN Relisted(r.b) /\ slot' = [slot EXCEPT ![h] = <<r.gun>>]
  /\ UNCHANGED <<base, pane, screen, fired>>
InHand(gun, clip) ==
  IF Remains(gun, clip) = 0 THEN <<>> ELSE <<[clip EXCEPT !.rounds = Remains(gun, clip)]>>
LoadFromHand(p, w) ==
  /\ screen = "pack" /\ Holds(p, "clip") /\ w \in DOMAIN List /\ Is("gun", List[w])
  /\ LET gun == Leaving(List[w], 1) IN
     /\ Relisted(Added(Without(List, w, 1), Filled(gun, slot[p][1])))
     /\ slot' = [slot EXCEPT ![p] = InHand(gun, @[1])]
  /\ UNCHANGED <<base, pane, screen, fired>>
LoadAcross(p, h) ==
  /\ screen = "pack" /\ Holds(p, "clip") /\ Holds(h, "gun")
  /\ slot' = [slot EXCEPT ![h] = <<Filled(@[1], slot[p][1])>>, ![p] = InHand(slot[h][1], @[1])]
  /\ UNCHANGED <<bag, base, pane, screen, fired>>

\* The context menu's unloading, of a gun in the list or in a hand.
Unload(i) ==
  /\ screen = "pack" \/ (screen = "trade" /\ base = Dude)
  /\ i \in DOMAIN List /\ Is("gun", List[i]) /\ List[i].rounds > 0
  /\ LET r == Unloaded(Without(List, i, 1), Leaving(List[i], 1)) IN Relisted(Added(r.b, r.gun))
  /\ UNCHANGED <<slot, base, pane, screen, fired>>
UnloadHeld(h) ==
  /\ screen = "pack" /\ Holds(h, "gun") /\ slot[h][1].rounds > 0
  /\ LET r == Unloaded(bag[base], slot[h][1])
     IN bag' = [bag EXCEPT ![base] = r.b] /\ slot' = [slot EXCEPT ![h] = <<r.gun>>]
  /\ UNCHANGED <<base, pane, screen, fired>>

InPack ==
  \/ OpenPack \/ ClosePack \/ LookIn \/ LookOut
  \/ \E i \in DOMAIN List :
       \/ Wear(i) \/ Unload(i)
       \/ \E h \in Hands : TakeInHand(i, h) \/ LoadFromHand(h, i)
       \/ \E q \in 1..List[i].n :
            \/ PutIn(i, q) \/ \E w \in DOMAIN List : LoadListed(w, i, q)
            \/ \E h \in Hands : LoadHeld(h, i, q)
  \/ \E h \in Hands :
       \/ WearFromHand(h) \/ UnloadHeld(h) \/ \E p \in Hands : LoadAcross(p, h)
       \/ \E p \in DOMAIN slot : ChangeHands(p, h)
  \/ \E p \in DOMAIN slot : PutAway(p) \/ PutInFromSlot(p)

InWorld(c) ==
  Unwield(c) \/ Reload(c) \/ Fire(c) \/ \E i \in DOMAIN bag[c] : Wield(c, i)
=============================================================================
