------------------------------ MODULE MCScenes ------------------------------
(* A global script and a map's that are called by two hooks; three critters    *)
(* with scripts on a map, calls within calls, no items; two critters and three *)
(* items that travel, no calls; the background processes, and the ring of      *)
(* input events; what people carry, and trade; the files of a slot of the      *)
(* saved games. They share nothing that is modelled; a behaviour is one of     *)
(* them.                                                                       *)
(*                                                                             *)
(* The slot has two maps. Where rename replaces files (POSIX) the player does  *)
(* not save over what a crash left; where it does not (Windows) she may. Or    *)
(* nothing crashes, and a rename of the backup or of the restoration may fail  *)
(* (a full disk).                                                              *)
EXTENDS MCScriptHooks, SaveSlot, TLC

CONSTANTS a, b, c, i1, i2, i3, NIL, dude, pal, trader, m1, m2

VARIABLES
  lists, sids, nextId, items, vars_, where, party, packs, home, leaving, file, index, running, wrote, traded, ops, trips,
  tickers, process, removed, passes, disabled, isoOff, fight, globals, ring, pending,
  bag, held, base, pane, screen, fired, gear,
  owned, \* history: what there was at first
  scene
svars == <<lists, sids, nextId, items, vars_, where, party, packs, home, leaving, file, index, running, wrote,
           traded, ops, trips>>
ivars == <<tickers, process, removed, passes, disabled, isoOff, fight, globals, ring, pending>>
gvars == <<bag, held, base, pane, screen, fired, gear>>
all == <<vars, svars, ivars, gvars, owned, slotVars, scene>>

Folk == {a, b, c}
Pair == {a, b}
Things == {i1, i2, i3}
Two == a :> 2 @@ b :> 1 @@ c :> 1 @@ i1 :> 1 @@ i2 :> 2 @@ i3 :> 1
Map == INSTANCE ScriptLists WITH
  Critters <- Folk, Items <- {}, Pals <- {b}, VarCount <- Two, ExtentSize <- 2,
  MaxDepth <- 2, MaxOps <- 3, MaxTrips <- 0, vars <- vars_, frames <- running
Road == INSTANCE ScriptLists WITH
  Critters <- Pair, Items <- Things, Pals <- {b}, VarCount <- Two, ExtentSize <- 2,
  MaxDepth <- 0, MaxOps <- 4, MaxTrips <- 3, vars <- vars_, frames <- running

Loops == INSTANCE Input WITH
  Node <- 1..7, RingSize <- 3, Keys <- {}, MaxDepth <- 3, MaxTexts <- 2, FightScreens <- FALSE
Typing == INSTANCE Input WITH
  Node <- 1..7, RingSize <- 3, Keys <- {"k", "m"}, MaxDepth <- 0, MaxTexts <- 0,
  FightScreens <- FALSE
ASSUME ScenesInput == Loops!InputConstants /\ Typing!InputConstants

\* Who carries what at first: n of a kind, the rounds in it, where it is worn.
S(kind, n, rounds, worn) ==
  [kind |-> kind, n |-> n, rounds |-> rounds, worn |-> worn, from |-> <<>>]
Nothing == [h \in {dude, pal, trader, "sack", "offer", "want", "box"} |-> <<>>]
Packs == {
  [Nothing EXCEPT ![dude] = <<S("gun", 2, 1, ""), S("clip", 2, 1, "")>>],
  [Nothing EXCEPT ![dude] = <<S("gun", 1, 1, ""), S("clip", 1, 1, ""), S("sack", 1, 0, "")>>],
  [Nothing EXCEPT ![dude] = <<S("gun", 2, 1, ""), S("clip", 1, 2, ""), S("vest", 1, 0, "")>>] }
Trades == {
  [Nothing EXCEPT ![dude] = <<S("vest", 2, 0, ""), S("sack", 1, 0, "")>>],
  [Nothing EXCEPT ![dude] = <<S("gun", 1, 1, "right"), S("clip", 1, 1, "")>>,
                  ![pal] = <<S("vest", 1, 0, "armor")>>, ![trader] = <<S("vest", 1, 0, "armor")>>],
  [Nothing EXCEPT ![dude] = <<S("clip", 1, 2, "")>>, ![pal] = <<S("clip", 1, 1, "")>>,
                  ![trader] = <<S("gun", 1, 1, "right"), S("vest", 1, 0, "armor"), S("claws", 1, 0, "")>>],
  [Nothing EXCEPT ![dude] = <<S("gun", 1, 1, "right"), S("clip", 1, 2, "")>>,
                  ![pal] = <<S("clip", 1, 1, "")>>,
                  ![trader] = <<S("vest", 1, 0, "armor"), S("claws", 1, 0, "")>>] }
AllStarts == Packs \cup Trades \cup {Nothing}
Shop == INSTANCE Barter WITH
  Dude <- dude, Pal <- pal, Trader <- trader, Cap <- 2, Mag <- 3, MaxOffers <- 1,
  slot <- held, Starts <- AllStarts, Kept <- {{}, {"clip"}}

Posix == INSTANCE SaveSlot WITH Replaces <- TRUE, SavesAfterCrash <- FALSE
Full == INSTANCE SaveSlot WITH
  Faults <- {"write", "backup", "restore"}, Replaces <- TRUE, SavesAfterCrash <- FALSE
ASSUME ScenesFiles ==
  SaveSlotConstants /\ Posix!SaveSlotConstants /\ Full!SaveSlotConstants

SceneInit ==
  /\ scene \in {"hooks", "map", "road", "loops", "keys", "pack", "trade",
               "posix", "windows", "full"}
  /\ Init /\ Loops!Init /\ SlotInit
  /\ IF scene = "road" THEN Road!Init ELSE Map!Init
  /\ bag \in CASE scene = "pack" -> Packs [] scene = "trade" -> Trades [] OTHER -> {Nothing}
  /\ Shop!BarterInit /\ owned = Shop!Totals
SceneNext ==
  /\ \/ scene = "hooks" /\ Next /\ UNCHANGED <<svars, ivars, gvars, slotVars>>
     \/ scene = "map" /\ Map!Next /\ UNCHANGED <<vars, ivars, gvars, slotVars>>
     \/ scene = "road" /\ Road!Next /\ UNCHANGED <<vars, ivars, gvars, slotVars>>
     \/ scene = "loops" /\ Loops!Next /\ UNCHANGED <<vars, svars, gvars, slotVars>>
     \/ scene = "keys" /\ Typing!Next /\ UNCHANGED <<vars, svars, gvars, slotVars>>
     \/ scene = "pack" /\ Shop!AtHome /\ UNCHANGED <<vars, svars, ivars, slotVars>>
     \/ scene = "trade" /\ Shop!Next /\ UNCHANGED <<vars, svars, ivars, slotVars>>
     \/ scene = "posix" /\ Posix!SlotNext /\ UNCHANGED <<vars, svars, ivars, gvars>>
     \/ scene = "windows" /\ SlotNext /\ UNCHANGED <<vars, svars, ivars, gvars>>
     \/ scene = "full" /\ Full!SlotNext /\ UNCHANGED <<vars, svars, ivars, gvars>>
  /\ UNCHANGED <<owned, scene>>
OnSlot == scene \in {"posix", "windows", "full"}
\* The bounded histories of all but the slot end.
Ends == ~OnSlot /\ UNCHANGED all
Scenes == SceneInit /\ [][SceneNext \/ Ends]_all

\* A script's local variables are its own, on the map and on the road
\* (scriptsRemoveLocalVars, scriptSaveAll, _partyMemberRecoverLoadInstance).
LocalsFollow ==
  /\ scene = "map" => Map!LocalsFollow
  /\ scene = "road" => Road!LocalsFollow
\* Everything on the map and in the party has its script, once, and finds it by its sid
\* (scriptGetNewId, scriptRemove, partyMemberAdd, _partyMemberPrepLoad, mapLoad).
OneScriptEach ==
  /\ scene = "map" => Map!OneScriptEach
  /\ scene = "road" => Road!OneScriptEach
\* A call goes on with its own script after every call out, if that is still listed under
\* the sid of the call (scriptExecProc).
OwnUnlessGone == Map!OwnUnlessGone
\* Passes over the background processes within each other go on with nodes that are there and
\* run everything that stayed, once; the ring gives every event that it took, in order
\* (tickersExecute, tickersAdd, enqueueInputEvent, dequeueInputEvent).
InputServed ==
  scene \in {"loops", "keys"} => Loops!PassesSafe /\ Loops!ServedOnce /\ Typing!RingHolds
\* No item and no round is lost or made by carrying, loading, merging or trading, and one
\* object is in one hand (itemAdd, itemRemoveInternal, inventoryEquipFunc,
\* critterRestoreEquipped); types included.
GoodsKept ==
  scene \in {"pack", "trade"} =>
    Shop!TypeOK /\ Shop!NothingLost(owned) /\ Shop!OneInHand
\* Nothing stays on the tables, in the trader's box or in the window's slots
\* (gameDialogBarterCleanupTables, barterProcessUI, _exit_inventory).
TradeEnds == scene \in {"pack", "trade"} => Shop!TradeEnds
\* The trader leaves the table as armed as he came (barterProcessUI).
TraderRearmed == Shop!TraderRearmed
=============================================================================
