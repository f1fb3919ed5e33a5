---------------------------- MODULE ScriptLists ----------------------------
(***************************************************************************)
(* The lists of scripts (scripts.cc), their local variables in the map's   *)
(* one array (map.cc), and what becomes of both when the party leaves the  *)
(* map with its scripts and those of the items it carries (party_member.cc)*)
(*                                                                         *)
(* A script is looked up by its sid, which its object keeps as well; a     *)
(* Script pointer is a place in a list. Sids of removed scripts are handed *)
(* out again, and joining the party gives a script another. Extents are    *)
(* full but for the last; they matter to the file only. A variable of the  *)
(* array is the object whose value it holds.                               *)
(*                                                                         *)
(* The saved map is one; elsewhere is a random encounter, not saved.       *)
(***************************************************************************)
EXTENDS Integers, FiniteSets, SequencesExt

CONSTANTS
  Critters, Items,
  Pals,        \* the critters that may be companions
  VarCount,    \* how many local variables an object's script has
  NIL,
  ExtentSize,  \* SCRIPT_LIST_EXTENT_SIZE
  MaxDepth, MaxOps, MaxTrips  \* bounds

Objects == Critters \cup Items
Kind(o) == IF o \in Critters THEN "critter" ELSE "item"

VARIABLES
  lists,    \* gScriptLists
  sids,     \* Object::sid
  nextId,   \* nextScriptId of each list
  items,    \* _partyMemberItemCount
  vars,     \* gMapLocalVars
  where,    \* of each object: "none", "here", "with" the party, "there" (in the file)
  party,    \* gPartyMembers, without the player
  packs,    \* PartyMemberListItem: the scripts that travel
  home,     \* is it the saved map?
  leaving,  \* _partyStatePrepped
  file,     \* the scripts and variables of the saved map
  index,    \* gCritterProcessingIndex
  frames,   \* suspended calls of scriptExecProc
  wrote,    \* of the last call back in scriptExecProc: did it go on with its own script, and
            \* was that still there under the sid? (history)
  traded,   \* goods that programs run at a map's exit handed over or used up (history)
  ops, trips  \* counted against the bounds

lvars == <<lists, sids, nextId, items, vars, where, party, packs, home, leaving, file, index, frames, wrote,
           traded, ops, trips>>
world == <<where, party, packs, home, leaving, file, traded, trips>>
ids == <<sids, nextId, items>>
running == <<index, frames, wrote>>

\* scriptGetScript: 0 if it is not listed.
Place(l, sid) == SelectInSeq(l, LAMBDA s : s.sid = sid)
PlaceOf(o) == Place(lists[Kind(o)], sids[o])
\* (An object of a map that is in the file looks up nothing.)
Listed(o) == where[o] # "there" /\ PlaceOf(o) # 0
Of(o) == lists[Kind(o)][PlaceOf(o)]

\* The sids that the party's members and their goods travel with: 18000 by the critter's
\* kind (no two companions are of one), 20000 and on by _partyMemberItemCount.
Number(o, kind) == SelectInSeq(SetToSeq(kind), LAMBDA p : p = o)
PartySid(c) == 18000 + Number(c, Pals)
ItemSid(n) == 20000 + n

New(o, sid) == [owner |-> o, sid |-> sid, off |-> -1, kept |-> FALSE]
\* A map has just been read: the sids are in use, and the counting begins at 0 again.
Init ==
  /\ sids = [o \in Objects |-> Number(o, IF o \in Critters THEN Critters ELSE Items) - 1]
  /\ lists = [critter |-> [i \in 1..Cardinality(Critters) |-> New(SetToSeq(Critters)[i], i - 1)],
              item |-> [i \in 1..Cardinality(Items) |-> New(SetToSeq(Items)[i], i - 1)]]
  /\ nextId = [critter |-> 0, item |-> 0] /\ items = 0
  /\ vars = << >> /\ where = [o \in Objects |-> "here"]
  /\ party = << >> /\ packs = << >> /\ home = TRUE /\ leaving = FALSE /\ file = NIL
  /\ index = 0 /\ frames = << >> /\ wrote = [own |-> TRUE, there |-> TRUE] /\ traded = {} /\ ops = 0 /\ trips = 0

-----------------------------------------------------------------------------
(* Adding and removing                                                      *)

\* Mutant: whether the number is in use is not looked up.
NewIdBlind(l, next) == next
\* scriptGetNewId: the next number, or the first one free behind it.
NewId(l, next) ==
  CHOOSE id \in next..next + Len(l) :
    Place(l, id) = 0 /\ \A less \in next..id - 1 : Place(l, less) # 0

\* Mutant: blocks behind a removed one are not moved.
ShiftedNot(off, gone) == off
\* scriptsRemoveLocalVars moves the blocks behind the removed one.
Shifted(off, gone) ==
  IF gone.off >= 0 /\ off > gone.off THEN off - VarCount[gone.owner] ELSE off
Without(v, gone) ==
  IF gone.off < 0 THEN v
  ELSE SubSeq(v, 1, gone.off) \o SubSeq(v, gone.off + VarCount[gone.owner] + 1, Len(v))

\* scriptRemove puts the list's last script into the hole.
Filled(l, i) == Front([l EXCEPT ![i] = Last(l)])

\* scriptRemove, of a script without SCRIPT_FLAG_NO_REMOVE.
Removed(st, o) ==
  LET i == Place(st.ls[Kind(o)], sids[o])
      gone == st.ls[Kind(o)][i]
      moved == [k \in DOMAIN st.ls |-> [j \in DOMAIN st.ls[k] |->
                  [st.ls[k][j] EXCEPT !.off = Shifted(@, gone)]]]
  IN [ls |-> [moved EXCEPT ![Kind(o)] = Filled(@, i)], v |-> Without(st.v, gone)]

Op == ops < MaxOps /\ ops' = ops + 1

Create(o) ==
  /\ Op /\ where[o] = "none" /\ where' = [where EXCEPT ![o] = "here"]
  /\ LET sid == NewId(lists[Kind(o)], nextId[Kind(o)])
     IN /\ lists' = [lists EXCEPT ![Kind(o)] = Append(@, New(o, sid))]
        /\ sids' = [sids EXCEPT ![o] = sid]
  /\ nextId' = [nextId EXCEPT ![Kind(o)] = @ + 1]
  /\ UNCHANGED <<items, vars, party, packs, home, leaving, file, traded, trips, running>>
\* An object ceases to be, and its script unless that is kept.
Destroy(o) ==
  /\ Op /\ where' = [where EXCEPT ![o] = "none"] /\ sids' = [sids EXCEPT ![o] = -1]
  /\ \/ where[o] = "here"
     \/ o \in Items /\ where[o] = "with"
  /\ LET here == [ls |-> lists, v |-> vars]
         st == IF Listed(o) /\ ~Of(o).kept THEN Removed(here, o) ELSE here
     IN lists' = st.ls /\ vars' = st.v
  /\ traded' = IF leaving /\ where[o] = "with" THEN traded \cup {o} ELSE traded
  /\ UNCHANGED <<nextId, items, party, packs, home, leaving, file, trips, running>>
\* scriptSetLocalVar allocates the variables at the first use (mapAllocLocalVars).
Touch(o) ==
  /\ Op /\ Listed(o) /\ Of(o).off = -1
  /\ lists' = [lists EXCEPT ![Kind(o)][PlaceOf(o)].off = Len(vars)]
  /\ vars' = vars \o [j \in 1..VarCount[o] |-> o]
  /\ UNCHANGED <<ids, world, running>>

\* partyMemberAdd gives the script and the object another sid, which partyMemberRemove
\* leaves them; the last companion takes the place.
Join(c) ==
  /\ Op /\ c \in Pals /\ where[c] = "here" /\ ~leaving
  /\ where' = [where EXCEPT ![c] = "with"] /\ party' = Append(party, c)
  /\ lists' = [lists EXCEPT !["critter"][PlaceOf(c)].kept = TRUE,
                            !["critter"][PlaceOf(c)].sid = PartySid(c)]
  /\ sids' = [sids EXCEPT ![c] = PartySid(c)]
  /\ UNCHANGED <<nextId, items, vars, packs, home, leaving, file, traded, trips, running>>
Part(c) ==
  /\ Op /\ c \in Range(party) /\ ~leaving
  /\ where' = [where EXCEPT ![c] = "here"]
  /\ party' = Front([party EXCEPT ![CHOOSE i \in DOMAIN party : party[i] = c] = Last(party)])
  /\ lists' = [lists EXCEPT !["critter"][PlaceOf(c)].kept = FALSE]
  /\ UNCHANGED <<ids, vars, packs, home, leaving, file, traded, trips, running>>
\* Something picked up or put down. Nothing keeps the programs run at the map's exit from
\* it, after the goods' scripts have been packed.
Carry(i) ==
  /\ Op /\ where[i] \in {"here", "with"}
  /\ where' = [where EXCEPT ![i] = IF @ = "here" THEN "with" ELSE "here"]
  /\ traded' = IF leaving THEN traded \cup {i} ELSE traded
  /\ UNCHANGED <<lists, ids, vars, party, packs, home, leaving, file, trips, running>>

-----------------------------------------------------------------------------
(* Running a procedure (scriptExecProc)                                     *)
(* A frame is a call that is out in the script's program or in a hook:      *)
(* first the program itself if it has just been loaded, the hook before the *)
(* procedure, the procedure, the hook after it. sid is the one it was called*)
(* with (hookCachedSid), place the pointer; prev and count are the round's, *)
(* if the round called it.                                                  *)

Frame(o, prev, count) ==
  [owner |-> o, sid |-> sids[o], place |-> PlaceOf(o), at |-> "hook", prev |-> prev,
   count |-> count]
Calls(f) == {[f EXCEPT !.at = at] : at \in {"load", "hook"}}

\* Some event runs a script's procedure.
Exec(o) ==
  /\ Len(frames) < MaxDepth /\ Listed(o)
  /\ \E f \in Calls(Frame(o, -1, 0)) : frames' = Append(frames, f)
  /\ UNCHANGED <<lists, ids, vars, world, index, wrote, ops>>

\* Mutant: the round does not begin again.
NextIndexEnds(count) == IF index + 1 >= count THEN count - 1 ELSE index + 1
NextIndex(count) == IF index + 1 >= count THEN 0 ELSE index + 1
\* The background round (_script_chk_critters): one script in a call.
Round ==
  /\ Len(frames) < MaxDepth /\ lists["critter"] # << >>
  /\ LET count == Len(lists["critter"])
         next == NextIndex(count)
     IN /\ index' = next
        /\ \E f \in Calls(Frame(lists["critter"][next + 1].owner, index, count)) :
             frames' = Append(frames, f)
  /\ UNCHANGED <<lists, ids, vars, world, wrote, ops>>

\* Mutant: the pointer is kept across the calls.
PlaceKept(f) == f.place
\* The pointer is looked up again after every call out.
PlaceNow(f) == Place(lists[Kind(f.owner)], f.sid)
\* Whose script the pointer is of now: NIL past the end.
Used(f, place) ==
  IF place <= Len(lists[Kind(f.owner)]) THEN lists[Kind(f.owner)][place].owner ELSE NIL
\* Is the call's own script still listed, under the sid it was called with?
StillThere(f) == \E s \in Range(lists[Kind(f.owner)]) : s.owner = f.owner /\ s.sid = f.sid

\* _script_chk_critters steps back if scripts were removed.
IndexAfter(f) == IF f.prev >= 0 /\ Len(lists["critter"]) < f.count THEN f.prev ELSE index
Return(f) == frames' = Front(frames) /\ index' = IndexAfter(f)
GoOn(f, place, at) ==
  frames' = [frames EXCEPT ![Len(frames)].place = place, ![Len(frames)].at = at] /\ UNCHANGED index
\* The call out returns. The hook may have handled the event, the script may have no
\* such procedure: then it is over.
Resume ==
  /\ frames # << >>
  /\ LET f == Last(frames) place == PlaceNow(f)
     IN IF place = 0 THEN Return(f) /\ UNCHANGED wrote
        ELSE /\ wrote' = [own |-> Used(f, place) = f.owner, there |-> StillThere(f)]
             /\ CASE f.at = "load" -> GoOn(f, place, "hook") \/ Return(f)
                  [] f.at = "hook" -> GoOn(f, place, "run") \/ Return(f)
                  [] f.at = "run" -> GoOn(f, place, "endhook")
                  [] f.at = "endhook" -> Return(f)
  /\ UNCHANGED <<lists, ids, vars, world, ops>>

-----------------------------------------------------------------------------
(* Leaving a map                                                            *)

Block(st, s) == IF s.off < 0 THEN << >> ELSE SubSeq(st.v, s.off + 1, s.off + VarCount[s.owner])
Pack(st, o) ==
  [owner |-> o, vals |-> Block(st, st.ls[Kind(o)][Place(st.ls[Kind(o)], sids[o])])]
Carried == {i \in Items : where[i] = "with"}

\* Mutant: the items' scripts are saved with the map as well.
MarkedNone(l) == l
\* _partyMemberPrepItemSaveAll.
Marked(l) ==
  [i \in DOMAIN l |->
    IF \E o \in Carried : sids[o] = l[i].sid THEN [l[i] EXCEPT !.kept = TRUE] ELSE l[i]]
\* _partyMemberPrepLoad packs the companions' scripts and removes them, and packs those
\* of the items; the latter are marked. An item whose script is not found ends the program.
StartLeave ==
  /\ frames = << >> /\ ~leaving /\ leaving' = TRUE
  /\ \A i \in Carried : Listed(i)
  /\ trips < MaxTrips /\ trips' = trips + 1
  /\ LET here == [ls |-> lists, v |-> vars]
         after == FoldLeft(Removed, here, party)
     IN /\ packs' = [i \in DOMAIN party |-> Pack(here, party[i])]
                      \o [i \in 1..Cardinality(Carried) |-> Pack(here, SetToSeq(Carried)[i])]
        /\ vars' = after.v
        /\ lists' = [after.ls EXCEPT !["item"] = Marked(@)]
  /\ UNCHANGED <<ids, where, party, home, file, traded, running, ops>>

\* scriptSaveAll: a script that is not to be saved changes places with the last one
\* that is.
Swap(l, i) ==
  LET later == {j \in DOMAIN l : j > i /\ ~l[j].kept}
      j == CHOOSE k \in later : \A n \in later : n <= k
  IN IF l[i].kept /\ later # {} THEN [l EXCEPT ![i] = l[j], ![j] = l[i]] ELSE l
Ordered(l) == FoldLeft(Swap, l, [i \in DOMAIN l |-> i])
\* The list by extents; the last one is written up to its first unsaved script,
\* the others in full.
Extents(l) ==
  LET n == (Len(l) + ExtentSize - 1) \div ExtentSize
  IN [k \in 1..n |-> SubSeq(l, (k - 1) * ExtentSize + 1,
                            IF k < n THEN k * ExtentSize ELSE Len(l))]
WrittenPart(e) == SubSeq(e, 1, SelectInSeq(Append(e, [kept |-> TRUE]), LAMBDA s : s.kept) - 1)
Stored(l) ==
  LET es == Extents(Ordered(l))
      count == Cardinality({i \in DOMAIN l : ~l[i].kept})
      tail == IF l = << >> THEN << >> ELSE WrittenPart(Last(es))
  IN [count |-> count,
      extents |-> IF count = 0 THEN << >>
                  ELSE Front(es) \o IF tail = << >> THEN << >> ELSE <<tail>>]

\* scriptLoadAll and scriptListExtentRead: as many extents as the count implies, each
\* as long as it implies, and nothing between them and the next list.
Loads(s) ==
  /\ Len(s.extents) = (s.count + ExtentSize - 1) \div ExtentSize
  /\ \A k \in DOMAIN s.extents :
       Len(s.extents[k]) = IF k * ExtentSize <= s.count THEN ExtentSize ELSE s.count % ExtentSize
FileLoads == Loads(file.critter) /\ Loads(file.item)

\* _partyMemberRecoverLoadInstance and _partyMemberItemRecover: the script is added under
\* the next sid and renamed.
Recovered(st, p) ==
  LET k == Kind(p.owner)
      sid == IF k = "critter" THEN PartySid(p.owner) ELSE ItemSid(st.count)
      off == IF p.vals = << >> THEN -1 ELSE Len(st.v)
  IN [ls |-> [st.ls EXCEPT ![k] = Append(@, [New(p.owner, sid) EXCEPT !.kept = k = "critter",
                                                                       !.off = off])],
      v |-> st.v \o p.vals,
      sid |-> [st.sid EXCEPT ![p.owner] = sid],
      next |-> [st.next EXCEPT ![k] = @ + 1],
      count |-> IF k = "item" THEN st.count + 1 ELSE st.count]

\* The map is saved and freed, the next one read (_map_save_in_game, mapLoad). Of a
\* saved map that does not load the original is loaded, as new (mapLoadByName).
FinishLeave ==
  /\ leaving /\ frames = << >> /\ leaving' = FALSE /\ home' = ~home
  /\ file' = IF home THEN [critter |-> Stored(lists["critter"]), item |-> Stored(lists["item"]),
                           vars |-> vars]
             ELSE NIL
  /\ LET loaded == ~home /\ FileLoads
         now == [o \in Objects |->
             CASE where[o] = "here" -> IF home THEN "there" ELSE "none"
               [] where[o] = "there" -> IF loaded THEN "here" ELSE "none"
               [] OTHER -> where[o]]
         new == [ls |-> IF loaded THEN [critter |-> FlattenSeq(file.critter.extents),
                                        item |-> FlattenSeq(file.item.extents)]
                        ELSE [critter |-> << >>, item |-> << >>],
                 v |-> IF loaded THEN file.vars ELSE << >>,
                 sid |-> [o \in Objects |-> IF now[o] = "none" THEN -1 ELSE sids[o]],
                 next |-> [critter |-> 0, item |-> 0],
                 count |-> items]
         st == FoldLeft(Recovered, new, packs)
     IN /\ lists' = st.ls /\ vars' = st.v /\ where' = now
        /\ sids' = st.sid /\ nextId' = st.next /\ items' = st.count
  /\ packs' = << >>
  /\ UNCHANGED <<party, traded, running, ops, trips>>

\* Bound: what goods traded at the exit do later is not followed (their sids are stale).
Next ==
  /\ traded # {} => leaving
  /\ \/ \E o \in Objects : Create(o) \/ Destroy(o) \/ Touch(o) \/ Exec(o)
     \/ \E c \in Pals : Join(c) \/ Part(c)
     \/ \E i \in Items : Carry(i)
     \/ Round \/ Resume \/ StartLeave \/ FinishLeave
Spec == Init /\ [][Next]_lvars
\* The background loop comes round (_doBkProcesses), and programs return.
FairSpec == Spec /\ WF_lvars(Resume) /\ SF_lvars(frames = << >> /\ Round)

-----------------------------------------------------------------------------
(* Properties                                                               *)

TypeOK ==
  /\ \A k \in {"critter", "item"} : \A i \in DOMAIN lists[k] :
       LET s == lists[k][i]
       IN s.owner \in Objects /\ Kind(s.owner) = k /\ s.off \in -1..Len(vars) /\ s.kept \in BOOLEAN
  /\ vars \in Seq(Objects) /\ where \in [Objects -> {"none", "here", "with", "there"}]
  /\ party \in Seq(Pals) /\ {home, leaving} \subseteq BOOLEAN /\ index \in Nat
  /\ Len(frames) <= MaxDepth

\* A script's variables are its own, wherever its block has been moved by the removal
\* of others and whatever map its owner was taken to.
LocalsFollow ==
  \A k \in DOMAIN lists : \A i \in DOMAIN lists[k] :
    LET s == lists[k][i]
    IN s.off >= 0 => /\ s.off + VarCount[s.owner] <= Len(vars)
                     /\ \A j \in 1..VarCount[s.owner] : vars[s.off + j] = s.owner

\* Everything on the map and in the party has its script, once, and finds it by its sid,
\* though sids are counted anew on every map, handed out again and changed; nothing else
\* has one, and only the companions' outlive the map. Only goods that programs run at a
\* map's exit hand over or use up, when theirs are packed already, may lose or double theirs.
OneScriptEach ==
  TypeOK /\ (~leaving =>
    \A o \in Objects \ traded :
      LET mine == {i \in DOMAIN lists[Kind(o)] : lists[Kind(o)][i].owner = o}
      IN IF where[o] \in {"here", "with"}
         THEN /\ mine = {PlaceOf(o)}
              /\ Of(o).kept <=> o \in Range(party)
         ELSE mine = {})

\* scriptExecProc goes on with its own script after every call out if that is still listed
\* under its sid, though removals move scripts and free extents under it and other
\* scripts are added.
OwnUnlessGone == wrote.there => wrote.own
\* It goes on with its own script, or with none.
OwnScriptUsed == wrote.own

\* A map that was saved loads: its extents are as long as its counts say.
SavedMapLoads == file # NIL => FileLoads

\* Every critter's script gets its turn in the round, or leaves the list.
TurnOfEach ==
  \A c \in Critters :
    Listed(c) ~> (frames # << >> /\ Last(frames).owner = c /\ Last(frames).prev >= 0) \/ ~Listed(c)
=============================================================================
