# Fallout 2 Community Edition Extended: a formal model

TLA+ models of the core of this game engine, TLC configurations that check them on small
instances, and proofs of their main invariants for every instance. Source paths below
are relative to `src/src/`.

The engine is one big single-threaded program with a mixer thread beside it. What makes
it hard is not parallelism but *re-entrancy*: an event's handler, an animation's
callback, a combat step or a script calls back into the component that called it, while
a loop of that component is suspended over a list that the call may change. The second
difficulty is *partial failure*: a save slot is a directory of files that no single
operation replaces, and a cache has to keep its books when an allocation or a read fails
in the middle.

## 1. The system

State, operations, interactions, what is hard, and what makes it correct. The status of
every component is in `PROJECT.json`.

### The scheduling core

| Component | State | Operations | Interacts with | Hard | Correct when |
|---|---|---|---|---|---|
| **event queue** `queue.cc` | list of timed events (`gQueueListHead`) with an owner each | add, find, remove by owner / event / type, process due, clear by type, leave map, load, save | the game clock; a handler per type in items, critters, scripts, actions; object destruction | handlers and map-exit handlers re-enter every operation while a loop stands in the list | sorted; no node freed twice or used after free; no handler sees a destroyed owner; delivery by time, then by arrival; due events leave |
| **game clock** `scripts.cc`, `map.cc` | `gGameTime`; midnight and map-update events | add ticks, set, schedule, midnight, periodic checks | queue, world map, map changes, movies, end of game | events that reschedule themselves; jumps of the clock; unsigned ticks | one midnight per day; one update event; both never lost |
| **script lists and execution** `scripts.cc`, `interpreter.cc` | five lists of extents of 16; the critter round index; programs | add, remove (swap with the last), run a procedure, run all of an object, per-frame round | every component a script opcode reaches | removing scripts, itself included, while the lists are walked | no removed script runs; every critter gets its turn |
| **animation** `animation.cc` | 64 sequence slots of 55 descriptions; the list of sads | begin, register, end, clear, run, continue, end of a set, pass over the sads, stop | actions (what to register), combat (the count of running sequences), objects, scripts | callbacks begin, end and stop sequences while a sequence is being run or ended; slots and sads run out | a sequence ends exactly when its animations have; no two animate one object; everything begun in combat is given back |
| **combat** `combat.cc` | combatant list partitioned into acting, waiting, absent; turn counter; the attack being played | begin, turn, attack, stand up, damage, end | animation, AI, scripts, queue (knock-outs) | turns wait for animations; combatants die, leave, join, fall in the middle of a turn | every combatant that can act acts once a round; combat ends; turns end |
| **input and background processes** `input.cc` | ring of events; list of tickers | post, read, add and remove a ticker, run all | windows, animation, sound, movies | tickers that add and remove tickers or run the loop again | every ticker registered runs; none runs after its removal |

### Resources

| Component | State | Operations | Interacts with | Hard | Correct when |
|---|---|---|---|---|---|
| **heap** `heap.cc` | arena of blocks, handles, free and movable lists, counters | allocate, free, lock, unlock | the cache | allocation moves other blocks; hand-kept counters choose the path | blocks tile the arena; handles follow; a locked block stays; bytes stay |
| **resource cache** `cache.cc` | entries sorted by key; size; use counters | lock, unlock, flush | heap; art and sound-effect lists | eviction, retries, failing reads between looking up an index and using it | accounts kept; referenced entries stay; no block leaks; calls return |
| **sound** `sound.cc`, `audio_engine.cc`, `game_sound.cc`, `script_sound.cc` | sounds, fades, 8 engine buffers with a mutex each; the handles of those who play | create, play, stop, fade, delete, continue all, mix | the mixer thread, the background round, lips, scripts' opcodes | the mixer and the main thread; a sound that ends deletes itself while the list is walked and others hold it | a released buffer is never mixed; no handle outlives its sound |
| **files and databases** `db.cc`, `xfile.cc`, `dfile.cc`, `dictionary.cc`, `config.cc` | open archives in search order; sorted key arrays | open, search, read, insert, look up | everything | search order, shadowing | the first match wins; arrays stay sorted |
| **objects, prototypes, items, inventory, party** `object.cc`, `proto.cc`, `item.cc`, `inventory.cc`, `party_member.cc` | objects by tile; prototype extents; stacks | create, destroy, move, add, remove, transfer | queue, animation, scripts, save | destruction while others hold the object; splitting and merging stacks; companions across map changes | no stack is lost or duplicated; no destroyed object is referred to |
| **critters, stats, perks, traits, skills** `critter.cc`, `stat.cc`, `perk.cc` … | numbers of a critter | adjust, level, poison and radiation events | queue, combat | signed delays; limits | values stay in their ranges |

### The world and its storage

| Component | State | Operations | Interacts with | Hard | Correct when |
|---|---|---|---|---|---|
| **save and load** `loadsave.cc` | a directory per slot: `SAVE.DAT`, `*.SAV`, `*.BAK`, prototypes | save with backup and restoration, load, erase | every component through 28 handlers; the file system | failure or crash between any two of many file operations | a failed save changes nothing; the last save survives; a load reads one save |
| **maps** `map.cc` | the loaded map, its saved copy | load, save, leave | objects, scripts, queue, animation | events and companions that cross, objects that do not | nothing refers to an object of the old map |
| **world map** `worldmap.cc` | areas, entrances, car, position | travel, encounter, enter | clock, maps, movies | travel that is interrupted | areas known stay known; the car is somewhere |
| **dialogue and barter** `game_dialog.cc` | dialogue state, barter tables | start, reply, barter, end | scripts, inventory | nested modal loops | goods and money are conserved |
| **interpreter, sfall** `interpreter*.cc`, `sfall_*.cc` | programs and their stacks; hooks, global scripts, arrays, global variables | run, call, spawn, wait; register and call hooks | everything | hooks raised inside hooks, lists changed while walked | each hook runs once; results belong to their call |
| **windows, rendering, movies, screens, settings, shell, editor, platform, vendored code** | | | | drawing and wrappers | not modelled; reasons in `PROJECT.json` |

## 2. What is modelled

A function that runs to its end without calling out is one action. A call that suspends
another is a frame on a `stack` or `frames` variable, and only the top frame moves; a
handler or a script is whatever the frame's budget lets it do with the component's own
operations. All the modules but `Sounds`, which has the mixer's thread, are single-threaded
in this sense.

### `EventTypes`, `EventQueue`, `TimedEvents`: `queue.cc`

`EventTypes` is the table `gEventTypeDescriptions` as far as the queue can tell: which
handlers dereference their owner, which events leave with a map, which map-exit handlers
exist. `EventQueue` has the list (`queue`), what its cells hold (`info`), the
allocator's view (`alloc`), the clock (`now`), the destroyed objects (`gone`) and the
suspended calls (`stack`). Cells are reused once freed, so a stale pointer may meet
another event. Actions are: `queueAddEvent`, the removals, `queueProcessEvents` (a frame
that takes the head while due, calls its handler, frees it, goes on or stops),
`queueClearByEventType` (a frame with the cursor `ptr` as `prev`) and
`_queue_leaving_map` (a frame that starts one clear after the other). `ClearEffects`
says what each map-exit handler does to the queue and its verdict. Two facts about the callers
are in the model: types come in enum order (`EnumOrder`), and an item has events of one type
beside its script's timers (`UsedFor`: a flare or an explosive with `OBJECT_QUEUED` is not lit
or armed again, and gadgets are neither; that a script makes an explosive of a gadget that is
on is outside the model).

`TimedEvents` is the promise to the rest of the game, without a list: pending events
with a due time and an order of arrival among equals; only the first may be delivered.
`ImplementsTimedEvents` is the refinement.

### `Heap`, `HeapHandles`: `heap.cc`

The arena is a function from addresses to blocks, with the bytes a holder wrote reduced
to "whose bytes". Allocation has its three paths: a free block, a run of movable and
free blocks that is emptied by moving its blocks elsewhere, system memory. `HeapHandles`
is what a holder of a handle may rely on: what it wrote stays, and a locked block does
not move. `heapFree` runs at exit only.

`Memory` puts the arena (`Arena`, an instance of `Heap` with a `Slot` for each handle) beside
the cache: a behaviour of `Either` is one of the cache or one of the heap.

### `Cache`: `cache.cc`

The cache uses the *promise* of the heap (`HeapHandles`), not its code, so that its
properties hold with every heap that keeps the promise; an allocation may fail at any
time. `call` says how far the one running `cacheLock` or `cacheFlush` is; every phase in
which something may fail is an action. Files are keys with sizes; a read may deliver
less than was announced, or fail.

### `Animation`: `animation.cc`, with what `actions.cc` and `combat.cc` do around it

Slots (`seqs`), the sequence being built (`cur`, `building`), the sads, and the global
flags the code keeps (`inBk`, `inStop`, `inCombat`, `running` = `_combat_turn_running`,
`cleanup` = `_combat_cleanup_enabled`). `stack` has a frame for every suspended
function: running a sequence, ending it, finishing a combat animation, the pass over the
sads, stopping everything. `Plans` are what the game's callers register, in the order
they do: a fidget, a walk with a forced callback, an attack, a shot, an attack with a
bystander who waits for a ping. Path finding, frames and offsets are reduced to their
outcomes: an animation takes time, is there at once, or fails. `reg_anim_clear` (`Clear`)
may be called by the main loop, a callback, a script and whoever stands up, with one bound: a
forced callback does not clear the sequence whose end is calling it back (section 3). Where
the end of a sequence destroys a hidden object the code reads through a null pointer (section
6); behaviours go on from there as if the read had done nothing.

### `SaveSlot`: `loadsave.cc`

One slot. `disk` maps the names of the files that exist to the number of the save that
wrote each; a step is one file operation, so that `Crash` may come between any two.
`_strmfe` *replaces* the extension, the recovery in `lsgLoadGameInSlot` *appends* one,
and `*.SAV` matches whatever the case: names are a stem and an extension so that these
differ as they do in the code. `Replaces` says whether `rename` overwrites (POSIX) or
refuses (Windows). `Faults` are failing writes, failing renames of the backup, failing
renames of the restoration, and crashes.

### `CombatTurns`: `combat.cc`

`line`, `com` and `noncom` are `_combat_list` and the two counts that part it into those
who act, those who wait and the dead that were dropped; `cur` is the loop's index, one
higher than the code's. `phase` says which loop is under way: the round
(`_combat_sequence`'s order first), a turn inside it (`combatTurnHooked`), joining
between rounds (`_combat_add_noncoms`), dropping the dead, parking the knocked out and the
frightened, the end; each pass of those loops is a step, and `com` stands for the local
count they keep. `Roster` are the critters of the elevation, in the order of their `Tile`.
A dead player begins no fight, and nobody attacks himself. A turn strikes critters down, frightens
them or takes them off the list (`_combat_delete_critter`), the one whose turn it is
included; on its return the loop corrects its index the way the code does (`Resume`).
`target` is `whoHitMe`, which outlives turns and decides who joins. Attack resolution,
action points and AI are reduced to "somebody may be struck".

### `GameClock`: `scripts.cc`, `critter.cc`, `pipboy.cc`, `worldmap.cc`

The clock moves by ticks, by scripts, on the road and by resting, and each mover calls
`queueProcessEvents`, whose limit is read on entry (`limit`). Midnight and the map's
update re-add themselves at the end of their handlers; a movie suspends midnight's
handler and lets programs advance the time; maps entered, left, saved and a loaded queue
add their own. A rest sets the clock to just after the next event, overdue ones included
(`pipboy.cc:2405`), projecting its goals from the time at which its hours or minutes began
(`resting`), whatever scripts have done to the clock since: `peak` is the latest time the clock has shown. `lost` records that a
script's movie swallowed the only midnight, `setBack` that the clock was set back over a
midnight, the two cases the properties except. Poison and radiation are the player's events with their re-adding handlers and the clearing that
gives penalties back.

### `Chems`: the drugs of `item.cc`

A dose changes stats at once and by two later events; an addiction is a pending onset,
then a pending end. Events are counted by kind (any may be next: delays vary with traits
and overrides). Leaving a map applies the events of those who stay; loading makes some
effects forget which drug they are of; the antidote, Jet's exception and the limit of
concurrent doses are as in the code.

### `ScriptLists`: `scripts.cc`, `map.cc`, `party_member.cc`

`lists` are two of `gScriptLists` (critters, items), in which a script has a sid that its
object keeps too (`sids`). Sids are counted anew on every map (`nextId`), those of removed
scripts are handed out again (`NewId`), and joining the party or travelling with it gives a
script another (`PartySid`, `ItemSid`). `vars` is the map's one array of local
variables, in which every removal moves the blocks behind it (`Shifted`) and every offset
with them. `frames` are suspended `scriptExecProc` calls, in which scripts come and go;
`PlaceNow` is the look-up, by the sid of the call, after each call out. `packs`, `leaving` and `file` are the
journey: the party's scripts and those of the items it carries are marked, kept out of
the saved map, freed with it and recovered on the next. `Stored` and `FileLoads` are what
`scriptSaveAll` writes by extents and `scriptListExtentRead` demands. Programs that run at the
map's exit may hand goods over or use them up when the goods' scripts are packed already;
`traded` remembers those.

### `ScriptHooks`: `sfall_script_hooks.cc`, `interpreter.cc`, `sfall_global_scripts.cc`

`hooks` are the lists per type. `frames` is the machine's stack: runs of programs and
calls of hooks; a frame's position stands for its address, since `drainStaleEntries`
compares addresses. `callStack` and `perType` are kept by hand beside it and go stale
when `programFatalError` jumps over a call (`ProgramFails`, `CallOverflows`); entries lie
in the order of their addresses, so those that are stale are the last (`Drained`). A call walks
a copy of its list from the end (`CallHandler`); a program that has exited but is not
freed is set up and not run (`CallExited`), one that was freed since the copy was made is
used all the same (`CallFreed`: the process ends there, or the call goes on). Programs are freed by the background loop
(also inside a movie that a handler plays), with their map, and by a load; those of
global scripts only by a load. Which programs the background loop runs while a handler
plays a movie is left out.

### `Goods`, `Barter`: `item.cc`, `inventory.cc`, `game_dialog.cc`

An inventory is a sequence of stacks `[kind, n, rounds, worn, from]`: one object and a
count, so that a pile of clips knows the rounds of one clip only and the rest are full.
`Added` and `Without` are `itemAdd` and `itemRemoveInternal`, with what merging does to
rounds. `Goods` has the inventory window (its three slots hold what its critter wears,
which leaves the list while the window is open), a sack that can be looked into, loading,
unloading, wielding, reloading and firing. `Barter` extends it with the two tables, the
trader's gear put aside, the box with what he hides, offers for a companion and the
records of whose object each was. The trader is a stranger, not a companion; weights,
prices and what hooks and scripts veto are choices; one calibre, one sack; armor is worn
in windows only. Looting, stealing, dropping, picking up, the caps dialog and a hidden
box that cannot be created are left out, and so is the reuse of an object's address in
the list of sources.

### `Sounds`: `sound.cc`, `audio_engine.cc`, `game_sound.cc`, `script_sound.cc`, `lips.cc`

`list` and `sounds` are the list at `gSoundListHead`, `engine` the buffers, `handle`,
`tracked` and `held` those who hold a sound: music, speech, lips, a program's opcode, the
loops and the song of scripts, an animation that has loaded an effect and not yet played
it. An operation of the main thread is a step, made of operators on a record of the state
(`Stopped`, `Played`, `Deleted` ...) that also collects the buffers whose mutex is taken
(`touched`): `Become` waits until the mixer (`mixer`) has left those. `soundContinueAll`
is a walk with its `curr` (`cursor`, with the next one read first); a sound that ended
calls its callback and, if it was to be forgotten, deletes itself in the walk. A
stream's buffer loops by itself and the stream is over when its file is read (`over`). A
buffer's frames, volumes, positions and fades are left out: a sound that does not loop may
end whenever the mixer is at it.

### `Input`: `input.cc`

`tickers` is the list of background processes from its head, as nodes; `process` says whose
each is and `removed` which are marked. `passes` are the calls of `tickersExecute`, one
within the other: a script or what an animation calls may play a movie, whose loop passes
over the list again (`Nesters`). `Call` reads the follower before the call, `Free` takes a
marked node out, in any of the passes; `IsoDisable`, `CombatBegin`, `TextObjectsReset` and
`GlobalsRemove` with their counterparts are those who mark, revive and add. `due` and `ran`
are kept for the property only. `ring` is the event queue with its two indices, `pending`
what it should hold. The processes that are never removed during a game, the endgame's,
dialogue's and world map's own, devices, buttons and the mouse are left out.

### Modules beside them

`EventQueueProofs`, `ScriptHooksProofs`, `CombatTurnsProofs`, `SaveSlotProofs`,
`SoundsProofs`, `MemoryProofs` and `ScheduleProofs` hold the theorems, `SequenceEdits` the
lemmas they share: what inserting, removing, prepending and appending do to length, elements and members of a
sequence, the least number of a set, and sums over finite sets: a sum splits over a
partition, follows a bijection, loses the term taken away. `MC*` modules give the constants values.
Components that share no modelled state are checked side by side: a behaviour of
`MCEvents`, `MCMemory`, `MCSchedule`, `MCScenes` or `MCProgress` is a behaviour
of one of their instances, chosen at the start by `scenario` or `scene`, and the others
stand still. `MCEvents`, `MCSchedule`, `MCScenes` and `MCProgress` also hold several instances of one
module, each with the constants that make its own case interesting.

## 3. What is checked

| Run | Module | Distinct states | What it shows |
|---|---|---|---|
| `queue` | `MCEvents` | 773,791 | handlers that add, remove, destroy and dispatch again; leaving a map with drugs, knock-outs, scripts and flares queued: memory safe, cursors live, no event but a knock-out outlives an owner it needs, and the refinement of `TimedEvents`; drugs and addiction |
| `memory` | `MCMemory` | 962,657 | the heap's blocks, handles and counters stay in step and it implements `HeapHandles`; the cache's accounts, order and blocks agree, room is made, what is referenced stays |
| `schedule` | `MCSchedule` | 2,126,084 | three mixes of animations: sequences keep their sads and objects, give back their slots, are counted; midnight, map updates, poison and radiation |
| `scenes` | `MCScenes` | 2,302,120 | scripts on a map and on the road; hooks within hooks; background processes within each other and the ring of events; what people carry, load, wield and trade; three saves with crashes and failing writes on both kinds of file system and with failing renames |
| `progress` | `MCProgress` | 159,921 | due events leave, cache calls return, turns' animations end; a fight of three: nobody is lost, passed over or remembers an enemy, whoever acts has a turn; every critter's script is run; sounds against the mixer's thread: buffers have one owner, no handle outlives its sound |
| `queue_lethal`, `queue_knockout`, `saves_recover`, `turns_skip`, `scripts_save`, `scripts_reuse`, `hooks_maps` | | | counterexamples, see section 6 |

**Bounds.** The queue has two to three objects of which one stays with the player, three
cells, three nested calls and one operation per handler (`MaxDepth`, `MaxOps`): a
handler that acts while two loops are suspended is the deepest interaction the code's
cursors distinguish, and with three cells there is a predecessor, a current node and a
follower. The clock shows two instants; delays are zero and one. `Word` (2^32) is 16
here: the sums never reach it.

The heap's arena of eleven units with overhead one and three handles holds enough blocks
for a merge on both sides of a moved block and for a split that leaves a remainder. The
cache has three files of sizes one to three in four units, so that one eviction may or may
not be enough, four handles so that an allocation can fail by itself, and a counter limit
of four so that resets happen.

The animations have three slots (two outside the reserve), two critters and a projectile,
two or three sads so that they run out, and nested calls to depth three or four;
`MaxBegins` bounds the runs with a liveness property. A slot with two maps sees a save that
drops a map and one that adds it; three saves are needed for a backup of a restored slot.
Two sounds compete for two buffers, one effect is the limit (`MaxEffects`), first among
music, effects and the loops and songs of scripts, then among speech, lips, opcodes and
scripts' sounds: a sound can be stopped, deleted and its address and buffer given to
another, of the same or of another holder, while the mixer reads or the round stands on it.

In `schedule` a day has four ticks and a minute two, and nine ticks see two midnights;
`Leaps` of three skip a whole update; poison has two levels, the worse with a delay of -3,
negative as above 101 in the code and long enough to reach behind a midnight (no bite is
due before the clock begins, `Unwrapped`); two doses, poisonings or saves (`MaxAdjust`). In `queue` two
critters take three doses of two drugs, one of them Jet, with one load. In `scenes` a clip holds two rounds and
a gun three, so that a gun takes more than one clip and a clip may remain; seven starts
have two equal guns, piles with a part-full clip, a sack, armor on both sides, a weapon in
the trader's hand or pack and something he hides; an object may be offered once at a time
(`MaxOffers`).

In `progress` three critters of two teams fight once, with one who is struck and two who are
taken off (`MaxStrikes`, `MaxRemovals`, `MaxFights`): that is enough for the first, the
current and the last in the order to go while another joins; the theorems say the same of
every number. In `scenes` three scripts on a map with
calls two deep and three additions or removals have one before, under and behind the one
that runs; the road has two critters, three items and three journeys, in extents of two.
Two programs, one of them a global script, two hooks, calls two deep and two raises, one
failure: a call may find its predecessor's entry stale. Seven nodes hold five background
processes and two more that are marked and not yet freed or listed twice, with three passes
within each other (`Loops`); a ring of three events wraps while full and while empty
(`Typing`). `progress` has three critters with scripts too.

Bounded histories end (no fights, doses, operations or raises are left): the clock, the
drugs, the goods, the fights, the scripts and the hooks may stand still (`ClockGoes`,
`ChemsStep`, `Ends`), and deadlock is checked for all else: the event queue, the memory, the
animations, the slot and the sounds. `CHECK_DEADLOCK FALSE` is set in violation runs only.

**What the runs leave out by choice.** In `schedule` fidgets are not mixed with errands
that use forced callbacks. A slot keeps `ANIM_SEQ_INSIGNIFICANT` and its siblings from
its last user (`animation.cc:432` only adds flags, `animation.cc:597` leaves them), so a
sequence with a forced callback may become interruptible because of the fidget before
it; its callback is then called from within `reg_anim_clear` of another caller and may
re-enter the sequence, and `Accounted` does not hold. In `queue`, exit handlers do not
kill (`LethalClear = FALSE`; `queue_lethal` lifts it), and delays are not negative. In `scenes`,
where rename replaces files, the player does not save over what a crash left: there a second crash can mix two
saves, since the backup of a half-written file replaces the good one.

In `schedule` and `progress` a forced callback does not clear the sequence whose end calls it
back. Nothing in the code keeps it from that but which callbacks are forced on end: those that
run scripts are registered in sequences of attacks, which are prioritized, and
`reg_anim_clear` refuses these. Without the bound `Accounted` does not hold: the sequence is
ended twice, and the second end is that of another sequence begun in the slot meanwhile.

In `scenes` the journey ends with the first change of map at whose exit programs handed over
or used up goods of the party (`traded`): that they lose or double their scripts then is
excepted in `OneScriptEach`, and what their stale sids do later is not followed.

In `scenes` no window is opened and no movie played in a fight (`FightScreens`), and global
scripts of input type play no movies: with either, the code uses a freed node (section 6).

**Properties with an exception.** `EveryoneActsBut` excepts the round in which all who had
a turn have left the list with the one whose turn it was (`turns_skip` shows why).
`DaysPass` excepts a midnight swallowed by a script's movie and a rest that set the clock
back over a midnight. `OwnersExist` excepts knock-outs (`queue_knockout` shows why), `OwnUnlessGone` a script that is
gone from under its sid (`scripts_reuse`), `OneScriptEach` goods that programs trade at a
map's exit. `DrugsPass` says of Jet only that the antidote leaves no trace when its events
are over. `GoodsKept` counts guns, armor, sacks and rounds, not clips, which loading and
unloading use up and make.

**Fairness.** Only `progress` assumes any. A suspended call continues (weak
fairness of the loops, of a handler's return, of the cache's work, of a called script, of
`scriptExecProc`, of a turn and of the combat loop's own steps): one thread runs them and
they have no loop of their own that waits. The main loop polls the queue again and again
and the background loop runs the pass over the sads (weak fairness of `Update`, which a
turn's waiting loop calls itself) and the critters' round: strong for the poll and the
round, because between two of them other code runs. Strong fairness of the last frame and
the last step says that an animation that is advanced again and again arrives: frame
counts and path lengths are finite. No fairness is assumed of callers, players or
scripts' wishes; no allocation is assumed to succeed. Additions and removals of scripts in `progress`
are bounded by `MaxOps`: with removals for ever the round's index could miss a critter for
ever.

## 4. What is proved

`EventQueueProofs`, for every set of cells, objects and event types in enum order, and every
bound, from `QueueConstants` and `EnumOrder`:

* `TypeCorrect`: `Spec => []TypeOK`. The type invariant is inductive; the step has a
  case per action, over lemmas on pushing, popping and replacing a frame and on editing
  the list.
* `MemorySafeIfCursorsLive`: `Spec /\ []CursorsLive => [](Memory /\ Sorted)`, for both kinds
  of exit handlers. No node is freed twice, used after it is freed or leaked, and the list
  stays sorted, *in every behaviour in which no suspended clear is left with a dangling
  cursor*. When exit handlers kill, the condition cannot be dropped: `queue_lethal` is a
  behaviour in which it fails. The inductive invariant is

      Sound == TypeOK /\ Idle(stack) /\ Memory /\ Sorted

  `Memory` says that linked cells and cells held by suspended loops are disjoint, each
  held once, and together exactly the allocated ones. `Idle`, that purges and map
  changes hold no cell while suspended, is what makes `Memory` inductive: without it the
  frame of a purge popped off the stack could take a cell with it. `Sorted` needs the
  facts that an insertion position is after every cell not later and before every later
  one, and that a cell not in the list can be rewritten without disturbing it.
* `ImplementsIfCursorsLive`: `Spec /\ []CursorsLive => ImplementsTimedEvents`. Each action is
  one step of `TimedEvents` or a stutter: an insertion is `Add` behind those of its time
  (`InsertionOrder`), taking out one cell leaves the order of the others (`RemovalLeaves`), the
  head that is due is the first of the pending (`InOrder`); what runs are the cells of the
  `process` frames. `LimitsKept`, that a suspended loop's limit is not later than the clock,
  is what makes a delivery one of a due event.
* `CursorsLiveUnlessLethal`, for exit handlers that do not kill: `Spec => []CursorsLive`. The
  invariant is `Sound /\ Route`. `Route` follows a change of map (`AtLeave`, `AtSweep`,
  `AtClear`): the types are cleared in enum order and what is left of a type done was kept by its
  handler (`Past`); up to its cursor a loop over a type has kept all of the type (`Passed`); an
  item has events of one type, timers of scripts apart (`UsedOnce`, from the guard `UsedFor`).
  So when a burnt flare's or an explosive's events are removed under the loop, no timer of a
  script is left, since `SCRIPT` comes first in the enum, and the item's others are of the
  loop's type, and were not kept: the cursor's cell is not one of them.
* `MemorySafe` and `ImplementsPromise` follow: `[](Memory /\ Sorted)` and
  `ImplementsTimedEvents`, without the condition.
* `OnlyKnockoutsOutlive`, for exit handlers that do not kill and any types, knock-outs
  included: `Spec => []OwnersExist`. An event that needs its owner and has lost it is a
  knock-out, or its owner's destruction is still under way. The invariant adds `GonePurged`: such
  an event of another type is found only under the removal of that owner's events, which is the
  innermost call. When the map's objects are freed, `Past` says that all types have been
  cleared and that what was kept belongs to the party or is a knock-out, which its handler keeps
  whoever it is of; that it is then handled is `queue_knockout`.

`ScriptHooksProofs`, for all programs, hook types and limits, from no assumption:

* `SpecNoneDangling`: `Spec => []NoneDangling`; `SpecHandlersCalled`:
  `Spec => []HandlersCalled`, for calls nested to any depth and cut short by fatal errors.
  The inductive invariant is

      hooks \in [HookTypes -> Ordered] /\ frames \in Seq(Frame(Living)) /\ NoneDangling

  `Ordered` lists hold no program twice, which survives registration at either end and
  removal. A call's frame is `Faithful` to its copy: `ran`
  is the copy read backwards as far as `index`; a run's frame is of a program that lives
  or has exited and is not a freed one, without which a freed program could register.
  A call that is jumped over simply leaves the sequence of frames, so that nothing about
  `callStack` is needed for these two.
* `SpecLastWord`: `Spec => []LastWord`. This one does rest on `callStack`. `Words` says that
  its entries lie in the order of their addresses, that every call on the stack has one, that
  what a call was told comes from the run right above it, and that a run above a call is of
  the handler it called last. Entries of calls long jumped over may remain: they are above
  the stack, hence last, and are taken off before the next call enters; the last entry at
  or below a run is then the call it belongs to.

`CombatTurnsProofs`, for every set of critters, their speeds and places, and any number of
attacks, removals and fights, from `TurnsConstants` (the critters are finitely many, the
player is one, whoever begins a fight does not attack himself):

* `SpecPartition`, `SpecEveryoneActsBut`, `SpecForgiven`. One inductive invariant serves
  all three,

      IInv == TypeOK /\ Grudges /\ (Fighting => Listing /\ Living /\ Walked)

  `Listing` is `Partition` by indexes. `Walked` says how far the round has come: whoever
  stands before the index the loop will go on with (`Reached`, which follows the removals)
  had a turn, and those who had one come first; without the second part a removal could
  move one who did not act behind the index. `Living` follows the loops that drop and park,
  `Grudges` says that whoever is not listed remembers nobody, so that `_combat_over` needs
  to look at the list only. The order by speed and the joiners' choice are any: the proof
  uses only that a round's order is a permutation of the list.

`SaveSlotProofs`, for any maps, number of saves and mix of faults, from `SaveSlotConstants`
(the names the code gives to its own files are not names of maps):

* `SpecAllOrNothing`: a save that fails leaves a sound slot as it was, but for the
  prototypes; one that succeeds leaves exactly its files. `Progress` says what each step
  has done, `Undone` where each file of before is, in its place or aside.
* `SpecLastSaveSurvives`, where `NothingReplaced`: renames replace nothing, or nothing
  crashes, or the player saves no more to that slot after a crash. `Survival` says that the
  version last saved is there, file by file, in place or aside.
* `SpecLoadedWhole`, where `NothingMixed`: nothing crashes, or no save follows a crash, or
  renames replace nothing and no restoration fails. `Coherent` says that what can be read
  or put back is of one save.

  Neither hypothesis can be dropped: with a rename that replaces and a save over what a
  crash left, the backup of a half-written file replaces the good one, and TLC has the
  counterexample. The three slots of `scenes` satisfy both.

`SoundsProofs`, for any number of sounds, buffers and effects and any mix of those who play,
from `SoundConstants` (there is a buffer):

* `SpecBuffersOwned`, `SpecSoundsHeld`. The invariant has the sounds with the buffers
  (`Core`), those who hold them (`Held`), the counter (`Counts`), and what the round and the
  mixer stand on. An operation is built of small steps on a record of the state, and each
  of these (stop, play, delete, a callback ...) has a lemma that it keeps `Good`: `Core`,
  `Held`, `Counts` and `Spared`, that no sound whose buffer's mutex was not taken has gone
  or changed its buffer. `Spared` is what makes the mixer safe: it stands on such a buffer.

`MemoryProofs`, the cache: for any files, sizes, handles and places, from `CacheConstants`: the files are
finitely many and fewer than `UINT_MAX` (`HitLimit`), a read returns between one byte and the
file's size, an entry can be referenced once at least.

* `SpecConsistent`: `Spec => []Consistent`. The size is the sum of the entries' at every point
  of a call, after every failed read and retry; the keys are sorted; no block is leaked or
  shared.
* `SpecRoomIsMade`: `Spec => []RoomIsMade`. A sweep makes the room wished for whenever what is
  referenced leaves it, whatever the hits and the ages.
* `SpecPinnedStay`: `Spec => PinnedStay`, an action property: no step of a sweep, a flush or a
  failed call takes an entry in use or moves its data.

  One inductive invariant serves all three:

      IInv == Books /\ Counts /\ CallSound /\ RoomKept /\ Heaps /\ Blocks /\ Enough

  `Books` are the sums and the order. `CallSound` says what is known where the call is: from
  the miss on its key is not in the cache. `RoomKept` is what carries the size bound over the
  retries: once `cacheEnsureSize` made room for a file nothing takes it, so the entry put in
  at the end fits. `Blocks` gives the running call one block of its own from its allocation
  until an entry has it. `Enough` says that the sweep marked either entries of the size that
  was missing or all that nobody refers to, which is why it may stop there. That the index
  `cacheAdd` inserts at is still right after the sweeps and flushes of the same call is the
  lemma `IndexBelongs`. That there are fewer files than `UINT_MAX` is needed where the
  counters are reset, since the entries are then numbered.

`MemoryProofs`, the heap: for any arena, overhead, smallest remainder, sizes asked for and any
finite set of handle indexes, from `ArenaConstants` (the constants are natural numbers, a
block has an overhead, a remainder that is split off has room for more than it, the arena has
room for one block, nobody asks for nothing; `heapBlockAllocate` and `heapInit`):

* `EitherValidate`: `Either => []Validate`. Whatever allocations joined, split, moved or could
  not bind, the blocks tile the arena, blocks and handles name each other, and each of the
  eight counters is what a walk counts.
* `EitherImplements`: `Either => ImplementsHeapHandles`. The heap is a `HeapHandles`: every step
  is a step of one handle's holder or nobody's, and in both nobody else's bytes or locked
  address change.

  The inductive invariant is

      Sound(m, s, hs, sys) ==
        /\ Tiles(m) /\ hs \in [Slot -> HandleSort] /\ Named(m, hs) /\ Elsewhere(hs, sys)
        /\ s \in Counter /\ Counted(m, s) /\ CountedSystem(sys, s)

  of an arena, counters, handles and system blocks that need not be the variables: one
  `heapBlockAllocate` goes through a joined arena and perhaps an emptied extent before it binds
  a block, and each stage keeps `Sound` (`JoinedKeeps`, `MovedKeeps`, `BindKeeps`,
  `BindSystemKeeps`), also where no handle is left and the call fails. `Tiles` says the same as
  the walk does, locally: block ends are block starts or the arena's end, and no block starts
  inside another. It has no free counters: with the bytes and overheads of all blocks adding
  up to the arena (`TilesFill`), what is free is what is left (`CountedFree`), so that joining
  blocks needs no count of what was joined. That an extent may be emptied, one block at a time
  in the code, is `Reservations`: distinct free blocks outside it, each big enough
  (`MovedIs`); merges and splits of what is left over are lemmas about cutting blocks in two
  (`Cut`). `KeptAt` carries a holder's bytes through each stage, which is the refinement.

`ScheduleProofs`, the animations, for any plans, objects and scripts that run on the way and any number of
slots, sads and descriptions, from `AnimationConstants`:

* `SequencesExclude`: `Spec /\ []PassInBounds => []OwnersExclusive`. The inductive invariant is
  `Types /\ OwnersExclusive /\ OthersFree`. `OthersFree` says that no sequence in progress owns
  an object of what is being registered: `_check_registry` sees only started sequences, and
  between the check and `reg_anim_end` anything that starts one must come from somewhere else.
* `TurnsBalance`: `NoDamageScripts` and `Spec /\ []PassInBounds => []CombatBalanced`. The
  invariant adds `Turns`, which follows a combat sequence from its start to the freeing of its
  slot, with a damage dealt, a standing up and a turn run in between: a combat flag is of a
  sequence in progress or of one whose end deals damage (`FlagsKnown`); dealing damage waits
  for nobody or for the one who stands up (`FinishesWait`); a sequence that is being ended
  counts, or has been ended by a call from there (`EndsKnown`); a slot held back is free
  (`HeldFree`), and nobody who builds in a slot has it ended under him (`SomeoneBuilds`).

  `PassInBounds`, the first part of `StepsLiveSads`, says that the pass over the sads is resumed
  on a sad that is there. It is a hypothesis since beyond the last sad the code reads what a
  former one left (`gAnimationSads` is not cleared), which the model leaves unspecified; TLC
  checks it for the three mixes of `schedule`. `NoDamageScripts` cannot be dropped: the flag
  of a sequence that such a script begins is wiped (section 6).

`ScheduleProofs`, the clock, for any lengths of a minute and a day, delays, leaps and bounds,
from `ClockConstants` (a minute is not longer than a day and neither is nothing; only
poison's delays may be negative):

* `DaysAlwaysPass`: `ClockSpec => []DaysPass`. The next midnight and the map's next update are
  pending, in time, and midnight comes once a day, with the two exceptions.
* `AilmentsAlwaysEnd`: `ClockSpec => []AilmentsEnd`. The poisoned player has one bite pending,
  and the penalties radiation left are what one pending event gives back.

  One inductive invariant serves both:

      ClockInv == NowTyped /\ BodyTyped /\ QueueOK(queue, peak, poison, ill) /\ SlotOK
                  /\ EventsPending /\ Once

  `QueueOK` says of a queue that it is sorted, holds one bite and one healing event at most,
  and no midnight or update later than the peak accounts for; it is asked of the saved game's
  queue too (`SlotOK`), with the poison, the illness and the peak saved with it, since a load
  brings it back. `EventsPending` drops the condition that no handler runs: only while
  midnight's own movie plays may midnight be missing. `Once` is what makes "once a day"
  inductive: no midnight that is pending is of a day whose midnight has come, here or in the
  saved game. `With` and `Levels` are recursive functions; `WithIs` shows by the order of the
  indexes that what `With` keeps is what was there, in its order (`Iterates` proves that such
  a function exists), and with one healing event at most `LevelsIs` says what the sum is.

  The proof corrected the model: stated for a clock that a rest sets back by a tick, `DaysPass`
  is false, since an overdue event takes the clock back as far as the poison is strong
  (section 6).

What needs induction, the sums included, is proved by a least counterexample (`Least` in
`SequenceEdits`), since the library's induction theorems take an operator.

**Model-checked only**: `Accounted` and `StepsLiveSads` of the animations; everything about
drugs, scripts' lists, goods and input. **Out of the prover's reach**: the liveness
properties (fairness and
`ENABLED`), and anything by induction over recursive data, such as what a fold over an
inventory or `SelectSeq` of a list computes.

## 5. What is not modelled, and the plan

Not modelled: `queueSave` and `queueLoad`; attacks and AI; the fight resumed from a saved
game (`combat.cc:3792`); spatial, timed and system scripts; looting and stealing; the
timing of global scripts, arrays and saved globals; fades and positions of sounds; devices, buttons and the mouse; the
prototypes; the world map; dialogue; the programs' own control (spawn, fork, wait). Out of scope: drawing,
decoding and parsing (pure functions over data); opcode tables (each opcode is a call of
another component); screens (modal loops over other components' state); the map editor;
platform wrappers; vendored code.

In this order, most important first:

1. `QueueStore`: saving and loading the event list, with a read that fails in the middle
   (`queue.cc:101-277`): load after save gives the same list, a failed load leaves what it
   left.
2. `GlobalScripts`: their repetition, the collected input scripts, arrays that are
   temporary until saved; over `ScriptHooks`.
3. `Programs`: spawn, call, fork, wait, critical sections, over `Input`'s passes.
4. Fades, over `Sounds`; and that what plays once ends, under fairness of the mixer and of
   the background round.
5. `SlotRing`: the automatic quick saves and the list of slots, over `SaveSlot`.
6. `MapChange`: composes maps, objects, queue, scripts and animation: nothing refers to
   what was freed. World map, prototypes with the party's, dialogue later.

Abstract specifications to state: "an atomic slot" for the saves, "a turn scheduler" for
combat, "a multiset of goods" for inventories. Proofs to add: `PassInBounds` and `Accounted` of the animations; the
variables and scripts of `ScriptLists`.

## 6. Where code and text disagree

Each is a run that TLC ends with a counterexample; `PROJECT.json` quotes the lines.

| Run | Property | What happens |
|---|---|---|
| `queue_lethal` | `CursorsLive` | leaving a map while a drug's end effect kills: the clear loop's `ptr` is left in a freed node, the case the comment at `queue.cc:500` says is fixed |
| `queue_knockout` | `HandledOwnersExist` | a knock-out survives the map change of its critter (`knockoutClear` answers 0 for everybody, `critter.cc:1424`) and is later handled with the freed owner, which the guards, who ask for null, let pass |
| `saves_recover` | `BackupFound` | the recovery looks for `SAVE.DAT.BAK`; the backup is `SAVE.BAK` |
| `turns_skip` | `EveryoneActs` | when everyone up to the one whose turn it is leaves the list in that turn, the next is passed over |
| `scripts_save` | `SavedMapLoads` | an extent of the saved script list is longer than the list's count implies, and the map does not load |
| `scripts_reuse` | `OwnScriptUsed` | a script removed while it runs leaves its sid to a new one, and `scriptExecProc`, which looks its script up again by that sid, goes on with the new one's |
| `hooks_maps` | `HooksStay` | every change of map empties the lists of hooks, those of global scripts included, which are told to register at new games and loads only |

Seen while modelling, with no run of their own:

* *Queue.* A `queueLoad` that fails in the middle frees what it
  read and puts nothing back.
* *Heap and cache.* `cacheResetStatistics` (`cache.cc:434`) numbers the entries so that
  the *least* recently used gets the highest number, the reverse of what `cache.h:53` says
  of the field.
* *Animation.* The slots' inherited flags (section 3). A sequence that fails while another
  waits for its ping leaves that slot marked, and a later turn never ends
  (`animation.cc:1408`). A damage script that animates its critter begins a sequence in the
  slot that is being freed, and its combat flag is wiped (`animation.cc:1755`). An attack
  whose first animation cannot be played has ended before its damage is due
  (`combat.cc:4195`). When the end of a sequence destroys a hidden object, all its
  descriptions' owners are set to null; the loop after it asks whether the owner (null) is among
  the destroyed, which it is not, and reads `owner->fid` (`animation.cc:1681-1704`): the
  comment there wants to avoid just that. A forced callback that clears its own sequence ends
  it a second time.
* *Combat.* An answer of -1 from a turn is ignored when the last in the order had its turn
  and someone was taken off (`combat.cc:3862`). A script asked whether its critter joins may
  take that critter off the list, and the counts go wrong. Destroyed critters stay in
  others' `whoHitMe`. `_combat_delete_critter` (`combat.cc:7112`) copies the AI's notes by
  index although the list was swapped and sorted. A fight saved with a critter of another
  elevation enrolled does not load (`combat.cc:2242`). Reloading from a clip that it does
  not empty costs the AI no action points and makes no sound (`combat_ai.cc:3383`).
* *Clock.* A rest sets the clock to just after the first event that is not later than its
  goal, without asking whether it is overdue (`pipboy.cc:2405`, `2472`): back by as much as a
  bite of a negative delay is overdue, which is minutes. With such a bite just after midnight
  and a map left before the clock is there again, that midnight comes twice. A program that advances the time while a
  script's movie plays swallows midnight until the next change of map. A cured player's
  pending poison event still costs a hit point. The event of a lower level of radiation
  clears a stronger one's. Disabling the map also stops timed events while the Pip-Boy is
  open. Delays are signed, the clock is not: from 2^31 ticks on they disagree.
* *Sound.* `soundEffectDelete` (`game_sound.cc:1270`) counts an effect down that
  `soundEffectCallback` has counted down in the same deletion, so that the "number of
  active effects (max 4)" (`game_sound.cc:71`) falls below zero with every animation that
  is cut short before its sound, and more than four effects may play. `SoundsHeld`
  therefore says "at most", not "equal".
* *Drugs.* The antidote taken before the withdrawal's onset improves stats until then;
  taken by a companion while the player is addicted it takes the effect from the companion.
  What reading a saved game drops of effects on current values, age and gender
  (`item.cc:3347`) stays for good; `DrugsPass` is about bonus stats.
* *Scripts.* The variables of carried items' scripts stay behind in the saved map's array.
  A map-exit script that destroys a carried scripted item leaves a dangling entry; items
  handed over at map exit lose or double their script, and may later remove another's by their
  stale sid; a companion without a script loses its items' scripts. `partyMemberAdd` renames the
  script of whoever joins (`party_member.cc:422`): the call that is running it finds nothing
  under the old sid and ends without the hook after it and without clearing its source and
  action.
* *Items and trade.* The records of whose object was offered go wrong for merged stacks and
  partial returns (`inventory.cc:6187`). Leaving with Escape gives companions' offers to the
  player. Wielding the wielded weapon puts it away. Loading a pile of clips onto a gun
  further down the list loads only one (`inventory.cc:6530`). A stack of armor that a script
  has worn is not split. With caps in two bags `itemCapsAdjust` (`item.cc:3692`) adds
  instead of taking. When the hidden box cannot be created the early return loses the
  trader's gear (`inventory.cc:6022`).
* *Saves.* A failed save leaves its prototypes of the party under the save that was
  restored (`loadsave.cc:3403`). A failing rename in `_RestoreSave` erases the slot and its
  caller then erases the backups (`LastSaveSurvives` is stated up to that); where rename
  refuses to replace, a `SAVE.BAK` left by a crash makes every later save to that slot
  fail; the removal of the temporary file after a failed header (`loadsave.cc:2098`) uses a
  path without the data directory; the explicit backups of the automap and of sfall's
  variables are never reached, since `*.SAV` matches both.
* *Hooks and programs.* A handler that plays a movie lets the background loop free an
  exited program whose entry is still in the copy the call walks, and the call uses it
  (`sfall_script_hooks.cc:222`, `interpreter.cc:3640`; `CallFreed`). Stale entries of the call stack at
  the new call's own address or above it survive the drain, although the comment at
  `sfall_script_hooks.cc:163` has them all below. An exited *global* script keeps its
  hooks, each call pushes onto its stack, and the overflow is a fatal error of whoever is
  current. A handler that waits and answers later answers another call. A jump over a
  nested call fails the `assert` at the end of the outer one in debug builds, and over a
  frame that set the flag of `HOOK_SETGLOBALVAR` leaves it set. Executing an imported
  procedure restores the wrong program's jump buffer (`interpreter.cc:3444`).
  `SFALL_COMPATIBILITY.md:104` says `register_hook_proc` and `_spec` both add to the end of
  the list; the code puts `_spec` at its beginning.
* *Background loop.* A nested `_updatePrograms` enters a suspended program again, leaving
  its jump buffer in a dead frame, and may free the node the outer loop goes on with. So may
  `tickersExecute` inside a ticker (`input.cc:328`): a global script of input type that plays
  a movie lets the inner pass free `_dude_fidget`'s node, which comes next. `tickersAdd` of a
  procedure that is there adds a second node and `tickersRemove` marks only the first: a
  window opened in a fight lists `_dude_fidget` again when it closes and the fight's end
  (`combat.cc:2980`) once more, so that one of the two runs on while the map is disabled, and
  `textObjectsReset` (`text_object.cc:108`) adds its process at every change of map.
