---------------------------- MODULE SoundsProofs ----------------------------
(***************************************************************************)
(* Proofs about Sounds for any addresses, any number of buffers and any    *)
(* roles played.                                                           *)
(*                                                                         *)
(* An operation makes a state of another by several small steps; what each *)
(* of those does is a lemma, and Good what they all keep: the buffers and  *)
(* the sounds belong to each other, whoever holds a sound holds one that   *)
(* is there, and no buffer the operation has not taken the mutex of has    *)
(* changed hands since it began (Spared).                                  *)
(***************************************************************************)
EXTENDS Sounds, SequenceEdits, FiniteSetTheorems

Kind == [role : AllRoles \cup {"none"}, loops : BOOLEAN, stream : BOOLEAN,
         buffer : Buffer \cup {0}, playing : BOOLEAN, paused : BOOLEAN, over : BOOLEAN,
         callback : BOOLEAN]
Voice == [active : BOOLEAN, playing : BOOLEAN, looping : BOOLEAN]
State ==
  [list : Seq(Sound), sounds : [Sound -> Kind], engine : [Buffer -> Voice],
   handle : [Handles -> Sound \cup {NIL}], tracked : Seq(Sound), counter : Int,
   touched : SUBSET Buffer]

\* The sounds of a state.
In(st) == Range(st.list)
Loops(role) == role \in {"looping", "song"}
HasCallback(role) == role \in {"effect", "music", "speech", "program"}

\* What a sound in the list is like.
Sane(sound) ==
  /\ sound.role # "none" /\ sound.buffer # 0
  /\ sound.over => ~sound.loops
  /\ sound.callback <=> HasCallback(sound.role)
  /\ Loops(sound.role) => sound.loops
  /\ sound.role \in {"effect", "lips", "speech", "once"} => ~sound.loops

\* The sounds and the buffers.
Core(st) ==
  /\ st \in State /\ Distinct(st.list)
  /\ \A s \in Sound \ In(st) : st.sounds[s] = Unused
  /\ \A s \in In(st) : Sane(st.sounds[s])
  /\ \A s \in In(st) : st.engine[st.sounds[s].buffer].active
  /\ \A s, t \in In(st) : st.sounds[s].buffer = st.sounds[t].buffer => s = t
  /\ \A b \in Buffer : st.engine[b].active => \E s \in In(st) : st.sounds[s].buffer = b
  /\ \A s \in In(st) : st.sounds[s].playing /\ st.sounds[s].loops =>
       st.engine[st.sounds[s].buffer].playing /\ st.engine[st.sounds[s].buffer].looping

\* Those who hold them, but that somebody may still hold x.
HeldBut(st, x) ==
  /\ \A h \in Handles : st.handle[h] \notin {NIL, x} =>
       st.handle[h] \in In(st) /\ st.sounds[st.handle[h]].role = h
  /\ \A s \in In(st) : st.sounds[s].role \in Handles => st.handle[st.sounds[s].role] = s
  /\ Distinct(st.tracked) /\ Range(st.tracked) \ {x} = {s \in In(st) : Loops(st.sounds[s].role)} \ {x}
  /\ \A s, t \in In(st) : st.sounds[s].role = "song" /\ st.sounds[t].role = "song" => s = t
Held(st) == HeldBut(st, NIL)

EffectsOf(st) == {s \in In(st) : st.sounds[s].role = "effect"}
Counts(st) == st.counter <= Cardinality(EffectsOf(st))

\* Compared with the state there is.
Spared(st) ==
  \A s \in Listed : sounds[s].buffer \in st.touched
                    \/ (s \in In(st) /\ st.sounds[s].buffer = sounds[s].buffer)
SameEffects(st) ==
  /\ EffectsOf(st) = Effects
  /\ \A s \in Effects : st.sounds[s].playing = sounds[s].playing

Good(st) == Core(st) /\ Held(st) /\ Counts(st) /\ Spared(st)

IInv ==
  /\ Core(Now) /\ Held(Now) /\ Counts(Now)
  /\ \A s \in Effects : s \in held <=> ~sounds[s].playing
  /\ held \subseteq Effects
  /\ cursor \in Listed \cup {NIL}
  /\ mixer \in [at : Buffer, reads : Sound \cup {NIL}]
  /\ mixer.reads # NIL => mixer.reads \in Listed /\ sounds[mixer.reads].buffer = mixer.at

-----------------------------------------------------------------------------
(* What the small steps do *)

LEMMA NowGood ==
  ASSUME IInv
  PROVE  Good(Now) /\ SameEffects(Now) /\ In(Now) = Listed /\ EffectsOf(Now) = Effects
<1>1. In(Now) = Listed /\ Now.sounds = sounds
  BY DEF In, Listed, Now
<1> QED BY <1>1 DEF IInv, Good, Spared, SameEffects, EffectsOf, Effects

LEMMA StateFacts ==
  ASSUME NEW st \in State
  PROVE  /\ st.list \in Seq(Sound) /\ st.sounds \in [Sound -> Kind] /\ st.engine \in [Buffer -> Voice]
         /\ st.handle \in [Handles -> Sound \cup {NIL}] /\ st.tracked \in Seq(Sound)
         /\ st.counter \in Int /\ st.touched \in SUBSET Buffer
         /\ In(st) \subseteq Sound /\ In(st) = Members(st.list)
BY RangeIs DEF State, In

\* A flag of a sound, or of a buffer, is set.
LEMMA FlagSet ==
  ASSUME NEW st \in State, NEW v \in BOOLEAN
  PROVE  /\ \A k \in Kind : /\ [k EXCEPT !.playing = v] \in Kind /\ [k EXCEPT !.paused = v] \in Kind
                            /\ [k EXCEPT !.over = v] \in Kind /\ [k EXCEPT !.callback = v] \in Kind
         /\ \A k \in Voice : /\ [k EXCEPT !.playing = v] \in Voice /\ [k EXCEPT !.active = v] \in Voice
                             /\ [k EXCEPT !.looping = v] \in Voice
<1>1. \A k \in Kind : /\ [k EXCEPT !.playing = v] \in Kind /\ [k EXCEPT !.paused = v] \in Kind
                      /\ [k EXCEPT !.over = v] \in Kind /\ [k EXCEPT !.callback = v] \in Kind
  BY DEF Kind
<1>2. \A k \in Voice : /\ [k EXCEPT !.playing = v] \in Voice /\ [k EXCEPT !.active = v] \in Voice
                       /\ [k EXCEPT !.looping = v] \in Voice
  BY DEF Voice
<1> QED BY <1>1, <1>2

\* The sounds, the buffers and the mutexes taken become these.
With(st, sd, en, seen) == [st EXCEPT !.sounds = sd, !.engine = en, !.touched = seen]

LEMMA WithIs ==
  ASSUME NEW st \in State, NEW sd \in [Sound -> Kind], NEW en \in [Buffer -> Voice],
         NEW seen \in SUBSET Buffer
  PROVE  /\ With(st, sd, en, seen) \in State
         /\ With(st, sd, en, seen).list = st.list
         /\ With(st, sd, en, seen).sounds = sd
         /\ With(st, sd, en, seen).engine = en
         /\ With(st, sd, en, seen).handle = st.handle
         /\ With(st, sd, en, seen).tracked = st.tracked
         /\ With(st, sd, en, seen).counter = st.counter
         /\ With(st, sd, en, seen).touched = seen
BY DEF State, With

\* Only flags of s and of its buffer differ, and the buffer of a sound that loops goes on.
Flagged(st, r, s) ==
  /\ r \in State /\ r.list = st.list /\ r.handle = st.handle /\ r.tracked = st.tracked
  /\ r.counter = st.counter /\ st.touched \subseteq r.touched
  /\ \A t \in Sound \ {s} : r.sounds[t] = st.sounds[t]
  /\ r.sounds[s].role = st.sounds[s].role /\ r.sounds[s].loops = st.sounds[s].loops
  /\ r.sounds[s].buffer = st.sounds[s].buffer /\ r.sounds[s].callback = st.sounds[s].callback
  /\ r.sounds[s].stream = st.sounds[s].stream
  /\ r.sounds[s].over => st.sounds[s].over \/ ~st.sounds[s].loops
  /\ \A b \in Buffer : r.engine[b].active = st.engine[b].active
  /\ \A b \in Buffer \ {st.sounds[s].buffer} : r.engine[b] = st.engine[b]
  /\ r.sounds[s].playing /\ r.sounds[s].loops =>
       /\ r.engine[st.sounds[s].buffer].playing
       /\ r.engine[st.sounds[s].buffer].looping

LEMMA FlaggedGood ==
  ASSUME NEW st, NEW r, NEW s \in In(st), Good(st), Flagged(st, r, s)
  PROVE  /\ Good(r) /\ In(r) = In(st)
         /\ SameEffects(st) /\ (st.sounds[s].role # "effect" \/ r.sounds[s].playing = st.sounds[s].playing)
              => SameEffects(r)
<1>1. st \in State /\ r \in State /\ In(r) = In(st) /\ s \in Sound
  BY StateFacts DEF Good, Core, Flagged, In
<1>2. \A t \in Sound : /\ r.sounds[t].role = st.sounds[t].role /\ r.sounds[t].loops = st.sounds[t].loops
                       /\ r.sounds[t].buffer = st.sounds[t].buffer
                       /\ r.sounds[t].callback = st.sounds[t].callback
  BY DEF Flagged
<1>3. In(st) \subseteq Sound /\ \A t \in In(st) : st.sounds[t].buffer \in Buffer
  BY <1>1, StateFacts DEF Good, Core, Sane, State, Kind
<1>4. Core(r)
  <2>1. Distinct(r.list) /\ \A t \in Sound \ In(r) : r.sounds[t] = Unused
    BY <1>1 DEF Good, Core, Flagged
  <2>2. \A t \in In(r) : Sane(r.sounds[t])
    BY <1>1, <1>2, <1>3 DEF Good, Core, Sane, Flagged
  <2>3. /\ \A t \in In(r) : r.engine[r.sounds[t].buffer].active
        /\ \A t, u \in In(r) : r.sounds[t].buffer = r.sounds[u].buffer => t = u
        /\ \A b \in Buffer : r.engine[b].active => \E t \in In(r) : r.sounds[t].buffer = b
    BY <1>1, <1>2, <1>3 DEF Good, Core, Flagged
  <2>4. \A t \in In(r) : r.sounds[t].playing /\ r.sounds[t].loops =>
          r.engine[r.sounds[t].buffer].playing /\ r.engine[r.sounds[t].buffer].looping
    <3> SUFFICES ASSUME NEW t \in In(st), r.sounds[t].playing, r.sounds[t].loops
                 PROVE  /\ r.engine[st.sounds[t].buffer].playing
                        /\ r.engine[st.sounds[t].buffer].looping
      BY <1>1, <1>2, <1>3
    <3>1. CASE t = s
      BY <3>1 DEF Flagged
    <3>2. CASE t # s
      <4>1. st.sounds[t].buffer # st.sounds[s].buffer
        BY <3>2 DEF Good, Core
      <4>2. r.engine[st.sounds[t].buffer] = st.engine[st.sounds[t].buffer] /\ r.sounds[t] = st.sounds[t]
        BY <1>3, <3>2, <4>1 DEF Flagged
      <4> QED BY <4>2 DEF Good, Core
    <3> QED BY <3>1, <3>2
  <2> QED BY <1>1, <2>1, <2>2, <2>3, <2>4 DEF Core
<1>5. Held(r)
  <2>1. /\ r.handle = st.handle /\ r.tracked = st.tracked
        /\ \A h \in Handles : st.handle[h] \in In(st) => st.handle[h] \in Sound
    BY <1>3 DEF Flagged
  <2>2. HeldBut(st, NIL)
    BY DEF Good, Held
  <2> QED BY <1>1, <1>2, <1>3, <2>1, <2>2 DEF Held, HeldBut
<1>6. EffectsOf(r) = EffectsOf(st)
  BY <1>1, <1>2, <1>3 DEF EffectsOf
<1>7. Counts(r)
  BY <1>6 DEF Good, Counts, Flagged
<1>8. Spared(r)
  BY <1>1, <1>2, <1>3 DEF Good, Spared, Flagged
<1>9. SameEffects(st) /\ (st.sounds[s].role # "effect" \/ r.sounds[s].playing = st.sounds[s].playing)
        => SameEffects(r)
  BY <1>1, <1>3, <1>6 DEF SameEffects, EffectsOf, Flagged
<1> QED BY <1>1, <1>4, <1>5, <1>7, <1>8, <1>9 DEF Good

LEMMA ListedSound ==
  ASSUME NEW st, NEW s \in In(st), Good(st)
  PROVE  /\ st \in State /\ s \in Sound /\ st.sounds[s] \in Kind /\ Sane(st.sounds[s])
         /\ st.sounds[s].buffer \in Buffer /\ st.engine[st.sounds[s].buffer] \in Voice
         /\ st.touched \cup {st.sounds[s].buffer} \in SUBSET Buffer
<1>1. st \in State /\ s \in Sound /\ Sane(st.sounds[s])
  BY StateFacts DEF Good, Core
<1>2. st.sounds[s] \in Kind /\ st.engine \in [Buffer -> Voice] /\ st.touched \in SUBSET Buffer
  BY <1>1, StateFacts
<1>3. st.sounds[s].buffer \in Buffer
  BY <1>1, <1>2 DEF Sane, Kind
<1> QED BY <1>1, <1>2, <1>3

\* The sound s becomes k, its buffer v, and its mutex was taken.
Changed(st, s, k, v) ==
  With(st, [st.sounds EXCEPT ![s] = k], [st.engine EXCEPT ![k.buffer] = v], st.touched \cup {k.buffer})
\* What is good is kept, and only s differs.
Alters(st, r, s, k) ==
  /\ Good(r) /\ In(r) = In(st) /\ r.list = st.list /\ r.handle = st.handle /\ r.tracked = st.tracked
  /\ r.sounds[s] = k /\ \A t \in Sound \ {s} : r.sounds[t] = st.sounds[t]
  /\ SameEffects(st) /\ (st.sounds[s].role # "effect" \/ k.playing = st.sounds[s].playing)
       => SameEffects(r)

LEMMA WithGood ==
  ASSUME NEW st, NEW s \in In(st), Good(st), NEW k \in Kind, NEW v \in Voice,
         k.role = st.sounds[s].role, k.loops = st.sounds[s].loops, k.buffer = st.sounds[s].buffer,
         k.callback = st.sounds[s].callback, k.stream = st.sounds[s].stream,
         k.over => st.sounds[s].over \/ ~k.loops,
         v.active = st.engine[k.buffer].active,
         k.playing /\ k.loops => v.playing /\ v.looping
  PROVE  Alters(st, Changed(st, s, k, v), s, k)
<1> DEFINE sd == [st.sounds EXCEPT ![s] = k]
           en == [st.engine EXCEPT ![k.buffer] = v]
           seen == st.touched \cup {k.buffer}
           r == With(st, sd, en, seen)
<1>1. /\ st \in State /\ s \in Sound /\ k.buffer \in Buffer /\ seen \in SUBSET Buffer
      /\ st.sounds \in [Sound -> Kind] /\ st.engine \in [Buffer -> Voice]
  BY ListedSound, StateFacts
<1>2. /\ sd \in [Sound -> Kind] /\ sd[s] = k /\ \A t \in Sound \ {s} : sd[t] = st.sounds[t]
      /\ en \in [Buffer -> Voice] /\ en[k.buffer] = v
      /\ \A b \in Buffer \ {k.buffer} : en[b] = st.engine[b]
  BY <1>1
<1>3. st.touched \subseteq seen
  OBVIOUS
<1> HIDE DEF sd, en, seen
<1>4. /\ r \in State /\ r.list = st.list /\ r.sounds = sd /\ r.engine = en /\ r.handle = st.handle
      /\ r.tracked = st.tracked /\ r.counter = st.counter /\ r.touched = seen
  BY <1>1, <1>2, WithIs
<1> HIDE DEF r
<1>5. Flagged(st, r, s)
  BY <1>1, <1>2, <1>3, <1>4 DEF Flagged
<1>6. /\ Good(r) /\ In(r) = In(st)
      /\ SameEffects(st) /\ (st.sounds[s].role # "effect" \/ r.sounds[s].playing = st.sounds[s].playing)
           => SameEffects(r)
  BY <1>5, FlaggedGood
<1> QED BY <1>2, <1>4, <1>6 DEF Alters, Changed, r, sd, en, seen

\* A sound made to play, and made not to.
Playing(k) == [k EXCEPT !.playing = TRUE]
Quiet(k) == [k EXCEPT !.playing = FALSE]

LEMMA PlayingIs ==
  ASSUME NEW k \in Kind
  PROVE  /\ Playing(k) \in Kind /\ Playing(k).playing
         /\ Playing(k).role = k.role /\ Playing(k).loops = k.loops
         /\ Playing(k).buffer = k.buffer /\ Playing(k).callback = k.callback
         /\ Playing(k).stream = k.stream /\ Playing(k).over = k.over
         /\ Playing(k).paused = k.paused
BY DEF Kind, Playing

LEMMA QuietIs ==
  ASSUME NEW k \in Kind
  PROVE  /\ Quiet(k) \in Kind /\ ~Quiet(k).playing
         /\ Quiet(k).role = k.role /\ Quiet(k).loops = k.loops
         /\ Quiet(k).buffer = k.buffer /\ Quiet(k).callback = k.callback
         /\ Quiet(k).stream = k.stream /\ Quiet(k).over = k.over
         /\ Quiet(k).paused = k.paused
         /\ ~k.playing => Quiet(k) = k
BY DEF Kind, Quiet

LEMMA StoppedGood ==
  ASSUME NEW st, NEW s \in In(st), Good(st)
  PROVE  Alters(st, Stopped(st, s), s, Quiet(st.sounds[s]))
<1> DEFINE k == Quiet(st.sounds[s])
           was == st.engine[st.sounds[s].buffer]
<1>1. /\ st \in State /\ s \in Sound /\ st.sounds[s] \in Kind /\ st.sounds[s].buffer \in Buffer
      /\ was \in Voice
      /\ st.sounds \in [Sound -> Kind] /\ st.engine \in [Buffer -> Voice]
  BY ListedSound, StateFacts
<1>2. /\ k \in Kind /\ k.role = st.sounds[s].role /\ k.loops = st.sounds[s].loops
      /\ k.buffer = st.sounds[s].buffer /\ k.callback = st.sounds[s].callback
      /\ k.stream = st.sounds[s].stream /\ k.over = st.sounds[s].over /\ ~k.playing
      /\ ~st.sounds[s].playing => st.sounds[s] = k
  BY <1>1, QuietIs
<1>3. CASE ~st.sounds[s].playing
  BY <1>2, <1>3 DEF Stopped, Alters
<1>4. CASE st.sounds[s].playing
  <2>1. PICK v \in Voice : v = [was EXCEPT !.playing = FALSE] /\ v.active = was.active
    <3> DEFINE w == [was EXCEPT !.playing = FALSE]
    <3> w \in Voice /\ w.active = was.active
      BY <1>1 DEF Voice
    <3> WITNESS w \in Voice
    <3> QED OBVIOUS
  <2>2. Stopped(st, s) = Changed(st, s, k, v)
    BY <1>1, <1>2, <1>4, <2>1 DEF Stopped, Touched, Changed, With, State, Quiet
  <2>3. Alters(st, Changed(st, s, k, v), s, k)
    BY <1>2, <2>1, WithGood
  <2> QED BY <2>2, <2>3
<1> QED BY <1>3, <1>4

LEMMA PlayedGood ==
  ASSUME NEW st, NEW s \in In(st), Good(st)
  PROVE  Alters(st, Played(st, s), s, Playing(st.sounds[s]))
<1> DEFINE k == Playing(st.sounds[s])
           was == st.engine[st.sounds[s].buffer]
           loops == was.looping \/ st.sounds[s].loops \/ st.sounds[s].stream
<1>1. /\ st \in State /\ s \in Sound /\ st.sounds[s] \in Kind /\ st.sounds[s].buffer \in Buffer
      /\ was \in Voice
      /\ st.sounds \in [Sound -> Kind] /\ st.engine \in [Buffer -> Voice]
  BY ListedSound, StateFacts
<1>2. /\ k \in Kind /\ k.role = st.sounds[s].role /\ k.loops = st.sounds[s].loops
      /\ k.buffer = st.sounds[s].buffer /\ k.callback = st.sounds[s].callback
      /\ k.stream = st.sounds[s].stream /\ k.over = st.sounds[s].over /\ k.playing
  BY <1>1, PlayingIs
<1>3. PICK v \in Voice : /\ v = [was EXCEPT !.playing = TRUE, !.looping = loops]
                         /\ v.active = was.active /\ v.playing /\ (st.sounds[s].loops => v.looping)
  <2> DEFINE w == [was EXCEPT !.playing = TRUE, !.looping = loops]
  <2> w \in Voice /\ w.active = was.active /\ w.playing /\ (st.sounds[s].loops => w.looping)
    BY <1>1 DEF Voice
  <2> WITNESS w \in Voice
  <2> QED OBVIOUS
<1>4. [st.engine EXCEPT ![st.sounds[s].buffer].playing = TRUE,
                        ![st.sounds[s].buffer].looping = @ \/ st.sounds[s].loops \/ st.sounds[s].stream]
        = [st.engine EXCEPT ![k.buffer] = v]
  BY <1>1, <1>2, <1>3
<1>5. Played(st, s) = Changed(st, s, k, v)
  BY <1>1, <1>2, <1>4 DEF Played, Touched, Changed, With, State, Playing
<1>6. Alters(st, Changed(st, s, k, v), s, k)
  BY <1>2, <1>3, WithGood
<1> QED BY <1>5, <1>6

\* The sound s becomes k, and nothing else.
Recast(st, s, k) == [st EXCEPT !.sounds[s] = k]

LEMMA RecastGood ==
  ASSUME NEW st, NEW s \in In(st), Good(st), NEW k \in Kind,
         k.role = st.sounds[s].role, k.loops = st.sounds[s].loops, k.buffer = st.sounds[s].buffer,
         k.callback = st.sounds[s].callback, k.stream = st.sounds[s].stream,
         k.over => st.sounds[s].over \/ ~k.loops,
         k.playing => st.sounds[s].playing
  PROVE  Alters(st, Recast(st, s, k), s, k)
<1>1. /\ st \in State /\ s \in Sound /\ st.sounds[s].buffer \in Buffer
      /\ st.sounds \in [Sound -> Kind]
  BY ListedSound, StateFacts
<1>2. PICK r : r = Recast(st, s, k)
  OBVIOUS
<1>3. /\ r \in State /\ r.list = st.list /\ r.engine = st.engine /\ r.handle = st.handle
      /\ r.tracked = st.tracked /\ r.counter = st.counter /\ r.touched = st.touched
      /\ r.sounds[s] = k /\ \A t \in Sound \ {s} : r.sounds[t] = st.sounds[t]
  BY <1>1, <1>2 DEF Recast, State
<1>4. k.playing /\ k.loops => st.engine[k.buffer].playing /\ st.engine[k.buffer].looping
  BY DEF Good, Core
<1>5. Flagged(st, r, s)
  BY <1>1, <1>3, <1>4 DEF Flagged
<1>6. /\ Good(r) /\ In(r) = In(st)
      /\ SameEffects(st) /\ (st.sounds[s].role # "effect" \/ r.sounds[s].playing = st.sounds[s].playing)
           => SameEffects(r)
  BY <1>5, FlaggedGood
<1>7. Alters(st, r, s, k)
  BY <1>3, <1>6 DEF Alters
<1> QED BY <1>2, <1>7

LEMMA TouchedGood ==
  ASSUME NEW st, NEW s \in In(st), Good(st)
  PROVE  Alters(st, Touched(st, s), s, st.sounds[s])
<1> DEFINE k == st.sounds[s]
           v == st.engine[k.buffer]
<1>1. /\ st \in State /\ s \in Sound /\ k \in Kind /\ v \in Voice /\ Sane(k) /\ k.buffer \in Buffer
      /\ st.sounds \in [Sound -> Kind] /\ st.engine \in [Buffer -> Voice]
  BY ListedSound, StateFacts
<1>2. k.playing /\ k.loops => v.playing /\ v.looping
  BY DEF Good, Core
<1>3. Touched(st, s) = Changed(st, s, k, v)
  BY <1>1 DEF Touched, Changed, With, State
<1>4. Alters(st, Changed(st, s, k, v), s, k)
  BY <1>1, <1>2, WithGood
<1> QED BY <1>3, <1>4

\* What an operation may come to when no effect starts, ends or is loaded.
Fine(st) == Good(st) /\ SameEffects(st)

LEMMA PausedGood ==
  ASSUME NEW st, NEW s \in In(st), Fine(st), st.sounds[s].role # "effect"
  PROVE  Fine(Paused(st, s))
<1>1. CASE ~st.sounds[s].playing \/ st.sounds[s].paused
  BY <1>1 DEF Paused
<1>2. CASE ~(~st.sounds[s].playing \/ st.sounds[s].paused)
  <2> DEFINE k == Quiet(st.sounds[s])
  <2>1. PICK r : r = Stopped(st, s)
    OBVIOUS
  <2>2. Alters(st, r, s, k) /\ k \in Kind /\ ~k.playing /\ k.role = st.sounds[s].role
    BY <2>1, StoppedGood, QuietIs, ListedSound DEF Fine
  <2>3. Fine(r) /\ s \in In(r) /\ r.sounds[s] = k
    BY <2>2 DEF Alters, Fine
  <2> HIDE DEF k
  <2>4. PICK l \in Kind : /\ l = [k EXCEPT !.paused = TRUE]
                          /\ l.role = k.role /\ l.loops = k.loops /\ l.buffer = k.buffer
                          /\ l.callback = k.callback /\ l.stream = k.stream /\ l.over = k.over
                          /\ l.playing = k.playing
    <3> DEFINE w == [k EXCEPT !.paused = TRUE]
    <3> /\ w \in Kind /\ w.role = k.role /\ w.loops = k.loops /\ w.buffer = k.buffer
        /\ w.callback = k.callback /\ w.stream = k.stream /\ w.over = k.over
        /\ w.playing = k.playing
      BY <2>2 DEF Kind
    <3> WITNESS w \in Kind
    <3> QED OBVIOUS
  <2>5. Paused(st, s) = Recast(r, s, l)
    BY <1>2, <2>1, <2>3, <2>4 DEF Paused, Recast
  <2>6. Alters(r, Recast(r, s, l), s, l)
    BY <2>3, <2>4, RecastGood DEF Fine
  <2> QED BY <2>2, <2>3, <2>5, <2>6 DEF Alters, Fine
<1> QED BY <1>1, <1>2

LEMMA ResumedGood ==
  ASSUME NEW st, NEW s \in In(st), Fine(st), st.sounds[s].role # "effect"
  PROVE  Fine(Resumed(st, s))
<1>1. CASE st.sounds[s].playing \/ ~st.sounds[s].paused
  BY <1>1 DEF Resumed
<1>2. CASE ~(st.sounds[s].playing \/ ~st.sounds[s].paused)
  <2> DEFINE k == Playing(st.sounds[s])
  <2>1. PICK r : r = Played(st, s)
    OBVIOUS
  <2>2. Alters(st, r, s, k) /\ k \in Kind /\ k.role = st.sounds[s].role
    BY <2>1, PlayedGood, PlayingIs, ListedSound DEF Fine
  <2>3. Fine(r) /\ s \in In(r) /\ r.sounds[s] = k
    BY <2>2 DEF Alters, Fine
  <2> HIDE DEF k
  <2>4. PICK l \in Kind : /\ l = [k EXCEPT !.paused = FALSE]
                          /\ l.role = k.role /\ l.loops = k.loops /\ l.buffer = k.buffer
                          /\ l.callback = k.callback /\ l.stream = k.stream /\ l.over = k.over
                          /\ l.playing = k.playing
    <3> DEFINE w == [k EXCEPT !.paused = FALSE]
    <3> /\ w \in Kind /\ w.role = k.role /\ w.loops = k.loops /\ w.buffer = k.buffer
        /\ w.callback = k.callback /\ w.stream = k.stream /\ w.over = k.over
        /\ w.playing = k.playing
      BY <2>2 DEF Kind
    <3> WITNESS w \in Kind
    <3> QED OBVIOUS
  <2>5. Resumed(st, s) = Recast(r, s, l)
    BY <1>2, <2>1, <2>3, <2>4 DEF Resumed, Recast
  <2>6. Alters(r, Recast(r, s, l), s, l)
    BY <2>3, <2>4, RecastGood DEF Fine
  <2> QED BY <2>2, <2>3, <2>5, <2>6 DEF Alters, Fine
<1> QED BY <1>1, <1>2

-----------------------------------------------------------------------------
(* A sound is deleted *)

\* Only flags of s, its buffer, and who is told of its end, may differ.
Near(st, r, s) ==
  /\ r \in State /\ r.list = st.list /\ r.tracked = st.tracked /\ st.touched \subseteq r.touched
  /\ \A t \in Sound \ {s} : r.sounds[t] = st.sounds[t]
  /\ r.sounds[s].role = st.sounds[s].role /\ r.sounds[s].buffer = st.sounds[s].buffer
  /\ \A b \in Buffer \ {st.sounds[s].buffer} : r.engine[b] = st.engine[b]
Unheard(st, r, s) ==
  /\ r.handle = st.handle /\ r.counter = st.counter
  /\ r.sounds[s].callback = st.sounds[s].callback
\* Its callback, if it had one, was called.
Tells(st, r, s) ==
  /\ ~r.sounds[s].callback
  /\ \A h \in Handles :
       r.handle[h] = IF st.sounds[s].callback /\ h = st.sounds[s].role THEN NIL ELSE st.handle[h]
  /\ r.counter = IF st.sounds[s].callback /\ st.sounds[s].role = "effect"
                 THEN st.counter - 1 ELSE st.counter

LEMMA NearTwice ==
  ASSUME NEW st, NEW r, NEW u, NEW s, Near(st, r, s), Near(r, u, s)
  PROVE  /\ Near(st, u, s)
         /\ Unheard(st, r, s) /\ Unheard(r, u, s) => Unheard(st, u, s)
         /\ Unheard(st, r, s) /\ Tells(r, u, s) => Tells(st, u, s)
         /\ Tells(st, r, s) /\ Unheard(r, u, s) => Tells(st, u, s)
         /\ Tells(st, r, s) /\ Tells(r, u, s) => Tells(st, u, s)
<1>1. Near(st, u, s)
  BY DEF Near
<1>2. r.sounds[s].role = st.sounds[s].role
  BY DEF Near
<1> QED BY <1>1, <1>2 DEF Unheard, Tells

LEMMA TouchedNear ==
  ASSUME NEW st \in State, NEW s \in Sound, st.sounds[s].buffer \in Buffer
  PROVE  /\ Near(st, Touched(st, s), s) /\ Unheard(st, Touched(st, s), s)
         /\ Touched(st, s).sounds = st.sounds
         /\ Touched(st, s).engine = st.engine
         /\ st.sounds[s].buffer \in Touched(st, s).touched
<1>1. PICK r : r = Touched(st, s)
  OBVIOUS
<1>2. /\ r \in State /\ r.list = st.list /\ r.sounds = st.sounds /\ r.engine = st.engine
      /\ r.handle = st.handle /\ r.tracked = st.tracked /\ r.counter = st.counter
      /\ r.touched = st.touched \cup {st.sounds[s].buffer}
  BY <1>1 DEF Touched, State
<1> QED BY <1>1, <1>2 DEF Near, Unheard

LEMMA StoppedNear ==
  ASSUME NEW st \in State, NEW s \in Sound, st.sounds[s].buffer \in Buffer
  PROVE  Near(st, Stopped(st, s), s) /\ Unheard(st, Stopped(st, s), s)
<1>1. CASE ~st.sounds[s].playing
  BY <1>1 DEF Stopped, Near, Unheard
<1>2. CASE st.sounds[s].playing
  <2> DEFINE b == st.sounds[s].buffer
             k == Quiet(st.sounds[s])
  <2>1. /\ st.sounds[s] \in Kind /\ st.engine[b] \in Voice
        /\ st.sounds \in [Sound -> Kind] /\ st.engine \in [Buffer -> Voice]
        /\ st.touched \cup {b} \in SUBSET Buffer
    BY StateFacts
  <2>2. k \in Kind /\ k.role = st.sounds[s].role /\ k.buffer = b /\ k.callback = st.sounds[s].callback
    BY <2>1, QuietIs
  <2>3. PICK v \in Voice : v = [st.engine[b] EXCEPT !.playing = FALSE]
    <3> DEFINE w == [st.engine[b] EXCEPT !.playing = FALSE]
    <3> w \in Voice
      BY <2>1 DEF Voice
    <3> WITNESS w \in Voice
    <3> QED OBVIOUS
  <2>4. PICK sd \in [Sound -> Kind] : sd = [st.sounds EXCEPT ![s] = k]
    <3> DEFINE w == [st.sounds EXCEPT ![s] = k]
    <3> w \in [Sound -> Kind]
      BY <2>1, <2>2
    <3> WITNESS w \in [Sound -> Kind]
    <3> QED OBVIOUS
  <2>5. PICK en \in [Buffer -> Voice] : en = [st.engine EXCEPT ![b] = v]
    <3> DEFINE w == [st.engine EXCEPT ![b] = v]
    <3> w \in [Buffer -> Voice]
      BY <2>1, <2>3
    <3> WITNESS w \in [Buffer -> Voice]
    <3> QED OBVIOUS
  <2>6. Stopped(st, s) = With(st, sd, en, st.touched \cup {b})
    BY <1>2, <2>1, <2>3, <2>4, <2>5 DEF Stopped, Touched, With, State, Quiet
  <2>7. PICK r : r = With(st, sd, en, st.touched \cup {b})
    OBVIOUS
  <2>8. /\ r \in State /\ r.list = st.list /\ r.sounds = sd /\ r.engine = en
        /\ r.handle = st.handle /\ r.tracked = st.tracked /\ r.counter = st.counter
        /\ r.touched = st.touched \cup {b}
    BY <2>1, <2>7, WithIs
  <2>9. /\ sd[s] = k /\ \A t \in Sound \ {s} : sd[t] = st.sounds[t]
        /\ \A c \in Buffer \ {b} : en[c] = st.engine[c]
    BY <2>1, <2>4, <2>5
  <2> HIDE DEF k
  <2>10. Near(st, r, s) /\ Unheard(st, r, s)
    BY <2>2, <2>8, <2>9 DEF Near, Unheard
  <2> QED BY <2>6, <2>7, <2>10
<1> QED BY <1>1, <1>2

LEMMA ToldNear ==
  ASSUME NEW st \in State, NEW s \in Sound
  PROVE  Near(st, Told(st, s), s) /\ Tells(st, Told(st, s), s)
<1>1. CASE ~st.sounds[s].callback
  BY <1>1 DEF Told, Near, Tells
<1>2. CASE st.sounds[s].callback
  <2> DEFINE role == st.sounds[s].role
  <2>1. /\ st.sounds[s] \in Kind /\ st.sounds \in [Sound -> Kind]
        /\ st.handle \in [Handles -> Sound \cup {NIL}] /\ st.counter \in Int
    BY StateFacts
  <2>2. PICK k \in Kind : /\ k = [st.sounds[s] EXCEPT !.callback = FALSE]
                          /\ k.role = role /\ k.buffer = st.sounds[s].buffer /\ ~k.callback
    <3> DEFINE w == [st.sounds[s] EXCEPT !.callback = FALSE]
    <3> w \in Kind /\ w.role = role /\ w.buffer = st.sounds[s].buffer /\ ~w.callback
      BY <2>1 DEF Kind
    <3> WITNESS w \in Kind
    <3> QED OBVIOUS
  <2>3. PICK hd \in [Handles -> Sound \cup {NIL}] :
          /\ hd = IF role \in Handles THEN [st.handle EXCEPT ![role] = NIL] ELSE st.handle
          /\ \A h \in Handles : hd[h] = IF h = role THEN NIL ELSE st.handle[h]
    <3> DEFINE w == IF role \in Handles THEN [st.handle EXCEPT ![role] = NIL] ELSE st.handle
    <3> /\ w \in [Handles -> Sound \cup {NIL}]
        /\ \A h \in Handles : w[h] = IF h = role THEN NIL ELSE st.handle[h]
      BY <2>1
    <3> WITNESS w \in [Handles -> Sound \cup {NIL}]
    <3> QED OBVIOUS
  <2>4. PICK n \in Int : n = IF role = "effect" THEN st.counter - 1 ELSE st.counter
    BY <2>1
  <2>5. PICK r : r = [st EXCEPT !.sounds[s] = k, !.handle = hd, !.counter = n]
    OBVIOUS
  <2>6. DOMAIN st.handle = Handles
    BY <2>1
  <2>7. Told(st, s) = r
    BY <1>2, <2>1, <2>2, <2>3, <2>4, <2>5, <2>6 DEF Told
  <2>8. /\ r \in State /\ r.list = st.list /\ r.engine = st.engine
        /\ r.handle = hd /\ r.tracked = st.tracked /\ r.touched = st.touched
        /\ r.counter = n
        /\ r.sounds[s] = k /\ \A t \in Sound \ {s} : r.sounds[t] = st.sounds[t]
    BY <2>1, <2>5 DEF State
  <2>9. Near(st, r, s)
    BY <2>2, <2>8 DEF Near
  <2>10. Tells(st, r, s)
    BY <1>2, <2>2, <2>3, <2>4, <2>8 DEF Tells
  <2> QED BY <2>7, <2>9, <2>10
<1> QED BY <1>1, <1>2

\* The buffer is given back, the sound unlinked and freed.
Drop(st, s) == [Released(st, s) EXCEPT !.list = RemoveFirst(@, s), !.sounds[s] = Unused]

\* The sound s is deleted: what that comes to.
Gone(st, r, s) ==
  /\ r \in State /\ r.list = RemoveFirst(st.list, s) /\ r.tracked = st.tracked
  /\ st.touched \cup {st.sounds[s].buffer} \subseteq r.touched
  /\ r.sounds[s] = Unused /\ \A t \in Sound \ {s} : r.sounds[t] = st.sounds[t]
  /\ ~r.engine[st.sounds[s].buffer].active
  /\ \A b \in Buffer \ {st.sounds[s].buffer} : r.engine[b] = st.engine[b]
  /\ \A h \in Handles :
       r.handle[h] = IF HasCallback(st.sounds[s].role) /\ h = st.sounds[s].role THEN NIL ELSE st.handle[h]
  /\ r.counter = IF st.sounds[s].role = "effect" THEN st.counter - 1 ELSE st.counter

LEMMA DropGone ==
  ASSUME NEW st, NEW s \in In(st), Good(st), NEW x, Near(st, x, s), Tells(st, x, s)
  PROVE  Gone(st, Drop(x, s), s)
<1> DEFINE b == st.sounds[s].buffer
<1>1. st \in State /\ s \in Sound /\ Sane(st.sounds[s]) /\ b \in Buffer /\ Distinct(st.list)
  BY ListedSound DEF Good, Core
<1>2. /\ x \in State /\ x.list = st.list /\ x.tracked = st.tracked /\ st.touched \subseteq x.touched
      /\ x.sounds[s].buffer = b
  BY DEF Near
<1>3. /\ x.list \in Seq(Sound) /\ x.sounds \in [Sound -> Kind] /\ x.engine \in [Buffer -> Voice]
      /\ x.touched \cup {b} \in SUBSET Buffer /\ x.engine[b] \in Voice
  BY <1>1, <1>2, StateFacts
<1>4. Unused \in Kind
  BY DEF Unused, Kind
<1>5. PICK v \in Voice : v = [x.engine[b] EXCEPT !.active = FALSE] /\ ~v.active
  <2> DEFINE w == [x.engine[b] EXCEPT !.active = FALSE]
  <2> w \in Voice /\ ~w.active
    BY <1>3 DEF Voice
  <2> WITNESS w \in Voice
  <2> QED OBVIOUS
<1>6. PICK rest \in Seq(Sound) : rest = RemoveFirst(x.list, s)
  BY <1>1, <1>2, <1>3, RemoveFirstMembers
<1>7. PICK sd \in [Sound -> Kind] : /\ sd = [x.sounds EXCEPT ![s] = Unused]
                                    /\ sd[s] = Unused /\ \A t \in Sound \ {s} : sd[t] = x.sounds[t]
  <2> DEFINE w == [x.sounds EXCEPT ![s] = Unused]
  <2> w \in [Sound -> Kind] /\ w[s] = Unused /\ \A t \in Sound \ {s} : w[t] = x.sounds[t]
    BY <1>1, <1>3, <1>4
  <2> WITNESS w \in [Sound -> Kind]
  <2> QED OBVIOUS
<1>8. PICK en \in [Buffer -> Voice] : /\ en = [x.engine EXCEPT ![b] = v]
                                      /\ en[b] = v /\ \A c \in Buffer \ {b} : en[c] = x.engine[c]
  <2> DEFINE w == [x.engine EXCEPT ![b] = v]
  <2> w \in [Buffer -> Voice] /\ w[b] = v /\ \A c \in Buffer \ {b} : w[c] = x.engine[c]
    BY <1>1, <1>3
  <2> WITNESS w \in [Buffer -> Voice]
  <2> QED OBVIOUS
<1>9. PICK r : r = [x EXCEPT !.touched = @ \cup {b}, !.engine = en, !.list = rest, !.sounds = sd]
  OBVIOUS
<1>10. Drop(x, s) = r
  BY <1>2, <1>3, <1>5, <1>6, <1>7, <1>8, <1>9 DEF Drop, Released, Touched, State
<1>11. /\ r \in State /\ r.list = rest /\ r.tracked = x.tracked /\ r.handle = x.handle
       /\ r.counter = x.counter /\ r.touched = x.touched \cup {b}
       /\ r.sounds[s] = Unused /\ \A t \in Sound \ {s} : r.sounds[t] = x.sounds[t]
       /\ r.engine[b] = v /\ \A c \in Buffer \ {b} : r.engine[c] = x.engine[c]
  BY <1>2, <1>3, <1>7, <1>8, <1>9 DEF State
<1>12. st.sounds[s].callback <=> HasCallback(st.sounds[s].role)
  BY <1>1 DEF Sane
<1>13. Gone(st, r, s)
  <2>1. /\ r \in State /\ r.list = RemoveFirst(st.list, s) /\ r.tracked = st.tracked
        /\ st.touched \cup {st.sounds[s].buffer} \subseteq r.touched
        /\ r.sounds[s] = Unused /\ ~r.engine[st.sounds[s].buffer].active
    BY <1>2, <1>5, <1>6, <1>11
  <2>2. /\ \A t \in Sound \ {s} : r.sounds[t] = st.sounds[t]
        /\ \A c \in Buffer \ {b} : r.engine[c] = st.engine[c]
    BY <1>11 DEF Near
  <2>3. /\ \A h \in Handles :
             r.handle[h] = IF HasCallback(st.sounds[s].role) /\ h = st.sounds[s].role THEN NIL ELSE st.handle[h]
        /\ r.counter = IF st.sounds[s].role = "effect" THEN st.counter - 1 ELSE st.counter
    BY <1>11, <1>12 DEF Tells, HasCallback
  <2> QED BY <2>1, <2>2, <2>3 DEF Gone
<1> QED BY <1>10, <1>13

LEMMA DeletedGone ==
  ASSUME NEW st, NEW s \in In(st), Good(st)
  PROVE  Gone(st, Deleted(st, s), s)
<1>1. st \in State /\ s \in Sound /\ st.sounds[s].buffer \in Buffer
  BY ListedSound
<1>2. PICK x : x = Stopped(st, s)
  OBVIOUS
<1>3. Near(st, x, s) /\ Unheard(st, x, s)
  BY <1>1, <1>2, StoppedNear
<1>4. PICK y : y = Told(x, s)
  OBVIOUS
<1>5. Near(x, y, s) /\ Tells(x, y, s)
  BY <1>1, <1>3, <1>4, ToldNear DEF Near
<1>6. Near(st, y, s) /\ Tells(st, y, s)
  BY <1>3, <1>5, NearTwice
<1>7. Deleted(st, s) = Drop(y, s)
  BY <1>2, <1>4 DEF Deleted, Drop
<1>8. Gone(st, Drop(y, s), s)
  BY <1>6, DropGone
<1> QED BY <1>7, <1>8

\* Whose file is over is deleted with its callback called before.
LEMMA EndedGone ==
  ASSUME NEW st, NEW s \in In(st), Good(st), FireAndForget(st.sounds[s])
  PROVE  Gone(st, Ended(Touched(st, s), s), s)
<1>1. st \in State /\ s \in Sound /\ st.sounds[s].buffer \in Buffer
  BY ListedSound
<1>2. PICK seen : seen = Touched(st, s)
  OBVIOUS
<1>3. Near(st, seen, s) /\ Unheard(st, seen, s) /\ seen.sounds = st.sounds /\ seen \in State
  BY <1>1, <1>2, TouchedNear DEF Near
<1>4. PICK told : told = Told(seen, s)
  OBVIOUS
<1>5. Near(seen, told, s) /\ Tells(seen, told, s) /\ told \in State
  BY <1>1, <1>3, <1>4, ToldNear DEF Near
<1>6. Near(st, told, s) /\ Tells(st, told, s)
  BY <1>3, <1>5, NearTwice
<1>7. PICK x : x = Stopped(told, s)
  OBVIOUS
<1>8. Near(told, x, s) /\ Unheard(told, x, s) /\ x \in State
  BY <1>1, <1>5, <1>6, <1>7, StoppedNear DEF Near
<1>9. Near(st, x, s) /\ Tells(st, x, s)
  BY <1>6, <1>8, NearTwice
<1>10. PICK y : y = Told(x, s)
  OBVIOUS
<1>11. Near(x, y, s) /\ Tells(x, y, s)
  BY <1>1, <1>8, <1>10, ToldNear
<1>12. Near(st, y, s) /\ Tells(st, y, s)
  BY <1>9, <1>11, NearTwice
<1>13. Ended(seen, s) = Drop(y, s)
  BY <1>3, <1>4, <1>7, <1>10 DEF Ended, Deleted, Drop
<1>14. Gone(st, Drop(y, s), s)
  BY <1>12, DropGone
<1> QED BY <1>2, <1>13, <1>14

LEMMA ListedFinite ==
  ASSUME NEW st \in State
  PROVE  IsFiniteSet(EffectsOf(st))
<1> DEFINE f == [i \in 1..Len(st.list) |-> st.list[i]]
<1>1. st.list \in Seq(Sound) /\ In(st) = Members(st.list) /\ Len(st.list) \in Nat
  BY StateFacts, LenProperties
<1>2. f \in Surjection(1..Len(st.list), In(st))
  BY <1>1 DEF Surjection, Members
<1>3. IsFiniteSet(1..Len(st.list))
  BY <1>1, FS_Interval
<1>4. IsFiniteSet(In(st))
  BY <1>2, <1>3, FS_Surjection
<1> QED BY <1>4, FS_Subset DEF EffectsOf

\* All is well without s, but that who held it may still do so.
LEMMA GoneGood ==
  ASSUME SoundConstants, NEW st, NEW s \in In(st), Good(st), NEW r, Gone(st, r, s)
  PROVE  /\ Core(r) /\ HeldBut(r, s) /\ Counts(r) /\ Spared(r)
         /\ In(r) = In(st) \ {s} /\ EffectsOf(r) = EffectsOf(st) \ {s}
         /\ \A t \in In(r) : r.sounds[t] = st.sounds[t]
<1>1. /\ st \in State /\ s \in Sound /\ Sane(st.sounds[s]) /\ st.sounds[s].buffer \in Buffer
      /\ Distinct(st.list) /\ r \in State
  BY ListedSound DEF Good, Core, Gone
<1>2. In(r) = In(st) \ {s} /\ Distinct(r.list) /\ In(r) \subseteq Sound
  BY <1>1, StateFacts, RemoveFirstMembers DEF Gone
<1>3. \A t \in In(r) : r.sounds[t] = st.sounds[t] /\ st.sounds[t].buffer # st.sounds[s].buffer
                       /\ st.sounds[t].buffer \in Buffer
  BY <1>1, <1>2, ListedSound DEF Gone, Good, Core
<1>4. Core(r)
  <2>1. /\ \A t \in Sound \ In(r) : r.sounds[t] = Unused
        /\ \A t \in In(r) : Sane(r.sounds[t])
    BY <1>1, <1>2, <1>3 DEF Gone, Good, Core
  <2>2. \A t \in In(r) : r.engine[r.sounds[t].buffer] = st.engine[st.sounds[t].buffer]
    BY <1>2, <1>3 DEF Gone
  <2>3. /\ \A t \in In(r) : r.engine[r.sounds[t].buffer].active
        /\ \A t, u \in In(r) : r.sounds[t].buffer = r.sounds[u].buffer => t = u
        /\ \A t \in In(r) : r.sounds[t].playing /\ r.sounds[t].loops =>
             r.engine[r.sounds[t].buffer].playing /\ r.engine[r.sounds[t].buffer].looping
    BY <1>2, <1>3, <2>2 DEF Good, Core
  <2>4. ASSUME NEW b \in Buffer, r.engine[b].active
        PROVE  \E t \in In(r) : r.sounds[t].buffer = b
    <3>1. b # st.sounds[s].buffer /\ st.engine[b].active
      BY <2>4 DEF Gone
    <3>2. PICK t \in In(st) : st.sounds[t].buffer = b
      BY <3>1 DEF Good, Core
    <3> QED BY <1>2, <1>3, <3>1, <3>2
  <2> QED BY <1>1, <1>2, <2>1, <2>3, <2>4 DEF Core
<1>5. HeldBut(r, s)
  <2>0. HeldBut(st, NIL)
    BY DEF Good, Held
  <2>1. ASSUME NEW h \in Handles, r.handle[h] \notin {NIL, s}
        PROVE  r.handle[h] \in In(r) /\ r.sounds[r.handle[h]].role = h
    <3>1. r.handle[h] = st.handle[h]
      BY <2>1 DEF Gone
    <3>2. st.handle[h] \in In(st) /\ st.sounds[st.handle[h]].role = h
      BY <2>0, <2>1, <3>1 DEF HeldBut
    <3> QED BY <1>2, <1>3, <2>1, <3>1, <3>2
  <2>2. ASSUME NEW t \in In(r), r.sounds[t].role \in Handles
        PROVE  r.handle[r.sounds[t].role] = t
    <3>1. t \in In(st) /\ t # s /\ r.sounds[t] = st.sounds[t]
      BY <1>2, <1>3
    <3>2. st.handle[st.sounds[t].role] = t
      BY <2>0, <2>2, <3>1 DEF HeldBut
    <3>3. st.sounds[s].role # st.sounds[t].role \/ ~(st.sounds[s].role \in Handles)
      BY <2>0, <3>1, <3>2 DEF HeldBut
    <3> QED BY <2>2, <3>1, <3>2, <3>3 DEF Gone
  <2>3. Distinct(r.tracked) /\ Range(r.tracked) \ {s} = {t \in In(r) : Loops(r.sounds[t].role)} \ {s}
    <3>1. r.tracked = st.tracked /\ Distinct(st.tracked) /\ NIL \notin Sound
      BY <2>0 DEF Gone, HeldBut, SoundConstants
    <3>2. Range(st.tracked) \subseteq Sound /\ In(st) \subseteq Sound
      BY <1>1, StateFacts, RangeIs
    <3>3. Range(st.tracked) \ {NIL} = {t \in In(st) : Loops(st.sounds[t].role)} \ {NIL}
      BY <2>0 DEF HeldBut
    <3>4. Range(r.tracked) = {t \in In(st) : Loops(st.sounds[t].role)}
      BY <3>1, <3>3, <3>2
    <3>5. {t \in In(r) : Loops(r.sounds[t].role)} = {t \in In(st) : Loops(st.sounds[t].role)} \ {s}
      BY <1>2, <1>3
    <3> QED BY <3>1, <3>4, <3>5
  <2>4. \A t, u \in In(r) : r.sounds[t].role = "song" /\ r.sounds[u].role = "song" => t = u
    BY <1>2, <1>3, <2>0 DEF HeldBut
  <2> QED BY <2>1, <2>2, <2>3, <2>4 DEF HeldBut
<1>6. EffectsOf(r) = EffectsOf(st) \ {s}
  BY <1>2, <1>3 DEF EffectsOf
<1>7. Counts(r)
  <2>1. IsFiniteSet(EffectsOf(st)) /\ st.counter \in Int /\ Cardinality(EffectsOf(st)) \in Nat
    BY <1>1, ListedFinite, StateFacts, FS_CardinalityType
  <2>2. Cardinality(EffectsOf(r)) =
          IF s \in EffectsOf(st) THEN Cardinality(EffectsOf(st)) - 1 ELSE Cardinality(EffectsOf(st))
    BY <1>6, <2>1, FS_RemoveElement
  <2>3. s \in EffectsOf(st) <=> st.sounds[s].role = "effect"
    BY DEF EffectsOf
  <2> QED BY <2>1, <2>2, <2>3 DEF Good, Counts, Gone
<1>8. Spared(r)
  <2> SUFFICES ASSUME NEW t \in Listed
               PROVE  sounds[t].buffer \in r.touched
                      \/ (t \in In(r) /\ r.sounds[t].buffer = sounds[t].buffer)
    BY DEF Spared
  <2>1. st.touched \subseteq r.touched /\ st.sounds[s].buffer \in r.touched
    BY DEF Gone
  <2>2. sounds[t].buffer \in st.touched \/ (t \in In(st) /\ st.sounds[t].buffer = sounds[t].buffer)
    BY DEF Good, Spared
  <2> QED BY <1>2, <1>3, <2>1, <2>2
<1> QED BY <1>2, <1>3, <1>4, <1>5, <1>6, <1>7, <1>8

\* Who held it does not any more.
LEMMA HeldAgain ==
  ASSUME NEW r \in State, NEW s, HeldBut(r, s), s \notin In(r), s \notin Range(r.tracked),
         \A h \in Handles : r.handle[h] # s
  PROVE  Held(r)
BY DEF Held, HeldBut

\* Only who holds the sounds differs.
LEMMA RegainedGood ==
  ASSUME NEW r, NEW u \in State, Core(r), Counts(r), Spared(r),
         u.list = r.list, u.sounds = r.sounds, u.engine = r.engine, u.counter = r.counter,
         u.touched = r.touched
  PROVE  /\ Core(u) /\ Counts(u) /\ Spared(u) /\ In(u) = In(r) /\ EffectsOf(u) = EffectsOf(r)
         /\ SameEffects(r) => SameEffects(u)
<1>1. In(u) = In(r) /\ EffectsOf(u) = EffectsOf(r)
  BY DEF In, EffectsOf
<1> QED BY <1>1 DEF Core, Counts, Spared, SameEffects

LEMMA OthersSame ==
  ASSUME SoundConstants, NEW st, NEW s \in In(st), Fine(st), NEW r, Gone(st, r, s),
         st.sounds[s].role # "effect"
  PROVE  SameEffects(r)
<1>1. /\ EffectsOf(r) = EffectsOf(st) \ {s} /\ In(r) = In(st) \ {s}
      /\ \A t \in In(r) : r.sounds[t] = st.sounds[t]
  BY GoneGood DEF Fine
<1>2. EffectsOf(st) = Effects /\ EffectsOf(r) = Effects
  BY <1>1 DEF EffectsOf, Fine, SameEffects
<1>3. \A t \in Effects : r.sounds[t] = st.sounds[t]
  BY <1>1, <1>2 DEF EffectsOf
<1> QED BY <1>2, <1>3 DEF SameEffects, Fine

\* One sound less.
Fewer(st, r) == In(r) \subseteq In(st) /\ \A t \in In(r) : r.sounds[t] = st.sounds[t]

LEMMA FreedGood ==
  ASSUME SoundConstants, NEW st, Fine(st), NEW h \in Handles
  PROVE  Fine(Freed(st, h)) /\ Freed(st, h).handle[h] = NIL /\ Fewer(st, Freed(st, h))
<1>1. CASE st.handle[h] = NIL
  BY <1>1 DEF Freed, Fewer
<1>2. CASE st.handle[h] # NIL
  <2> DEFINE s == st.handle[h]
  <2>1. Good(st) /\ s \in In(st) /\ st.sounds[s].role = h /\ st \in State
    BY <1>2 DEF Fine, Good, Core, Held, HeldBut
  <2>2. PICK r : r = Deleted(st, s)
    OBVIOUS
  <2>3. Gone(st, r, s)
    BY <2>1, <2>2, DeletedGone
  <2>4. /\ Core(r) /\ HeldBut(r, s) /\ Counts(r) /\ Spared(r) /\ r \in State
        /\ In(r) = In(st) \ {s} /\ \A t \in In(r) : r.sounds[t] = st.sounds[t]
        /\ SameEffects(r)
    <3>1. h # "effect" /\ ~Loops(h)
      BY DEF Handles, Loops
    <3> QED BY <2>1, <2>3, <3>1, GoneGood, OthersSame DEF Core
  <2>5. PICK hd \in [Handles -> Sound \cup {NIL}] :
          hd = [r.handle EXCEPT ![h] = NIL] /\ hd[h] = NIL /\ \A g \in Handles \ {h} : hd[g] = r.handle[g]
    <3> DEFINE w == [r.handle EXCEPT ![h] = NIL]
    <3> /\ w \in [Handles -> Sound \cup {NIL}] /\ w[h] = NIL
        /\ \A g \in Handles \ {h} : w[g] = r.handle[g]
      BY <2>4, StateFacts
    <3> WITNESS w \in [Handles -> Sound \cup {NIL}]
    <3> QED OBVIOUS
  <2>6. PICK u : u = [r EXCEPT !.handle = hd]
    OBVIOUS
  <2>7. /\ u \in State /\ u.list = r.list /\ u.sounds = r.sounds /\ u.engine = r.engine
        /\ u.handle = hd /\ u.tracked = r.tracked /\ u.counter = r.counter /\ u.touched = r.touched
    BY <2>4, <2>6 DEF State
  <2>8. Freed(st, h) = u
    BY <1>2, <2>2, <2>5, <2>6 DEF Freed
  <2>9. /\ Core(u) /\ Counts(u) /\ Spared(u) /\ In(u) = In(r) /\ SameEffects(u)
    BY <2>4, <2>7, RegainedGood
  <2>10. \A g \in Handles : u.handle[g] # s
    <3> SUFFICES ASSUME NEW g \in Handles, u.handle[g] = s
                 PROVE  FALSE
      OBVIOUS
    <3>1. g # h /\ r.handle[g] = s
      BY <1>2, <2>5, <2>7
    <3>2. st.handle[g] = s
      BY <1>2, <2>3, <3>1 DEF Gone
    <3>3. st.sounds[s].role = g
      BY <1>2, <3>2 DEF Fine, Good, Held, HeldBut
    <3> QED BY <2>1, <3>1, <3>3
  <2>11. s \notin Range(u.tracked)
    <3>1. u.tracked = st.tracked /\ s # NIL
      BY <1>2, <2>3, <2>7 DEF Gone
    <3>2. Range(st.tracked) \ {NIL} = {t \in In(st) : Loops(st.sounds[t].role)} \ {NIL}
      BY <2>1 DEF Good, Held, HeldBut
    <3>3. ~Loops(st.sounds[s].role)
      BY <2>1 DEF Loops, Handles
    <3> QED BY <3>1, <3>2, <3>3
  <2>12. HeldBut(u, s)
    <3>1. \A g \in Handles : u.handle[g] \in {NIL, r.handle[g]}
      BY <2>5, <2>7
    <3>2. \A t \in In(u) : t \in In(st) /\ t # s /\ u.sounds[t] = st.sounds[t]
      BY <2>4, <2>7, <2>9
    <3>3. ASSUME NEW t \in In(u), u.sounds[t].role \in Handles
          PROVE  u.handle[u.sounds[t].role] = t
      <4>1. r.handle[u.sounds[t].role] = t
        BY <2>4, <2>7, <2>9, <3>3 DEF HeldBut
      <4>2. st.handle[u.sounds[t].role] = t
        BY <2>1, <3>2, <3>3 DEF Good, Held, HeldBut
      <4>3. u.sounds[t].role # h
        BY <3>2, <4>2
      <4> QED BY <2>5, <2>7, <3>3, <4>1, <4>3
    <3>4. \A g \in Handles : u.handle[g] \notin {NIL, s} =>
            u.handle[g] \in In(u) /\ u.sounds[u.handle[g]].role = g
      BY <2>4, <2>7, <2>9, <3>1 DEF HeldBut
    <3> QED BY <2>4, <2>7, <2>9, <3>3, <3>4 DEF HeldBut
  <2>13. Held(u)
    BY <2>4, <2>7, <2>9, <2>10, <2>11, <2>12, HeldAgain
  <2>14. Fewer(st, u)
    BY <2>4, <2>7, <2>9 DEF Fewer
  <2> QED BY <2>5, <2>7, <2>8, <2>9, <2>13, <2>14 DEF Fine, Good
<1> QED BY <1>1, <1>2

LEMMA TrackedSounds ==
  ASSUME SoundConstants, NEW st, Good(st)
  PROVE  /\ st.tracked \in Seq(Sound) /\ Distinct(st.tracked)
         /\ Range(st.tracked) = {s \in In(st) : Loops(st.sounds[s].role)}
<1>1. st \in State /\ In(st) \subseteq Sound /\ st.tracked \in Seq(Sound)
  BY StateFacts DEF Good, Core
<1>2. NIL \notin Sound /\ Range(st.tracked) \subseteq Sound
  BY <1>1, RangeIs DEF SoundConstants
<1>3. Range(st.tracked) \ {NIL} = {t \in In(st) : Loops(st.sounds[t].role)} \ {NIL}
  BY DEF Good, Held, HeldBut
<1>4. Distinct(st.tracked)
  BY DEF Good, Held, HeldBut
<1> QED BY <1>1, <1>2, <1>3, <1>4

LEMMA TrackedStoppedGood ==
  ASSUME SoundConstants, NEW st, Fine(st), NEW s \in Range(st.tracked)
  PROVE  /\ Fine(TrackedStopped(st, s)) /\ Fewer(st, TrackedStopped(st, s))
         /\ In(TrackedStopped(st, s)) = In(st) \ {s}
         /\ TrackedStopped(st, s).handle = Deleted(st, s).handle
         /\ \A h \in Handles : TrackedStopped(st, s).handle[h] = st.handle[h]
<1>1. Good(st) /\ s \in In(st) /\ Loops(st.sounds[s].role) /\ st \in State /\ s \in Sound
  BY TrackedSounds, ListedSound DEF Fine
<1>2. PICK r : r = Deleted(st, s)
  OBVIOUS
<1>3. Gone(st, r, s)
  BY <1>1, <1>2, DeletedGone
<1>4. st.sounds[s].role # "effect" /\ st.sounds[s].role \notin Handles
  BY <1>1 DEF Loops, Handles
<1>5. /\ Core(r) /\ HeldBut(r, s) /\ Counts(r) /\ Spared(r) /\ r \in State
      /\ In(r) = In(st) \ {s} /\ \A t \in In(r) : r.sounds[t] = st.sounds[t]
      /\ SameEffects(r)
  BY <1>1, <1>3, <1>4, GoneGood, OthersSame DEF Core
<1>6. \A h \in Handles : r.handle[h] = st.handle[h] /\ r.handle[h] # s
  BY <1>1, <1>3, <1>4 DEF Gone, Good, Held, HeldBut, SoundConstants
<1>7. PICK rest \in Seq(Sound) : /\ rest = RemoveFirst(r.tracked, s) /\ Distinct(rest)
                                 /\ Range(rest) = Range(r.tracked) \ {s}
  <2>1. r.tracked \in Seq(Sound) /\ Distinct(r.tracked)
    BY <1>5, StateFacts DEF HeldBut
  <2> QED BY <2>1, RemoveFirstMembers, RangeIs
<1>8. PICK u : u = [r EXCEPT !.tracked = rest]
  OBVIOUS
<1>9. /\ u \in State /\ u.list = r.list /\ u.sounds = r.sounds /\ u.engine = r.engine
      /\ u.handle = r.handle /\ u.tracked = rest /\ u.counter = r.counter /\ u.touched = r.touched
  BY <1>5, <1>8 DEF State
<1>10. TrackedStopped(st, s) = u
  BY <1>2, <1>7, <1>8 DEF TrackedStopped
<1>11. Core(u) /\ Counts(u) /\ Spared(u) /\ In(u) = In(r) /\ SameEffects(u)
  BY <1>5, <1>9, RegainedGood
<1>12. Held(u)
  <2>1. HeldBut(u, s)
    BY <1>5, <1>7, <1>9, <1>11 DEF HeldBut
  <2> QED BY <1>5, <1>6, <1>7, <1>9, <1>11, <2>1, HeldAgain
<1> QED BY <1>2, <1>5, <1>6, <1>9, <1>10, <1>11, <1>12 DEF Fine, Good, Fewer

LEMMA EndedGood ==
  ASSUME SoundConstants, NEW st, NEW s \in In(st), Good(st), FireAndForget(st.sounds[s])
  PROVE  /\ Good(Ended(Touched(st, s), s)) /\ Fewer(st, Ended(Touched(st, s), s))
         /\ In(Ended(Touched(st, s), s)) = In(st) \ {s}
         /\ EffectsOf(Ended(Touched(st, s), s)) = EffectsOf(st) \ {s}
<1>1. PICK r : r = Ended(Touched(st, s), s)
  OBVIOUS
<1>2. Gone(st, r, s)
  BY <1>1, EndedGone
<1>3. /\ Core(r) /\ HeldBut(r, s) /\ Counts(r) /\ Spared(r) /\ r \in State
      /\ In(r) = In(st) \ {s} /\ \A t \in In(r) : r.sounds[t] = st.sounds[t]
      /\ EffectsOf(r) = EffectsOf(st) \ {s}
  BY <1>2, GoneGood DEF Core
<1>4. st \in State /\ s \in Sound /\ Sane(st.sounds[s]) /\ s # NIL
  BY ListedSound DEF SoundConstants
<1>5. ~Loops(st.sounds[s].role) /\ st.sounds[s].role # "lips"
  BY <1>4 DEF FireAndForget, Sane
<1>6. s \notin Range(r.tracked)
  BY <1>2, <1>5, TrackedSounds DEF Gone
<1>7. \A h \in Handles : r.handle[h] # s
  <2> SUFFICES ASSUME NEW h \in Handles, r.handle[h] = s
               PROVE  FALSE
    OBVIOUS
  <2>1. st.handle[h] = s /\ ~(HasCallback(st.sounds[s].role) /\ h = st.sounds[s].role)
    BY <1>2, <1>4 DEF Gone
  <2>2. st.sounds[s].role = h
    BY <1>4, <2>1 DEF Good, Held, HeldBut
  <2> QED BY <1>5, <2>1, <2>2 DEF HasCallback, Handles
<1>8. Held(r)
  BY <1>3, <1>6, <1>7, HeldAgain
<1> QED BY <1>1, <1>3, <1>8 DEF Good, Fewer

-----------------------------------------------------------------------------
(* A sound is loaded *)

\* Who asks holds none, and asks for what its kind of sound does.
May(st, role, loops) ==
  /\ role \in AllRoles /\ loops \in BOOLEAN
  /\ role \in Handles => st.handle[role] = NIL
  /\ role = "song" => \A t \in In(st) : st.sounds[t].role # "song"
  /\ Loops(role) => loops
  /\ role \in {"effect", "lips", "speech", "once"} => ~loops

\* The sound s is new.
New(st, r, s, role) ==
  /\ r \in State /\ r.list = <<s>> \o st.list /\ s \in Sound \ In(st)
  /\ \A t \in Sound \ {s} : r.sounds[t] = st.sounds[t]
  /\ Sane(r.sounds[s]) /\ r.sounds[s].role = role /\ ~r.sounds[s].playing
  /\ ~st.engine[r.sounds[s].buffer].active /\ r.engine[r.sounds[s].buffer].active
  /\ \A b \in Buffer \ {r.sounds[s].buffer} : r.engine[b] = st.engine[b]
  /\ \A h \in Handles : r.handle[h] = IF h = role THEN s ELSE st.handle[h]
  /\ r.tracked = IF Loops(role) THEN Append(st.tracked, s) ELSE st.tracked
  /\ r.counter = IF role = "effect" THEN st.counter + 1 ELSE st.counter
  /\ st.touched \subseteq r.touched

LEMMA LoadsNew ==
  ASSUME SoundConstants, NEW st, Good(st), NEW role, NEW loops, NEW stream \in BOOLEAN,
         May(st, role, loops),
         NEW r \in Loads(st, role, loops, stream)
  PROVE  r = st \/ \E s \in Sound \ In(st) : New(st, r, s, role)
<1> DEFINE free == {b \in Buffer : ~st.engine[b].active}
<1> SUFFICES ASSUME r # st
             PROVE  \E s \in Sound \ In(st) : New(st, r, s, role)
  OBVIOUS
<1>1. PICK s \in Sound \ In(st) :
        /\ free # {}
        /\ r = [st EXCEPT
             !.list = <<s>> \o @,
             !.sounds[s] = [Unused EXCEPT
               !.role = role, !.loops = loops, !.stream = stream, !.buffer = Min(free),
               !.callback = role \in {"effect", "music", "speech", "program"}],
             !.engine[Min(free)] = [Silent EXCEPT !.active = TRUE],
             !.handle = IF role \in Handles THEN [@ EXCEPT ![role] = s] ELSE @,
             !.tracked = IF role \in {"looping", "song"} THEN Append(@, s) ELSE @,
             !.counter = IF role = "effect" THEN @ + 1 ELSE @,
             !.touched = @ \cup 1..Min(free)]
  BY Zenon DEF Loads, In
<1>2. PICK b \in Buffer : b = Min(free) /\ ~st.engine[b].active
  <2>1. free \in SUBSET Nat
    BY DEF Buffer
  <2> HIDE DEF free
  <2>2. Min(free) \in free
    BY <1>1, <2>1, MinIs
  <2> QED BY <2>2 DEF free
<1>3. /\ st \in State /\ st.list \in Seq(Sound) /\ st.sounds \in [Sound -> Kind]
      /\ st.engine \in [Buffer -> Voice] /\ st.handle \in [Handles -> Sound \cup {NIL}]
      /\ st.tracked \in Seq(Sound) /\ st.counter \in Int /\ st.touched \in SUBSET Buffer
  BY StateFacts DEF Good, Core
<1>4. PICK l \in Seq(Sound) : l = <<s>> \o st.list
  BY <1>3, PrependMembers
<1>5. PICK told \in BOOLEAN : told = (role \in {"effect", "music", "speech", "program"})
  <2>1. CASE role \in {"effect", "music", "speech", "program"}
    <3>1. TRUE = (role \in {"effect", "music", "speech", "program"})
      BY <2>1
    <3> QED BY <3>1, Zenon
  <2>2. CASE role \notin {"effect", "music", "speech", "program"}
    <3>1. FALSE = (role \in {"effect", "music", "speech", "program"})
      BY <2>2
    <3> QED BY <3>1, Zenon
  <2> QED BY <2>1, <2>2
<1>6. PICK none \in Kind : none = Unused /\ ~none.playing /\ ~none.over
  <2> Unused \in Kind /\ ~Unused.playing /\ ~Unused.over
    BY DEF Unused, Kind
  <2> HIDE DEF Unused
  <2> WITNESS Unused \in Kind
  <2> QED OBVIOUS
<1>7. PICK k \in Kind : /\ k = [none EXCEPT !.role = role, !.loops = loops, !.stream = stream,
                                            !.buffer = b, !.callback = told]
                        /\ Sane(k) /\ k.role = role /\ ~k.playing /\ k.buffer = b
  <2> DEFINE w == [none EXCEPT !.role = role, !.loops = loops, !.stream = stream,
                               !.buffer = b, !.callback = told]
  <2>1. role \in AllRoles /\ role # "none" /\ b # 0 /\ loops \in BOOLEAN
    BY DEF May, AllRoles, Handles, Buffer
  <2>2. w \in Kind
    BY <2>1 DEF Kind
  <2>3. /\ w.role = role /\ w.buffer = b /\ w.loops = loops /\ w.callback = told
        /\ ~w.playing /\ ~w.over
    BY <1>6 DEF Kind
  <2> w \in Kind /\ Sane(w) /\ w.role = role /\ ~w.playing /\ w.buffer = b
    <3> HIDE DEF w
    <3>1. Sane(w)
      BY <1>5, <2>1, <2>3 DEF Sane, May, HasCallback
    <3> QED BY <2>2, <2>3, <3>1
  <2> WITNESS w \in Kind
  <2> QED OBVIOUS
<1>8. PICK v \in Voice : v = [Silent EXCEPT !.active = TRUE] /\ v.active
  <2> DEFINE w == [Silent EXCEPT !.active = TRUE]
  <2> w \in Voice /\ w.active
    BY DEF Silent, Voice
  <2> WITNESS w \in Voice
  <2> QED OBVIOUS
<1>9. PICK sd \in [Sound -> Kind] : /\ sd = [st.sounds EXCEPT ![s] = k]
                                    /\ sd[s] = k /\ \A t \in Sound \ {s} : sd[t] = st.sounds[t]
  <2> DEFINE w == [st.sounds EXCEPT ![s] = k]
  <2> w \in [Sound -> Kind] /\ w[s] = k /\ \A t \in Sound \ {s} : w[t] = st.sounds[t]
    BY <1>3
  <2> WITNESS w \in [Sound -> Kind]
  <2> QED OBVIOUS
<1>10. PICK en \in [Buffer -> Voice] : /\ en = [st.engine EXCEPT ![b] = v]
                                       /\ en[b] = v /\ \A c \in Buffer \ {b} : en[c] = st.engine[c]
  <2> DEFINE w == [st.engine EXCEPT ![b] = v]
  <2> w \in [Buffer -> Voice] /\ w[b] = v /\ \A c \in Buffer \ {b} : w[c] = st.engine[c]
    BY <1>3
  <2> WITNESS w \in [Buffer -> Voice]
  <2> QED OBVIOUS
<1>11. PICK hd \in [Handles -> Sound \cup {NIL}] :
        /\ hd = IF role \in Handles THEN [st.handle EXCEPT ![role] = s] ELSE st.handle
        /\ \A h \in Handles : hd[h] = IF h = role THEN s ELSE st.handle[h]
  <2> DEFINE w == IF role \in Handles THEN [st.handle EXCEPT ![role] = s] ELSE st.handle
  <2> /\ w \in [Handles -> Sound \cup {NIL}]
      /\ \A h \in Handles : w[h] = IF h = role THEN s ELSE st.handle[h]
    BY <1>3
  <2> WITNESS w \in [Handles -> Sound \cup {NIL}]
  <2> QED OBVIOUS
<1>12. PICK tr \in Seq(Sound) : tr = IF Loops(role) THEN Append(st.tracked, s) ELSE st.tracked
  BY <1>3, AppendMembers
<1>13. PICK n \in Int : n = IF role = "effect" THEN st.counter + 1 ELSE st.counter
  BY <1>3
<1>14. PICK seen \in SUBSET Buffer : seen = st.touched \cup 1..b
  <2>1. 1..b \subseteq Buffer
    BY DEF Buffer, SoundConstants
  <2> QED BY <1>3, <2>1
<1>15. r = [st EXCEPT !.list = l, !.sounds = sd, !.engine = en, !.handle = hd, !.tracked = tr,
                      !.counter = n, !.touched = seen]
  BY <1>1, <1>2, <1>3, <1>4, <1>7, <1>8, <1>9, <1>10, <1>11, <1>12, <1>13, <1>14, <1>5, <1>6 DEF State, Loops
<1>16. /\ r \in State /\ r.list = l /\ r.sounds = sd /\ r.engine = en /\ r.handle = hd
       /\ r.tracked = tr /\ r.counter = n /\ r.touched = seen
  BY <1>3, <1>15 DEF State
<1>17. New(st, r, s, role)
  BY <1>2, <1>4, <1>7, <1>8, <1>9, <1>10, <1>11, <1>12, <1>13, <1>14, <1>16 DEF New
<1> QED BY <1>17

LEMMA NewGood ==
  ASSUME SoundConstants, NEW st, Good(st), NEW role, NEW loops, May(st, role, loops),
         NEW r, NEW s \in Sound \ In(st), New(st, r, s, role)
  PROVE  /\ Good(r) /\ In(r) = In(st) \cup {s} /\ Head(r.list) = s /\ r # st
         /\ \A t \in In(st) : r.sounds[t] = st.sounds[t]
         /\ EffectsOf(r) = EffectsOf(st) \cup (IF role = "effect" THEN {s} ELSE {})
<1> DEFINE b == r.sounds[s].buffer
<1>1. /\ st \in State /\ st.list \in Seq(Sound) /\ Distinct(st.list) /\ In(st) \subseteq Sound
      /\ In(st) = Members(st.list) /\ r \in State /\ s \in Sound /\ Sane(r.sounds[s])
      /\ r.sounds[s] \in Kind /\ b \in Buffer
  <2>1. st \in State /\ Distinct(st.list) /\ r \in State /\ s \in Sound /\ Sane(r.sounds[s])
    BY DEF Good, Core, New
  <2>2. r.sounds[s] \in Kind
    BY <2>1, StateFacts
  <2>3. b \in Buffer
    BY <2>1, <2>2 DEF Kind, Sane
  <2> QED BY <2>1, <2>2, <2>3, StateFacts
<1>2. In(r) = In(st) \cup {s} /\ Distinct(r.list) /\ Head(r.list) = s
  <2>1. r.list = <<s>> \o st.list
    BY DEF New
  <2>2. /\ Head(r.list) = s /\ Members(r.list) = Members(st.list) \cup {s}
        /\ Distinct(r.list)
    BY <1>1, <2>1, PrependMembers
  <2> QED BY <1>1, <2>2, StateFacts
<1>3. \A t \in In(st) : r.sounds[t] = st.sounds[t] /\ st.sounds[t].buffer \in Buffer /\ st.sounds[t].buffer # b
  <2>1. \A t \in In(st) : st.engine[st.sounds[t].buffer].active
    BY DEF Good, Core
  <2> QED BY <1>1, <2>1, ListedSound DEF New
<1>4. r.sounds[s].role = role /\ ~r.sounds[s].playing
  BY DEF New
<1>5. Core(r)
  <2>1. /\ \A t \in Sound \ In(r) : r.sounds[t] = Unused
        /\ \A t \in In(r) : Sane(r.sounds[t])
    BY <1>1, <1>2, <1>3 DEF New, Good, Core
  <2>2. \A t \in In(st) : r.engine[r.sounds[t].buffer] = st.engine[st.sounds[t].buffer]
    BY <1>3 DEF New
  <2>3. /\ \A t \in In(r) : r.engine[r.sounds[t].buffer].active
        /\ \A t, u \in In(r) : r.sounds[t].buffer = r.sounds[u].buffer => t = u
        /\ \A t \in In(r) : r.sounds[t].playing /\ r.sounds[t].loops =>
             r.engine[r.sounds[t].buffer].playing /\ r.engine[r.sounds[t].buffer].looping
    <3>1. r.engine[b].active
      BY DEF New
    <3> QED BY <1>2, <1>3, <1>4, <2>2, <3>1 DEF Good, Core
  <2>4. ASSUME NEW c \in Buffer, r.engine[c].active
        PROVE  \E t \in In(r) : r.sounds[t].buffer = c
    <3>1. CASE c = b
      BY <1>2, <3>1
    <3>2. CASE c # b
      <4>1. st.engine[c].active
        BY <2>4, <3>2 DEF New
      <4>2. PICK t \in In(st) : st.sounds[t].buffer = c
        BY <4>1 DEF Good, Core
      <4> QED BY <1>2, <1>3, <4>2
    <3> QED BY <3>1, <3>2
  <2> QED BY <1>1, <1>2, <2>1, <2>3, <2>4 DEF Core
<1>6. Held(r)
  <2>0. HeldBut(st, NIL)
    BY DEF Good, Held
  <2>1. /\ \A h \in Handles : r.handle[h] = IF h = role THEN s ELSE st.handle[h]
        /\ r.tracked = IF Loops(role) THEN Append(st.tracked, s) ELSE st.tracked
    BY DEF New
  <2>2. \A h \in Handles : r.handle[h] \notin {NIL, NIL} => r.handle[h] \in In(r) /\ r.sounds[r.handle[h]].role = h
    BY <1>2, <1>3, <1>4, <2>0, <2>1 DEF HeldBut
  <2>3. ASSUME NEW t \in In(r), r.sounds[t].role \in Handles
        PROVE  r.handle[r.sounds[t].role] = t
    <3>1. CASE t = s
      BY <1>4, <2>1, <2>3, <3>1
    <3>2. CASE t # s
      <4>1. t \in In(st) /\ r.sounds[t] = st.sounds[t] /\ t # NIL
        BY <1>1, <1>2, <1>3, <3>2 DEF SoundConstants
      <4>2. st.handle[st.sounds[t].role] = t
        BY <2>0, <2>3, <4>1 DEF HeldBut
      <4>3. st.sounds[t].role # role
        BY <2>3, <4>1, <4>2 DEF May
      <4> QED BY <2>1, <2>3, <4>1, <4>2, <4>3
    <3> QED BY <3>1, <3>2
  <2>4. /\ st.tracked \in Seq(Sound) /\ Distinct(st.tracked)
        /\ Range(st.tracked) = {t \in In(st) : Loops(st.sounds[t].role)}
    BY TrackedSounds
  <2>5. Distinct(r.tracked) /\ Range(r.tracked) = {t \in In(r) : Loops(r.sounds[t].role)}
    <3>1. {t \in In(r) : Loops(r.sounds[t].role)}
            = {t \in In(st) : Loops(st.sounds[t].role)} \cup (IF Loops(role) THEN {s} ELSE {})
      BY <1>2, <1>3, <1>4
    <3>2. CASE Loops(role)
      <4>1. s \notin Range(st.tracked)
        BY <2>4
      <4>2. /\ Append(st.tracked, s) \in Seq(Sound)
            /\ Distinct(Append(st.tracked, s))
            /\ Range(Append(st.tracked, s)) = Range(st.tracked) \cup {s}
        <5>1. Range(st.tracked) = Members(st.tracked) /\ s \in Sound
          BY <1>1, <2>4, RangeIs
        <5>2. PICK u : u = Append(st.tracked, s)
          OBVIOUS
        <5>3. /\ u \in Seq(Sound) /\ Members(u) = Members(st.tracked) \cup {s}
              /\ Distinct(u)
          BY <2>4, <4>1, <5>1, <5>2, AppendMembers
        <5>4. Range(u) = Members(u)
          BY <5>3, RangeIs
        <5> QED BY <5>1, <5>2, <5>3, <5>4
      <4> QED BY <2>1, <2>4, <3>1, <3>2, <4>2
    <3>3. CASE ~Loops(role)
      BY <2>1, <2>4, <3>1, <3>3
    <3> QED BY <3>2, <3>3
  <2>6. \A t, u \in In(r) : r.sounds[t].role = "song" /\ r.sounds[u].role = "song" => t = u
    BY <1>2, <1>3, <1>4, <2>0 DEF HeldBut, May
  <2> QED BY <2>2, <2>3, <2>5, <2>6 DEF Held, HeldBut
<1>7. EffectsOf(r) = EffectsOf(st) \cup (IF role = "effect" THEN {s} ELSE {})
  BY <1>2, <1>3, <1>4 DEF EffectsOf
<1>8. Counts(r)
  <2>1. IsFiniteSet(EffectsOf(st)) /\ st.counter \in Int /\ Cardinality(EffectsOf(st)) \in Nat
    BY <1>1, ListedFinite, StateFacts, FS_CardinalityType
  <2>2. s \notin EffectsOf(st)
    BY DEF EffectsOf
  <2>3. CASE role = "effect"
    <3>1. Cardinality(EffectsOf(r)) = Cardinality(EffectsOf(st)) + 1
      BY <1>7, <2>1, <2>2, <2>3, FS_AddElement
    <3> QED BY <2>1, <2>3, <3>1 DEF Good, Counts, New
  <2>4. CASE role # "effect"
    <3>1. EffectsOf(r) = EffectsOf(st)
      BY <1>7, <2>4
    <3> QED BY <2>4, <3>1 DEF Good, Counts, New
  <2> QED BY <2>3, <2>4
<1>9. Spared(r)
  BY <1>2, <1>3 DEF Good, Spared, New
<1>10. r # st
  BY <1>2
<1> QED BY <1>2, <1>3, <1>5, <1>6, <1>7, <1>8, <1>9, <1>10 DEF Good

\* What loading comes to: nothing, or one sound more.
More(st, r, role, plays) ==
  \E s \in Sound \ In(st) :
    /\ In(r) = In(st) \cup {s} /\ r.sounds[s].role = role /\ (r.sounds[s].playing <=> plays)
    /\ \A t \in In(st) : r.sounds[t] = st.sounds[t]
    /\ EffectsOf(r) = EffectsOf(st) \cup (IF role = "effect" THEN {s} ELSE {})

LEMMA LoadsGood ==
  ASSUME SoundConstants, NEW st, Good(st), NEW role, NEW loops, NEW stream \in BOOLEAN,
         May(st, role, loops), NEW r \in Loads(st, role, loops, stream)
  PROVE  Good(r) /\ (r = st \/ More(st, r, role, FALSE))
<1>1. CASE r = st
  BY <1>1
<1>2. CASE r # st
  <2>1. PICK s \in Sound \ In(st) : New(st, r, s, role)
    BY <1>2, LoadsNew
  <2>2. r.sounds[s].role = role /\ ~r.sounds[s].playing
    BY <2>1 DEF New
  <2>3. /\ Good(r) /\ In(r) = In(st) \cup {s}
        /\ \A t \in In(st) : r.sounds[t] = st.sounds[t]
        /\ EffectsOf(r) = EffectsOf(st) \cup (IF role = "effect" THEN {s} ELSE {})
    BY <2>1, NewGood
  <2> QED BY <2>2, <2>3 DEF More
<1> QED BY <1>1, <1>2

LEMMA StartsGood ==
  ASSUME SoundConstants, NEW st, Good(st), NEW role, NEW loops, NEW stream \in BOOLEAN,
         May(st, role, loops), NEW r \in Starts(st, role, loops, stream)
  PROVE  Good(r) /\ (r = st \/ More(st, r, role, TRUE))
<1>1. PICK new \in Loads(st, role, loops, stream) :
        r = IF new = st THEN st ELSE Played(new, Head(new.list))
  BY Zenon DEF Starts
<1>2. CASE new = st
  BY <1>1, <1>2
<1>3. CASE new # st
  <2>1. PICK s \in Sound \ In(st) : New(st, new, s, role)
    BY <1>3, LoadsNew
  <2>2. new.sounds[s].role = role
    BY <2>1 DEF New
  <2>3. /\ Good(new) /\ In(new) = In(st) \cup {s} /\ Head(new.list) = s
        /\ \A t \in In(st) : new.sounds[t] = st.sounds[t]
        /\ EffectsOf(new) = EffectsOf(st) \cup (IF role = "effect" THEN {s} ELSE {})
    BY <2>1, NewGood
  <2>4. new.sounds[s] \in Kind /\ In(new) \subseteq Sound
    BY <2>3, ListedSound, StateFacts
  <2>5. Alters(new, r, s, Playing(new.sounds[s]))
    BY <1>1, <1>3, <2>3, PlayedGood
  <2>6. Playing(new.sounds[s]).playing /\ Playing(new.sounds[s]).role = role
    BY <2>2, <2>4, PlayingIs
  <2>7. /\ Good(r) /\ In(r) = In(new) /\ r.sounds[s].playing /\ r.sounds[s].role = role
        /\ \A t \in Sound \ {s} : r.sounds[t] = new.sounds[t]
    BY <2>5, <2>6 DEF Alters
  <2>8. EffectsOf(r) = EffectsOf(new)
    BY <2>2, <2>4, <2>7 DEF EffectsOf
  <2>9. \A t \in In(st) : r.sounds[t] = st.sounds[t]
    BY <2>3, <2>4, <2>7
  <2> QED BY <2>3, <2>7, <2>8, <2>9 DEF More
<1> QED BY <1>2, <1>3

\* Who plays no effect leaves the effects alone.
LEMMA OthersFine ==
  ASSUME NEW st, Fine(st), NEW r, NEW role, role # "effect", NEW plays, Good(r),
         r = st \/ More(st, r, role, plays)
  PROVE  Fine(r)
<1>1. CASE r = st
  BY <1>1
<1>2. CASE More(st, r, role, plays)
  BY <1>2 DEF More, Fine, SameEffects, EffectsOf
<1> QED BY <1>1, <1>2

-----------------------------------------------------------------------------
(* The steps *)

\* The mutexes are released.
Rest(st) == [list |-> st.list, sounds |-> st.sounds, engine |-> st.engine, handle |-> st.handle,
             tracked |-> st.tracked, counter |-> st.counter, touched |-> {}]

LEMMA RestGood ==
  ASSUME NEW st, Good(st)
  PROVE  /\ Core(Rest(st)) /\ Held(Rest(st)) /\ Counts(Rest(st))
         /\ In(Rest(st)) = In(st) /\ EffectsOf(Rest(st)) = EffectsOf(st)
<1>1. PICK r : r = Rest(st)
  OBVIOUS
<1>2. /\ st \in State
      /\ r.list = st.list /\ r.sounds = st.sounds /\ r.engine = st.engine /\ r.handle = st.handle
      /\ r.tracked = st.tracked /\ r.counter = st.counter /\ r.touched = {}
  BY <1>1 DEF Rest, Good, Core
<1>3. r \in State
  BY <1>1, <1>2, StateFacts DEF Rest, State
<1>4. In(r) = In(st)
  BY <1>2 DEF In
<1>5. EffectsOf(r) = EffectsOf(st)
  BY <1>2, <1>4 DEF EffectsOf
<1>6. Core(r)
  BY <1>2, <1>3, <1>4 DEF Good, Core
<1>7. Held(r)
  BY <1>2, <1>4 DEF Good, Held, HeldBut
<1>8. Counts(r)
  BY <1>2, <1>5 DEF Good, Counts
<1> QED BY <1>1, <1>4, <1>5, <1>6, <1>7, <1>8

LEMMA BecomeGood ==
  ASSUME IInv, NEW st, Good(st), Become(st), mixer' = mixer
  PROVE  /\ Core(Now') /\ Held(Now') /\ Counts(Now')
         /\ Listed' = In(st) /\ Effects' = EffectsOf(st) /\ sounds' = st.sounds
         /\ mixer' \in [at : Buffer, reads : Sound \cup {NIL}]
         /\ mixer'.reads # NIL =>
              mixer'.reads \in Listed' /\ sounds'[mixer'.reads].buffer = mixer'.at
<1>1. Now' = Rest(st)
  BY DEF Now, Rest, Become
<1>2. Core(Now') /\ Held(Now') /\ Counts(Now')
  BY <1>1, RestGood
<1>3. list' = st.list /\ sounds' = st.sounds
  BY DEF Become
<1>4. Listed' = In(st) /\ Effects' = EffectsOf(st)
  BY <1>3 DEF Listed, Effects, In, EffectsOf
<1>5. ASSUME mixer.reads # NIL
      PROVE  mixer.reads \in In(st) /\ st.sounds[mixer.reads].buffer = mixer.at
  <2>1. mixer.reads \in Listed /\ sounds[mixer.reads].buffer = mixer.at /\ mixer.at \notin st.touched
    BY <1>5 DEF IInv, Become
  <2> QED BY <2>1 DEF Good, Spared
<1> QED BY <1>2, <1>3, <1>4, <1>5 DEF IInv

\* The operations of which no effect is the object.
LEMMA FineStep ==
  ASSUME IInv, NEW st, Fine(st), Become(st), UNCHANGED <<held, mixer>>,
         cursor' \in In(st) \cup {NIL}
  PROVE  IInv'
<1>1. /\ Core(Now') /\ Held(Now') /\ Counts(Now')
      /\ Listed' = In(st) /\ Effects' = EffectsOf(st) /\ sounds' = st.sounds
      /\ mixer' \in [at : Buffer, reads : Sound \cup {NIL}]
      /\ mixer'.reads # NIL =>
           mixer'.reads \in Listed' /\ sounds'[mixer'.reads].buffer = mixer'.at
  BY BecomeGood DEF Fine
<1>2. Effects' = Effects /\ \A s \in Effects : sounds'[s].playing = sounds[s].playing
  BY <1>1 DEF Fine, SameEffects
<1>3. held' \subseteq Effects' /\ \A s \in Effects' : s \in held' <=> ~sounds'[s].playing
  BY <1>2 DEF IInv
<1> QED BY <1>1, <1>3 DEF IInv

LEMMA MusicLoadedFine ==
  ASSUME SoundConstants, NEW st, Fine(st), NEW loops \in BOOLEAN, NEW r \in MusicLoaded(st, loops)
  PROVE  Fine(r)
<1>1. PICK old : old = Freed(st, "music")
  OBVIOUS
<1>2. Fine(old) /\ old.handle["music"] = NIL
  BY <1>1, FreedGood DEF Handles
<1>3. PICK stream \in BOOLEAN : r \in Starts(old, "music", loops, stream)
  BY <1>1, Zenon DEF MusicLoaded
<1>4. May(old, "music", loops)
  BY <1>2 DEF May, AllRoles, Handles, Loops
<1>5. Good(r) /\ (r = old \/ More(old, r, "music", TRUE))
  BY <1>2, <1>3, <1>4, StartsGood DEF Fine
<1> QED BY <1>2, <1>5, OthersFine

LEMMA MusicRestartedFine ==
  ASSUME SoundConstants, NEW st, Fine(st), NEW r \in MusicRestarted(st)
  PROVE  Fine(r)
<1>1. CASE requested = "none"
  BY <1>1 DEF MusicRestarted
<1>2. CASE requested # "none"
  <2>1. PICK loops \in BOOLEAN : loops = (requested = "loop")
    <3>1. (requested = "loop") = TRUE \/ (requested = "loop") = FALSE
      OBVIOUS
    <3> QED BY <3>1, Zenon
  <2>2. r \in MusicLoaded(st, loops)
    BY <1>2, <2>1, Zenon DEF MusicRestarted
  <2> QED BY <2>2, MusicLoadedFine
<1> QED BY <1>1, <1>2

LEMMA SongStartedFine ==
  ASSUME SoundConstants, IInv, NEW stream \in BOOLEAN, NEW r \in SongStarted(stream)
  PROVE  Fine(r)
<1>1. PICK quiet : quiet = IF Song # {} THEN TrackedStopped(Now, CHOOSE s \in Song : TRUE)
                                        ELSE Freed(Now, "music")
  OBVIOUS
<1>2. PICK new \in Starts(quiet, "song", TRUE, stream) :
        r \in IF new = quiet THEN MusicRestarted(quiet) ELSE {new}
  BY <1>1, Zenon DEF SongStarted
<1>3. Fine(Now) /\ In(Now) = Listed /\ Now.sounds = sounds /\ Now.tracked = tracked
  BY NowGood DEF Fine, Now
<1>4. Song = {s \in In(Now) : Now.sounds[s].role = "song"}
  <2>1. Range(tracked) = {s \in In(Now) : Loops(Now.sounds[s].role)}
    BY <1>3, TrackedSounds DEF Fine
  <2> QED BY <1>3, <2>1 DEF Song, Loops
<1>5. /\ Fine(quiet) /\ \A t \in In(quiet) : quiet.sounds[t].role # "song"
  <2>1. CASE Song = {}
    <3>1. Fine(quiet) /\ Fewer(Now, quiet)
      BY <1>1, <1>3, <2>1, FreedGood DEF Handles
    <3> QED BY <1>4, <2>1, <3>1 DEF Fewer
  <2>2. CASE Song # {}
    <3>1. PICK s \in Song : s = CHOOSE t \in Song : TRUE
      BY <2>2
    <3>2. quiet = TrackedStopped(Now, s) /\ s \in Range(Now.tracked)
      BY <1>1, <1>3, <2>2, <3>1 DEF Song
    <3>3. Fine(quiet) /\ Fewer(Now, quiet) /\ In(quiet) = In(Now) \ {s}
      BY <1>3, <3>2, TrackedStoppedGood
    <3>4. \A t \in Song : t = s
      BY <1>3, <1>4 DEF Fine, Good, Held, HeldBut
    <3> QED BY <1>4, <3>3, <3>4 DEF Fewer
  <2> QED BY <2>1, <2>2
<1>6. May(quiet, "song", TRUE)
  BY <1>5 DEF May, AllRoles, Handles, Loops
<1>7. Good(new) /\ (new = quiet \/ More(quiet, new, "song", TRUE))
  BY <1>2, <1>5, <1>6, StartsGood DEF Fine
<1>8. Fine(new)
  BY <1>5, <1>7, OthersFine
<1> QED BY <1>2, <1>5, <1>8, MusicRestartedFine

\* Whatever comes after a sound in the list is another one.
LEMMA AfterIs ==
  ASSUME IInv, NEW s \in Listed
  PROVE  After(s) = NIL \/ After(s) \in Listed \ {s}
<1>1. list \in Seq(Sound) /\ Distinct(list) /\ Listed = Members(list) /\ Len(list) \in Nat
  <2>1. Now \in State /\ Now.list = list /\ Distinct(Now.list)
    BY DEF IInv, Core, Now
  <2> QED BY <2>1, StateFacts, RangeIs, LenProperties DEF Listed
<1> DEFINE I == {i \in 1..Len(list) : list[i] = s}
           i == SelectInSeq(list, LAMBDA other : other = s)
<1>2. I # {} /\ I \in SUBSET Nat
  BY <1>1 DEF Members
<1>3. i = Min(I)
  BY <1>2, Zenon DEF SelectInSeq
<1>4. i \in 1..Len(list) /\ list[i] = s
  <2>1. Min(I) \in I
    BY <1>2, MinIs
  <2> QED BY <1>3, <2>1
<1>5. After(s) = IF i = Len(list) THEN NIL ELSE list[i + 1]
  BY DEF After
<1> HIDE DEF i
<1>6. CASE i = Len(list)
  BY <1>5, <1>6
<1>7. CASE i # Len(list)
  <2>1. i + 1 \in 1..Len(list) /\ i + 1 # i
    BY <1>1, <1>4, <1>7
  <2>2. list[i + 1] # s
    BY <1>1, <1>4, <2>1 DEF Distinct
  <2> QED BY <1>1, <1>5, <1>7, <2>1, <2>2 DEF Members
<1> QED BY <1>6, <1>7

\* A sound is continued, or over.
LEMMA ContinuedGood ==
  ASSUME SoundConstants, IInv, NEW s \in Listed, NEW st \in Continued(Now, s)
  PROVE  \/ Fine(st) /\ In(st) = Listed
         \/ /\ Good(st) /\ In(st) = Listed \ {s} /\ EffectsOf(st) = Effects \ {s}
            /\ sounds[s].playing /\ \A t \in In(st) : st.sounds[t] = sounds[t]
<1>1. /\ Fine(Now) /\ Good(Now) /\ In(Now) = Listed /\ EffectsOf(Now) = Effects
      /\ Now.sounds = sounds /\ Now.engine = engine
  BY NowGood DEF Fine, Now
<1>2. /\ Now \in State /\ s \in Sound /\ sounds[s] \in Kind /\ Sane(sounds[s])
      /\ sounds[s].buffer \in Buffer
  BY <1>1, ListedSound
<1>3. PICK seen : seen = Touched(Now, s)
  OBVIOUS
<1>4. Fine(seen) /\ In(seen) = Listed /\ seen.sounds[s] = sounds[s]
  <2>1. Alters(Now, seen, s, sounds[s])
    BY <1>1, <1>3, TouchedGood
  <2> QED BY <1>1, <2>1 DEF Alters, Fine
<1>5. CASE ~sounds[s].playing \/ sounds[s].paused
  <2>1. st = Now
    BY <1>1, <1>5 DEF Continued
  <2> QED BY <1>1, <2>1
<1>6. CASE /\ sounds[s].playing /\ ~sounds[s].paused
           /\ ~sounds[s].over /\ engine[sounds[s].buffer].playing
  <2>1. st \in Heard(seen, s)
    BY <1>1, <1>3, <1>6 DEF Continued
  <2>2. CASE st = seen
    BY <1>4, <2>2
  <2>3. CASE st # seen
    <3>1. ~sounds[s].loops /\ st = [seen EXCEPT !.sounds[s].over = TRUE]
      BY <1>4, <2>1, <2>3 DEF Heard
    <3>2. PICK k \in Kind : /\ k = [sounds[s] EXCEPT !.over = TRUE]
                            /\ k.role = sounds[s].role /\ k.loops = sounds[s].loops
                            /\ k.buffer = sounds[s].buffer /\ k.callback = sounds[s].callback
                            /\ k.stream = sounds[s].stream /\ k.playing = sounds[s].playing
      <4> DEFINE w == [sounds[s] EXCEPT !.over = TRUE]
      <4> /\ w \in Kind /\ w.role = sounds[s].role /\ w.loops = sounds[s].loops
          /\ w.buffer = sounds[s].buffer /\ w.callback = sounds[s].callback
          /\ w.stream = sounds[s].stream /\ w.playing = sounds[s].playing
        BY <1>2 DEF Kind
      <4> WITNESS w \in Kind
      <4> QED OBVIOUS
    <3>3. st = Recast(seen, s, k)
      BY <1>4, <3>1, <3>2 DEF Recast
    <3>4. Alters(seen, Recast(seen, s, k), s, k)
      BY <1>4, <3>1, <3>2, RecastGood DEF Fine
    <3> QED BY <1>4, <3>2, <3>3, <3>4 DEF Alters, Fine
  <2> QED BY <2>2, <2>3
<1>7. CASE /\ sounds[s].playing /\ ~sounds[s].paused
           /\ ~(~sounds[s].over /\ engine[sounds[s].buffer].playing)
  <2>1. st = Ended(seen, s)
    BY <1>1, <1>3, <1>7 DEF Continued
  <2>2. ~sounds[s].loops
    BY <1>1, <1>2, <1>7 DEF Good, Core, Sane
  <2>3. CASE FireAndForget(sounds[s])
    <3>1. /\ Good(st) /\ Fewer(Now, st) /\ In(st) = Listed \ {s} /\ EffectsOf(st) = Effects \ {s}
      BY <1>1, <1>3, <2>1, <2>3, EndedGood
    <3> QED BY <1>1, <1>7, <3>1 DEF Fewer
  <2>4. CASE ~FireAndForget(sounds[s])
    <3>1. sounds[s].role = "lips" /\ ~sounds[s].callback
      BY <1>2, <2>2, <2>4 DEF FireAndForget, Sane, HasCallback
    <3>2. st = Stopped(seen, s)
      BY <1>4, <2>1, <2>4, <3>1 DEF Ended, Told
    <3>3. Alters(seen, st, s, Quiet(sounds[s]))
      BY <1>4, <3>2, StoppedGood DEF Fine
    <3>4. Fine(st) /\ In(st) = Listed
      BY <1>4, <3>1, <3>3 DEF Alters, Fine
    <3> QED BY <3>4
  <2> QED BY <2>3, <2>4
<1> QED BY <1>5, <1>6, <1>7

LEMMA AllDeletedGood ==
  ASSUME SoundConstants, IInv
  PROVE  Good(AllDeleted(Now)) /\ In(AllDeleted(Now)) = {} /\ EffectsOf(AllDeleted(Now)) = {}
<1>1. /\ Now \in State /\ Good(Now) /\ In(Now) = Listed /\ Listed \subseteq Sound
      /\ \A s \in Listed : sounds[s].buffer \in Buffer
      /\ Now.list = list /\ Now.sounds = sounds /\ Now.engine = engine
  <2>1. Good(Now) /\ In(Now) = Listed
    BY NowGood
  <2>2. Now.list = list /\ Now.sounds = sounds /\ Now.engine = engine
    BY DEF Now
  <2> QED BY <2>1, <2>2, ListedSound, StateFacts DEF Good, Core
<1>2. PICK sd \in [Sound -> Kind] : sd = [s \in Sound |-> Unused]
  <2>1. Unused \in Kind
    BY DEF Unused, Kind
  <2> HIDE DEF Unused
  <2> QED BY <2>1
<1>3. PICK en \in [Buffer -> Voice] :
        /\ en = [b \in Buffer |-> [engine[b] EXCEPT !.active = FALSE, !.playing = FALSE]]
        /\ \A b \in Buffer : ~en[b].active
  <2> DEFINE w == [b \in Buffer |-> [engine[b] EXCEPT !.active = FALSE, !.playing = FALSE]]
  <2>1. ASSUME NEW b \in Buffer
        PROVE  w[b] \in Voice /\ ~w[b].active
    <3>1. engine[b] \in Voice
      BY <1>1, StateFacts
    <3> QED BY <3>1 DEF Voice
  <2> w \in [Buffer -> Voice] /\ \A b \in Buffer : ~w[b].active
    BY <2>1
  <2> WITNESS w \in [Buffer -> Voice]
  <2> QED OBVIOUS
<1>4. PICK hd \in [Handles -> Sound \cup {NIL}] : hd = [h \in Handles |-> NIL]
  OBVIOUS
<1>5. PICK seen \in SUBSET Buffer : seen = {sounds[s].buffer : s \in Listed}
  BY <1>1
<1>6. PICK none \in Seq(Sound) : none = << >>
  BY EmptySeq
<1>7. PICK zero \in Int : zero = 0
  OBVIOUS
<1>8. PICK r : r = [Now EXCEPT !.list = none, !.sounds = sd, !.engine = en, !.handle = hd,
                               !.tracked = none, !.counter = zero, !.touched = seen]
  OBVIOUS
<1>9. AllDeleted(Now) = r
  <2>1. AllDeleted(Now) =
          [Now EXCEPT !.list = << >>, !.sounds = [s \in Sound |-> Unused],
             !.engine = [b \in Buffer |-> [engine[b] EXCEPT !.active = FALSE, !.playing = FALSE]],
             !.handle = [h \in Handles |-> NIL], !.tracked = << >>, !.counter = 0,
             !.touched = {sounds[s].buffer : s \in Range(list)}]
    BY <1>1 DEF AllDeleted, State
  <2> QED BY <1>2, <1>3, <1>4, <1>5, <1>8, <1>6, <1>7, <2>1, Zenon DEF Listed
<1>10. /\ r \in State /\ r.list = none /\ r.sounds = sd /\ r.engine = en
       /\ r.handle = hd /\ r.tracked = none /\ r.counter = zero /\ r.touched = seen
  BY <1>1, <1>8 DEF State
<1>11. /\ In(r) = {} /\ Range(r.tracked) = {} /\ Distinct(r.list) /\ Distinct(r.tracked)
  <2>1. Members(<< >>) = {} /\ Distinct(<< >>)
    BY DEF Members, Distinct
  <2> QED BY <1>10, <1>6, <2>1, StateFacts, RangeIs
<1>12. EffectsOf(r) = {}
  BY <1>11 DEF EffectsOf
<1>13. Core(r)
  BY <1>2, <1>3, <1>10, <1>11 DEF Core
<1>14. Held(r)
  BY <1>4, <1>10, <1>11 DEF Held, HeldBut
<1>15. Counts(r)
  BY <1>10, <1>12, <1>7, FS_EmptySet DEF Counts
<1>16. Spared(r)
  BY <1>5, <1>10 DEF Spared
<1> QED BY <1>9, <1>11, <1>12, <1>13, <1>14, <1>15, <1>16 DEF Good

LEMMA InitGood ==
  ASSUME SoundConstants, Init
  PROVE  IInv
<1>1. PICK r : r = Now
  OBVIOUS
<1>2. /\ r.list = << >> /\ r.sounds = [s \in Sound |-> Unused] /\ r.engine = [b \in Buffer |-> Silent]
      /\ r.handle = [h \in Handles |-> NIL] /\ r.tracked = << >> /\ r.counter = 0 /\ r.touched = {}
  BY <1>1 DEF Now, Init
<1>3. r \in State
  <2>1. Unused \in Kind /\ Silent \in Voice /\ << >> \in Seq(Sound)
    BY EmptySeq DEF Unused, Kind, Silent, Voice
  <2>2. /\ r.sounds \in [Sound -> Kind] /\ r.engine \in [Buffer -> Voice]
        /\ r.handle \in [Handles -> Sound \cup {NIL}]
    BY <1>2, <2>1
  <2>3. r.list \in Seq(Sound) /\ r.tracked \in Seq(Sound) /\ r.counter \in Int /\ r.touched \in SUBSET Buffer
    BY <1>2, <2>1
  <2>4. r = [list |-> r.list, sounds |-> r.sounds, engine |-> r.engine, handle |-> r.handle,
             tracked |-> r.tracked, counter |-> r.counter, touched |-> r.touched]
    BY <1>1 DEF Now
  <2> QED BY <2>2, <2>4, <2>3 DEF State
<1>4. /\ In(r) = {} /\ Range(r.tracked) = {} /\ Distinct(r.list) /\ Distinct(r.tracked)
  <2>1. Members(<< >>) = {} /\ Distinct(<< >>)
    BY DEF Members, Distinct
  <2> QED BY <1>2, <1>3, <2>1, StateFacts, RangeIs
<1>5. EffectsOf(r) = {}
  BY <1>4 DEF EffectsOf
<1>6. Core(r)
  <2>1. \A b \in Buffer : ~r.engine[b].active
    BY <1>2 DEF Silent
  <2> QED BY <1>2, <1>3, <1>4, <2>1 DEF Core
<1>7. Held(r)
  BY <1>2, <1>4 DEF Held, HeldBut
<1>8. Counts(r)
  BY <1>2, <1>5, FS_EmptySet DEF Counts
<1>9. Effects = {}
  BY <1>1, <1>2, <1>4 DEF Effects, Listed, In, Now
<1>10. 1 \in Buffer
  BY DEF SoundConstants, Buffer
<1> QED BY <1>1, <1>6, <1>7, <1>8, <1>9, <1>10 DEF IInv, Init

\* What a handle holds is a sound of its own kind.
LEMMA HandleSound ==
  ASSUME IInv, NEW h \in Handles, handle[h] # NIL
  PROVE  /\ handle[h] \in In(Now) /\ Now.sounds[handle[h]] = sounds[handle[h]]
         /\ sounds[handle[h]].role = h /\ h # "effect"
<1>1. Now.handle = handle /\ Now.sounds = sounds
  BY DEF Now
<1>2. HeldBut(Now, NIL)
  BY DEF IInv, Held
<1> QED BY <1>1, <1>2 DEF HeldBut, Handles

LEMMA PlayedFine ==
  ASSUME NEW st, NEW s \in In(st), Fine(st), st.sounds[s].role # "effect"
  PROVE  /\ Fine(Played(st, s)) /\ In(Played(st, s)) = In(st)
         /\ Fine(Stopped(st, s)) /\ In(Stopped(st, s)) = In(st)
         /\ Stopped(st, s).sounds[s].role = st.sounds[s].role
<1>1. Alters(st, Played(st, s), s, Playing(st.sounds[s])) /\ Alters(st, Stopped(st, s), s, Quiet(st.sounds[s]))
  BY PlayedGood, StoppedGood DEF Fine
<1>2. Quiet(st.sounds[s]).role = st.sounds[s].role
  BY ListedSound, QuietIs DEF Fine
<1> QED BY <1>1, <1>2 DEF Alters, Fine

\* What a step of the main thread does keeps what there was, if it did what is fine.
LEMMA KeepsFine ==
  ASSUME IInv, NEW st, Fine(st), Become(st), cursor = NIL, UNCHANGED <<cursor, mixer, held>>
  PROVE  IInv'
BY FineStep

LEMMA HandleSteps ==
  ASSUME SoundConstants, IInv,
         \/ \E loops \in BOOLEAN : MusicLoad(loops)
         \/ MusicDelete \/ MusicRestart \/ MusicPause \/ MusicResume
         \/ \E stream, plays \in BOOLEAN : SpeechLoad(stream, plays)
         \/ SpeechPlayPreloaded \/ SpeechDelete
         \/ LipsSpeak \/ LipsStop \/ LipsFree
  PROVE  IInv'
<1>0. Fine(Now) /\ In(Now) = Listed
  BY NowGood DEF Fine
<1> SUFFICES \E st : Fine(st) /\ Become(st) /\ cursor = NIL /\ UNCHANGED <<cursor, mixer, held>>
  BY KeepsFine
<1>1. ASSUME NEW loops \in BOOLEAN, MusicLoad(loops)
      PROVE  \E st : Fine(st) /\ Become(st) /\ cursor = NIL /\ UNCHANGED <<cursor, mixer, held>>
  BY <1>0, <1>1, MusicLoadedFine DEF MusicLoad, Does
<1>2. CASE MusicDelete
  BY <1>0, <1>2, FreedGood DEF MusicDelete, Keeps, Does, Handles
<1>3. CASE MusicRestart
  BY <1>0, <1>3, MusicRestartedFine DEF MusicRestart, Keeps, Does
<1>4. CASE MusicPause
  <2>1. /\ Become(Paused(Now, handle["music"])) /\ handle["music"] # NIL
        /\ cursor = NIL /\ UNCHANGED <<cursor, mixer, held>>
    BY <1>4 DEF MusicPause, Keeps, Does
  <2>2. Fine(Paused(Now, handle["music"]))
    BY <1>0, <2>1, HandleSound, PausedGood DEF Handles
  <2> QED BY <2>1, <2>2
<1>5. CASE MusicResume
  <2>1. /\ Become(Resumed(Now, handle["music"])) /\ handle["music"] # NIL
        /\ cursor = NIL /\ UNCHANGED <<cursor, mixer, held>>
    BY <1>5 DEF MusicResume, Keeps, Does
  <2>2. Fine(Resumed(Now, handle["music"]))
    BY <1>0, <2>1, HandleSound, ResumedGood DEF Handles
  <2> QED BY <2>1, <2>2
<1>6. ASSUME NEW stream \in BOOLEAN, NEW plays \in BOOLEAN, SpeechLoad(stream, plays)
      PROVE  \E st : Fine(st) /\ Become(st) /\ cursor = NIL /\ UNCHANGED <<cursor, mixer, held>>
  <2>1. PICK old : old = Freed(Now, "speech")
    OBVIOUS
  <2>2. Fine(old) /\ old.handle["speech"] = NIL
    BY <1>0, <2>1, FreedGood DEF Handles
  <2>3. PICK st : /\ \/ st \in Starts(old, "speech", FALSE, stream)
                     \/ st \in Loads(old, "speech", FALSE, stream)
                  /\ Become(st) /\ cursor = NIL /\ UNCHANGED <<cursor, mixer, held>>
    <3>1. CASE plays
      BY <1>6, <2>1, <3>1 DEF SpeechLoad, Keeps, Does
    <3>2. CASE ~plays
      BY <1>6, <2>1, <3>2 DEF SpeechLoad, Keeps, Does
    <3> QED BY <3>1, <3>2
  <2>4. May(old, "speech", FALSE)
    BY <2>2 DEF May, AllRoles, Handles, Loops
  <2>5. \E went \in BOOLEAN : Good(st) /\ (st = old \/ More(old, st, "speech", went))
    BY <2>2, <2>3, <2>4, StartsGood, LoadsGood DEF Fine
  <2>6. Fine(st)
    BY <2>2, <2>5, OthersFine
  <2> QED BY <2>3, <2>6
<1>7. CASE SpeechPlayPreloaded
  <2>1. /\ Become(Played(Now, handle["speech"])) /\ handle["speech"] # NIL
        /\ cursor = NIL /\ UNCHANGED <<cursor, mixer, held>>
    BY <1>7 DEF SpeechPlayPreloaded, Keeps, Does
  <2>2. Fine(Played(Now, handle["speech"]))
    BY <1>0, <2>1, HandleSound, PlayedFine DEF Handles
  <2> QED BY <2>1, <2>2
<1>8. CASE SpeechDelete
  BY <1>0, <1>8, FreedGood DEF SpeechDelete, Keeps, Does, Handles
<1>9. CASE LipsSpeak
  <2>1. PICK old : old = Freed(Now, "lips")
    OBVIOUS
  <2>2. Fine(old) /\ old.handle["lips"] = NIL
    BY <1>0, <2>1, FreedGood DEF Handles
  <2>3. PICK st \in Starts(old, "lips", FALSE, FALSE) :
          Become(st) /\ cursor = NIL /\ UNCHANGED <<cursor, mixer, held>>
    BY <1>9, <2>1 DEF LipsSpeak, Keeps, Does
  <2>4. May(old, "lips", FALSE)
    BY <2>2 DEF May, AllRoles, Handles, Loops
  <2>5. Good(st) /\ (st = old \/ More(old, st, "lips", TRUE))
    BY <2>2, <2>3, <2>4, StartsGood DEF Fine
  <2>6. Fine(st)
    BY <2>2, <2>5, OthersFine
  <2> QED BY <2>3, <2>6
<1>10. CASE LipsStop
  <2>1. /\ Become(Stopped(Now, handle["lips"])) /\ handle["lips"] # NIL
        /\ cursor = NIL /\ UNCHANGED <<cursor, mixer, held>>
    BY <1>10 DEF LipsStop, Keeps, Does
  <2>2. Fine(Stopped(Now, handle["lips"]))
    BY <1>0, <2>1, HandleSound, PlayedFine DEF Handles
  <2> QED BY <2>1, <2>2
<1>11. CASE LipsFree
  BY <1>0, <1>11, FreedGood DEF LipsFree, Keeps, Does, Handles
<1> QED BY <1>1, <1>2, <1>3, <1>4, <1>5, <1>6, <1>7, <1>8, <1>9, <1>10, <1>11

LEMMA EffectLoadGood ==
  ASSUME SoundConstants, IInv, EffectLoad
  PROVE  IInv'
<1>0. Fine(Now) /\ Good(Now) /\ In(Now) = Listed /\ EffectsOf(Now) = Effects /\ Now.sounds = sounds
  BY NowGood DEF Fine, Now
<1>1. PICK st \in Loads(Now, "effect", FALSE, FALSE) :
        /\ Become(st) /\ cursor = NIL /\ cursor' = cursor /\ mixer' = mixer
        /\ held' = held \cup (Listed' \ Listed)
  BY DEF EffectLoad, Does, Listed
<1>2. May(Now, "effect", FALSE)
  BY DEF May, AllRoles, Handles, Loops
<1>3. Good(st) /\ (st = Now \/ More(Now, st, "effect", FALSE))
  BY <1>0, <1>1, <1>2, LoadsGood
<1>4. /\ Core(Now') /\ Held(Now') /\ Counts(Now')
      /\ Listed' = In(st) /\ Effects' = EffectsOf(st) /\ sounds' = st.sounds
      /\ mixer' \in [at : Buffer, reads : Sound \cup {NIL}]
      /\ mixer'.reads # NIL =>
           mixer'.reads \in Listed' /\ sounds'[mixer'.reads].buffer = mixer'.at
  BY <1>1, <1>3, BecomeGood
<1>5. held' \subseteq Effects' /\ \A s \in Effects' : s \in held' <=> ~sounds'[s].playing
  <2>1. CASE st = Now
    BY <1>0, <1>1, <1>4, <2>1 DEF IInv
  <2>2. CASE More(Now, st, "effect", FALSE)
    <3>1. PICK s \in Sound \ In(Now) :
            /\ In(st) = In(Now) \cup {s} /\ ~st.sounds[s].playing
            /\ \A t \in In(Now) : st.sounds[t] = Now.sounds[t]
            /\ EffectsOf(st) = EffectsOf(Now) \cup {s}
      BY <2>2 DEF More
    <3>2. held' = held \cup {s}
      BY <1>0, <1>1, <1>4, <3>1
    <3>3. Effects \subseteq Listed
      BY DEF Effects
    <3> QED BY <1>0, <1>4, <3>1, <3>2, <3>3 DEF IInv
  <2> QED BY <1>3, <2>1, <2>2
<1> QED BY <1>1, <1>4, <1>5 DEF IInv

LEMMA SoundPlayFileGood ==
  ASSUME SoundConstants, IInv, SoundPlayFile
  PROVE  IInv'
<1>0. Fine(Now) /\ Good(Now) /\ In(Now) = Listed /\ EffectsOf(Now) = Effects /\ Now.sounds = sounds
  BY NowGood DEF Fine, Now
<1>1. PICK st \in Starts(Now, "effect", FALSE, FALSE) :
        /\ Become(st) /\ cursor = NIL /\ cursor' = cursor /\ mixer' = mixer /\ held' = held
  BY DEF SoundPlayFile, Keeps, Does
<1>2. May(Now, "effect", FALSE)
  BY DEF May, AllRoles, Handles, Loops
<1>3. Good(st) /\ (st = Now \/ More(Now, st, "effect", TRUE))
  BY <1>0, <1>1, <1>2, StartsGood
<1>4. /\ Core(Now') /\ Held(Now') /\ Counts(Now')
      /\ Listed' = In(st) /\ Effects' = EffectsOf(st) /\ sounds' = st.sounds
      /\ mixer' \in [at : Buffer, reads : Sound \cup {NIL}]
      /\ mixer'.reads # NIL =>
           mixer'.reads \in Listed' /\ sounds'[mixer'.reads].buffer = mixer'.at
  BY <1>1, <1>3, BecomeGood
<1>5. held' \subseteq Effects' /\ \A s \in Effects' : s \in held' <=> ~sounds'[s].playing
  <2>1. CASE st = Now
    BY <1>0, <1>1, <1>4, <2>1 DEF IInv
  <2>2. CASE More(Now, st, "effect", TRUE)
    <3>1. PICK s \in Sound \ In(Now) :
            /\ st.sounds[s].playing /\ EffectsOf(st) = EffectsOf(Now) \cup {s}
            /\ \A t \in In(Now) : st.sounds[t] = Now.sounds[t]
      BY <2>2 DEF More
    <3>2. Effects \subseteq Listed /\ s \notin held
      BY <1>0 DEF Effects, IInv
    <3> QED BY <1>0, <1>1, <1>4, <3>1, <3>2 DEF IInv
  <2> QED BY <1>3, <2>1, <2>2
<1> QED BY <1>1, <1>4, <1>5 DEF IInv

LEMMA EffectPlayGood ==
  ASSUME SoundConstants, IInv, NEW s, EffectPlay(s)
  PROVE  IInv'
<1>0. Fine(Now) /\ Good(Now) /\ In(Now) = Listed /\ EffectsOf(Now) = Effects /\ Now.sounds = sounds
  BY NowGood DEF Fine, Now
<1>1. PICK st : st = Played(Now, s)
  OBVIOUS
<1>2. /\ Become(st) /\ s \in held /\ cursor = NIL /\ cursor' = cursor /\ mixer' = mixer
      /\ held' = held \ {s}
  BY <1>1 DEF EffectPlay, Does
<1>3. s \in In(Now) /\ s \in Effects /\ Effects \subseteq Listed /\ sounds[s] \in Kind /\ Listed \subseteq Sound
  <2>1. s \in Listed /\ s \in Effects /\ Effects \subseteq Listed
    BY <1>2 DEF IInv, Effects
  <2>2. Listed \subseteq Sound
    BY <1>0, StateFacts DEF Good, Core
  <2> QED BY <1>0, <2>1, <2>2, ListedSound
<1>4. Alters(Now, st, s, Playing(sounds[s]))
  BY <1>0, <1>1, <1>3, PlayedGood
<1>5. Playing(sounds[s]).playing /\ Playing(sounds[s]).role = sounds[s].role
  BY <1>3, PlayingIs
<1>6. /\ Good(st) /\ In(st) = In(Now) /\ st.sounds[s].playing /\ st.sounds[s].role = sounds[s].role
      /\ \A t \in Sound \ {s} : st.sounds[t] = sounds[t]
  BY <1>0, <1>4, <1>5 DEF Alters
<1>7. EffectsOf(st) = Effects
  <2>1. \A t \in In(Now) : st.sounds[t].role = sounds[t].role
    BY <1>0, <1>3, <1>6
  <2> QED BY <1>0, <1>6, <2>1 DEF EffectsOf
<1>8. /\ Core(Now') /\ Held(Now') /\ Counts(Now')
      /\ Listed' = In(st) /\ Effects' = EffectsOf(st) /\ sounds' = st.sounds
      /\ mixer' \in [at : Buffer, reads : Sound \cup {NIL}]
      /\ mixer'.reads # NIL =>
           mixer'.reads \in Listed' /\ sounds'[mixer'.reads].buffer = mixer'.at
  BY <1>2, <1>6, BecomeGood
<1>9. held' \subseteq Effects' /\ \A t \in Effects' : t \in held' <=> ~sounds'[t].playing
  BY <1>2, <1>3, <1>6, <1>7, <1>8 DEF IInv
<1> QED BY <1>2, <1>8, <1>9 DEF IInv

LEMMA EffectDeleteGood ==
  ASSUME SoundConstants, IInv, NEW s, EffectDelete(s)
  PROVE  IInv'
<1>0. /\ Fine(Now) /\ Good(Now) /\ In(Now) = Listed /\ EffectsOf(Now) = Effects /\ Now.sounds = sounds
      /\ Now.handle = handle
  BY NowGood DEF Fine, Now
<1>1. PICK r : r = Deleted(Now, s)
  OBVIOUS
<1>2. PICK st : st = [r EXCEPT !.counter = @ - 1]
  OBVIOUS
<1>3. /\ Become(st) /\ s \in held /\ cursor = NIL /\ cursor' = cursor /\ mixer' = mixer
      /\ held' = held \ {s}
  BY <1>1, <1>2 DEF EffectDelete, Does
<1>4. s \in In(Now) /\ s \in Effects /\ Effects \subseteq Listed /\ sounds[s].role = "effect"
  BY <1>0, <1>3 DEF IInv, Effects
<1>5. s \in Sound /\ s # NIL
  BY <1>0, <1>4, ListedSound DEF SoundConstants
<1>6. Gone(Now, r, s)
  BY <1>0, <1>1, <1>4, DeletedGone
<1>7. /\ Core(r) /\ HeldBut(r, s) /\ Counts(r) /\ Spared(r) /\ r \in State
      /\ In(r) = In(Now) \ {s} /\ EffectsOf(r) = EffectsOf(Now) \ {s}
      /\ \A t \in In(r) : r.sounds[t] = Now.sounds[t]
  BY <1>0, <1>4, <1>6, GoneGood DEF Core
<1>8. \A h \in Handles : r.handle[h] # s
  BY <1>0, <1>4, <1>5, <1>6 DEF Gone, Good, Held, HeldBut, Handles
<1>9. s \notin Range(r.tracked)
  BY <1>0, <1>4, <1>6, TrackedSounds DEF Gone, Loops
<1>10. Held(r)
  BY <1>7, <1>8, <1>9, HeldAgain
<1>11. /\ st \in State /\ st.list = r.list /\ st.sounds = r.sounds /\ st.engine = r.engine
       /\ st.handle = r.handle /\ st.tracked = r.tracked /\ st.counter = r.counter - 1
       /\ st.touched = r.touched
  <2>1. r.counter - 1 \in Int
    BY <1>7, StateFacts
  <2> QED BY <1>2, <1>7, <2>1 DEF State
<1>12. In(st) = In(r) /\ EffectsOf(st) = EffectsOf(r)
  BY <1>11 DEF In, EffectsOf
<1>13. Counts(st)
  <2>1. IsFiniteSet(EffectsOf(r)) /\ r.counter \in Int
    BY <1>7, ListedFinite, StateFacts
  <2>2. Cardinality(EffectsOf(r)) \in Nat
    BY <2>1, FS_CardinalityType
  <2> QED BY <1>7, <1>11, <1>12, <2>1, <2>2 DEF Counts
<1>14. Good(st)
  <2>1. Core(st)
    BY <1>7, <1>11, <1>12 DEF Core
  <2>2. Held(st)
    BY <1>10, <1>11, <1>12 DEF Held, HeldBut
  <2>3. Spared(st)
    BY <1>7, <1>11, <1>12 DEF Spared
  <2> QED BY <1>13, <2>1, <2>2, <2>3 DEF Good
<1>15. /\ Core(Now') /\ Held(Now') /\ Counts(Now')
       /\ Listed' = In(st) /\ Effects' = EffectsOf(st) /\ sounds' = st.sounds
       /\ mixer' \in [at : Buffer, reads : Sound \cup {NIL}]
       /\ mixer'.reads # NIL =>
            mixer'.reads \in Listed' /\ sounds'[mixer'.reads].buffer = mixer'.at
  BY <1>3, <1>14, BecomeGood
<1>16. held' \subseteq Effects' /\ \A t \in Effects' : t \in held' <=> ~sounds'[t].playing
  <2>1. Effects' = Effects \ {s} /\ \A t \in Effects' : sounds'[t] = sounds[t]
    BY <1>0, <1>4, <1>7, <1>11, <1>12, <1>15
  <2> QED BY <1>3, <2>1 DEF IInv
<1> QED BY <1>3, <1>15, <1>16 DEF IInv

LEMMA ContinueGood ==
  ASSUME SoundConstants, IInv, NEW s \in Sound, Continue(s)
  PROVE  IInv'
<1>0. Fine(Now) /\ Good(Now) /\ In(Now) = Listed /\ EffectsOf(Now) = Effects /\ Now.sounds = sounds
  BY NowGood DEF Fine, Now
<1>1. s \in Listed /\ (cursor' = NIL \/ cursor' \in Listed \ {s})
  <2>1. cursor = s /\ cursor' = After(s) /\ s # NIL
    BY DEF Continue, SoundConstants
  <2> QED BY <2>1, AfterIs DEF IInv
<1>2. PICK st \in Continued(Now, s) : Become(st) /\ UNCHANGED <<held, mixer>>
  BY DEF Continue
<1>3. \/ Fine(st) /\ In(st) = Listed
      \/ /\ Good(st) /\ In(st) = Listed \ {s} /\ EffectsOf(st) = Effects \ {s}
         /\ sounds[s].playing /\ \A t \in In(st) : st.sounds[t] = sounds[t]
  BY <1>1, <1>2, ContinuedGood
<1>4. CASE Fine(st) /\ In(st) = Listed
  BY <1>1, <1>2, <1>4, FineStep
<1>5. CASE /\ Good(st) /\ In(st) = Listed \ {s} /\ EffectsOf(st) = Effects \ {s}
           /\ sounds[s].playing /\ \A t \in In(st) : st.sounds[t] = sounds[t]
  <2>1. /\ Core(Now') /\ Held(Now') /\ Counts(Now')
        /\ Listed' = In(st) /\ Effects' = EffectsOf(st) /\ sounds' = st.sounds
        /\ mixer' \in [at : Buffer, reads : Sound \cup {NIL}]
        /\ mixer'.reads # NIL =>
             mixer'.reads \in Listed' /\ sounds'[mixer'.reads].buffer = mixer'.at
    BY <1>2, <1>5, BecomeGood
  <2>2. s \notin held /\ Effects \subseteq Listed
    BY <1>5 DEF IInv, Effects
  <2>3. held' \subseteq Effects' /\ \A t \in Effects' : t \in held' <=> ~sounds'[t].playing
    BY <1>2, <1>5, <2>1, <2>2 DEF IInv
  <2> QED BY <1>1, <1>5, <2>1, <2>3 DEF IInv
<1> QED BY <1>3, <1>4, <1>5

LEMMA ScriptSteps ==
  ASSUME SoundConstants, IInv,
         \/ \E s \in Sound : ScriptSoundStop(s)
         \/ \E mode \in {"once", "looping", "song"}, stream \in BOOLEAN : ScriptSoundPlay(mode, stream)
         \/ \E loops, stream \in BOOLEAN : IntLibSoundPlay(loops, stream)
         \/ IntLibSoundPause \/ IntLibSoundStop \/ IntLibSoundRewind
         \/ IntLibSoundResume \/ IntLibSoundDelete
  PROVE  IInv'
<1>0. /\ Fine(Now) /\ In(Now) = Listed /\ Now.sounds = sounds /\ Now.handle = handle
      /\ Now.tracked = tracked
  BY NowGood DEF Fine, Now
<1> SUFFICES \E st : Fine(st) /\ Become(st) /\ cursor = NIL /\ UNCHANGED <<cursor, mixer, held>>
  BY KeepsFine
<1>1. ASSUME NEW s \in Sound, ScriptSoundStop(s)
      PROVE  \E st : Fine(st) /\ Become(st) /\ cursor = NIL /\ UNCHANGED <<cursor, mixer, held>>
  <2>1. PICK without : without = TrackedStopped(Now, s)
    OBVIOUS
  <2>2. Fine(without)
    BY <1>0, <1>1, <2>1, TrackedStoppedGood DEF ScriptSoundStop
  <2>3. PICK st : /\ st \in MusicRestarted(without) \/ st = without
                  /\ Become(st) /\ cursor = NIL /\ UNCHANGED <<cursor, mixer, held>>
    <3>1. CASE s \in Song
      BY <1>1, <2>1, <3>1 DEF ScriptSoundStop, Keeps, Does
    <3>2. CASE s \notin Song
      BY <1>1, <2>1, <3>2 DEF ScriptSoundStop, Keeps, Does
    <3> QED BY <3>1, <3>2
  <2>4. Fine(st)
    BY <2>2, <2>3, MusicRestartedFine
  <2> QED BY <2>3, <2>4
<1>2. ASSUME NEW mode \in {"once", "looping", "song"}, NEW stream \in BOOLEAN, ScriptSoundPlay(mode, stream)
      PROVE  \E st : Fine(st) /\ Become(st) /\ cursor = NIL /\ UNCHANGED <<cursor, mixer, held>>
  <2>1. CASE mode = "song"
    <3>1. PICK st \in SongStarted(stream) :
            Become(st) /\ cursor = NIL /\ UNCHANGED <<cursor, mixer, held>>
      BY <1>2, <2>1 DEF ScriptSoundPlay, Keeps, Does
    <3> QED BY <3>1, SongStartedFine
  <2>2. CASE mode # "song"
    <3>1. PICK loops \in BOOLEAN : loops = (mode = "looping")
      <4>1. (mode = "looping") = TRUE \/ (mode = "looping") = FALSE
        OBVIOUS
      <4> QED BY <4>1, Zenon
    <3>2. \E st \in Starts(Now, mode, mode = "looping", stream) :
            Become(st) /\ cursor = NIL /\ UNCHANGED <<cursor, mixer, held>>
      BY <1>2, <2>2, Zenon DEF ScriptSoundPlay, Keeps, Does
    <3>3. PICK st \in Starts(Now, mode, loops, stream) :
            Become(st) /\ cursor = NIL /\ UNCHANGED <<cursor, mixer, held>>
      BY <3>1, <3>2, Zenon
    <3>4. loops <=> mode = "looping"
      BY <3>1
    <3>5. May(Now, mode, loops) /\ mode # "effect"
      BY <2>2, <3>4 DEF May, AllRoles, Handles, Loops
    <3>6. Good(st) /\ (st = Now \/ More(Now, st, mode, TRUE))
      BY <1>0, <3>3, <3>5, StartsGood DEF Fine
    <3>7. Fine(st)
      BY <1>0, <3>5, <3>6, OthersFine
    <3> QED BY <3>3, <3>7
  <2> QED BY <2>1, <2>2
<1>3. ASSUME NEW loops \in BOOLEAN, NEW stream \in BOOLEAN, IntLibSoundPlay(loops, stream)
      PROVE  \E st : Fine(st) /\ Become(st) /\ cursor = NIL /\ UNCHANGED <<cursor, mixer, held>>
  <2>1. PICK st \in Starts(Now, "program", loops, stream) :
          Become(st) /\ cursor = NIL /\ UNCHANGED <<cursor, mixer, held>>
    BY <1>3 DEF IntLibSoundPlay, Keeps, Does
  <2>2. May(Now, "program", loops)
    BY <1>0, <1>3 DEF IntLibSoundPlay, May, AllRoles, Handles, Loops
  <2>3. Good(st) /\ (st = Now \/ More(Now, st, "program", TRUE))
    BY <1>0, <2>1, <2>2, StartsGood DEF Fine
  <2>4. Fine(st)
    BY <1>0, <2>3, OthersFine
  <2> QED BY <2>1, <2>4
<1> DEFINE s == handle["program"]
<1>4. ASSUME s # NIL
      PROVE  /\ s \in In(Now) /\ Now.sounds[s].role # "effect"
             /\ Fine(Stopped(Now, s)) /\ Fine(Played(Now, s)) /\ In(Stopped(Now, s)) = In(Now)
             /\ Stopped(Now, s).sounds[s].role # "effect"
             /\ Fine(Paused(Now, s)) /\ Fine(Resumed(Now, s))
  <2>1. s \in In(Now) /\ Now.sounds[s].role # "effect"
    BY <1>4, HandleSound DEF Handles
  <2> HIDE DEF s
  <2> QED BY <1>0, <2>1, PlayedFine, PausedGood, ResumedGood
<1>5. CASE IntLibSoundPause
  <2>1. /\ s # NIL /\ cursor = NIL /\ UNCHANGED <<cursor, mixer, held>>
        /\ Become(Paused(Now, s)) \/ Become(Stopped(Now, s))
    BY <1>5 DEF IntLibSoundPause, Keeps, Does
  <2> QED BY <1>4, <2>1
<1>6. CASE IntLibSoundStop
  <2>1. /\ s # NIL /\ cursor = NIL /\ UNCHANGED <<cursor, mixer, held>>
        /\ Become(Stopped(Now, s))
    BY <1>6 DEF IntLibSoundStop, Keeps, Does
  <2> QED BY <1>4, <2>1
<1>7. CASE IntLibSoundRewind
  <2>1. /\ s # NIL /\ cursor = NIL /\ UNCHANGED <<cursor, mixer, held>>
        /\ Become(Played(Stopped(Now, s), s))
    BY <1>7 DEF IntLibSoundRewind, Keeps, Does
  <2>2. Fine(Played(Stopped(Now, s), s))
    <3> HIDE DEF s
    <3> QED BY <1>4, <2>1, PlayedFine
  <2> QED BY <2>1, <2>2
<1>8. CASE IntLibSoundResume
  <2>1. /\ s # NIL /\ cursor = NIL /\ UNCHANGED <<cursor, mixer, held>>
        /\ Become(Resumed(Now, s)) \/ Become(Played(Now, s))
    BY <1>8 DEF IntLibSoundResume, Keeps, Does
  <2> QED BY <1>4, <2>1
<1>9. CASE IntLibSoundDelete
  BY <1>0, <1>9, FreedGood DEF IntLibSoundDelete, Keeps, Does, Handles
<1> QED BY <1>1, <1>2, <1>3, <1>5, <1>6, <1>7, <1>8, <1>9

LEMMA ResetGood ==
  ASSUME SoundConstants, IInv, GameSoundReset
  PROVE  IInv'
<1>1. PICK st : st = AllDeleted(Now)
  OBVIOUS
<1>2. Become(st) /\ cursor = NIL /\ cursor' = cursor /\ mixer' = mixer /\ held' = {}
  BY <1>1 DEF GameSoundReset, Does
<1>3. Good(st) /\ In(st) = {} /\ EffectsOf(st) = {}
  BY <1>1, AllDeletedGood
<1>4. /\ Core(Now') /\ Held(Now') /\ Counts(Now')
      /\ Listed' = In(st) /\ Effects' = EffectsOf(st) /\ sounds' = st.sounds
      /\ mixer' \in [at : Buffer, reads : Sound \cup {NIL}]
      /\ mixer'.reads # NIL =>
           mixer'.reads \in Listed' /\ sounds'[mixer'.reads].buffer = mixer'.at
  BY <1>2, <1>3, BecomeGood
<1> QED BY <1>2, <1>3, <1>4 DEF IInv

\* The cursor and the mixer move, and nothing else.
LEMMA MovesGood ==
  ASSUME IInv, UNCHANGED state,
         cursor' \in Listed \cup {NIL},
         mixer' \in [at : Buffer, reads : Sound \cup {NIL}],
         mixer'.reads # NIL => mixer'.reads \in Listed /\ sounds[mixer'.reads].buffer = mixer'.at
  PROVE  IInv'
<1>1. Now' = Now /\ Listed' = Listed /\ Effects' = Effects /\ held' = held /\ sounds' = sounds
  BY DEF state, Now, Listed, Effects
<1> QED BY <1>1 DEF IInv

LEMMA NextBufferIs ==
  ASSUME SoundConstants, IInv
  PROVE  NextBuffer \in Buffer
BY DEF SoundConstants, IInv, NextBuffer, Buffer

LEMMA MixerSteps ==
  ASSUME SoundConstants, IInv,
         ContinueAll \/ MixerEnters \/ MixerLeaves \/ \E b \in Buffer : MixerEnds(b)
  PROVE  IInv'
<1>0. /\ Fine(Now) /\ Good(Now) /\ In(Now) = Listed /\ Now \in State /\ Listed \subseteq Sound
      /\ Now.sounds = sounds /\ Now.engine = engine /\ Now.list = list
  <2>1. Fine(Now) /\ Good(Now) /\ In(Now) = Listed
    BY NowGood DEF Fine
  <2>2. Now.sounds = sounds /\ Now.engine = engine /\ Now.list = list
    BY DEF Now
  <2> QED BY <2>1, <2>2, StateFacts DEF Good, Core
<1>1. CASE ContinueAll
  <2>1. Head(list) \in Listed
    <3>1. list \in Seq(Sound) /\ Listed = Members(list) /\ list # << >>
      BY <1>0, <1>1, StateFacts DEF ContinueAll
    <3>2. 1 \in 1..Len(list) /\ Head(list) = list[1]
      BY <3>1, TailIsRemoveAt
    <3> QED BY <3>1, <3>2 DEF Members
  <2>2. UNCHANGED state /\ mixer' = mixer /\ cursor' = Head(list)
    BY <1>1 DEF ContinueAll
  <2> QED BY <2>1, <2>2, MovesGood DEF IInv
<1>2. CASE MixerEnters
  <2>1. UNCHANGED state /\ cursor' = cursor /\ mixer.reads = NIL
    BY <1>2 DEF MixerEnters
  <2>2. mixer \in [at : Buffer, reads : Sound \cup {NIL}]
    BY DEF IInv
  <2>3. CASE engine[mixer.at].active /\ engine[mixer.at].playing
    <3> DEFINE here == {s \in Listed : sounds[s].buffer = mixer.at}
    <3>1. here # {}
      BY <1>0, <2>2, <2>3 DEF Good, Core
    <3>2. PICK s \in here : s = CHOOSE t \in here : TRUE
      BY <3>1
    <3>3. mixer' = [mixer EXCEPT !.reads = s]
      BY <1>2, <2>3, <3>2 DEF MixerEnters
    <3>4. mixer' \in [at : Buffer, reads : Sound \cup {NIL}] /\ mixer'.reads = s /\ mixer'.at = mixer.at
      BY <1>0, <2>2, <3>3
    <3> QED BY <2>1, <3>2, <3>4, MovesGood DEF IInv
  <2>4. CASE ~(engine[mixer.at].active /\ engine[mixer.at].playing)
    <3>1. mixer' = [mixer EXCEPT !.at = NextBuffer]
      BY <1>2, <2>4 DEF MixerEnters
    <3>2. mixer' \in [at : Buffer, reads : Sound \cup {NIL}] /\ mixer'.reads = NIL
      BY <2>1, <2>2, <3>1, NextBufferIs
    <3> QED BY <2>1, <3>2, MovesGood DEF IInv
  <2> QED BY <2>3, <2>4
<1>3. CASE MixerLeaves
  <2>1. UNCHANGED state /\ cursor' = cursor /\ mixer' = [at |-> NextBuffer, reads |-> NIL]
    BY <1>3 DEF MixerLeaves
  <2>2. mixer' \in [at : Buffer, reads : Sound \cup {NIL}] /\ mixer'.reads = NIL
    BY <2>1, NextBufferIs
  <2> QED BY <2>1, <2>2, MovesGood DEF IInv
<1>4. ASSUME NEW b \in Buffer, MixerEnds(b)
      PROVE  IInv'
  <2>1. /\ mixer.reads # NIL /\ mixer.at = b /\ ~engine[b].looping
        /\ engine' = [engine EXCEPT ![b].playing = FALSE]
        /\ mixer' = [at |-> NextBuffer, reads |-> NIL]
        /\ list' = list /\ sounds' = sounds /\ handle' = handle /\ tracked' = tracked
        /\ counter' = counter /\ held' = held /\ cursor' = cursor
    BY <1>4 DEF MixerEnds
  <2>2. PICK s \in Listed : s = mixer.reads /\ sounds[s].buffer = b
    BY <2>1 DEF IInv
  <2>3. engine \in [Buffer -> Voice] /\ engine[b] \in Voice
    BY <1>0, StateFacts
  <2>4. PICK v \in Voice : v = [engine[b] EXCEPT !.playing = FALSE] /\ v.active = engine[b].active
    <3> DEFINE w == [engine[b] EXCEPT !.playing = FALSE]
    <3> w \in Voice /\ w.active = engine[b].active
      BY <2>3 DEF Voice
    <3> WITNESS w \in Voice
    <3> QED OBVIOUS
  <2>5. PICK r : r = [Now EXCEPT !.engine = engine']
    OBVIOUS
  <2>6. Now' = r
    BY <2>1, <2>5 DEF Now
  <2>7. /\ engine' \in [Buffer -> Voice] /\ engine'[b] = v
        /\ \A c \in Buffer \ {b} : engine'[c] = engine[c]
    BY <2>1, <2>3, <2>4
  <2>8. /\ r \in State /\ r.list = Now.list /\ r.sounds = Now.sounds /\ r.engine = engine'
        /\ r.handle = Now.handle /\ r.tracked = Now.tracked /\ r.counter = Now.counter
        /\ r.touched = Now.touched
    BY <1>0, <2>5, <2>7 DEF State
  <2>9. ~(sounds[s].playing /\ sounds[s].loops)
    BY <1>0, <2>1, <2>2 DEF Good, Core
  <2>10. Flagged(Now, r, s)
    BY <1>0, <2>2, <2>4, <2>7, <2>8, <2>9 DEF Flagged
  <2>11. Good(r)
    BY <1>0, <2>2, <2>10, FlaggedGood
  <2>12. Core(Now') /\ Held(Now') /\ Counts(Now')
    BY <2>6, <2>11 DEF Good
  <2>13. Listed' = Listed /\ Effects' = Effects
    BY <2>1 DEF Listed, Effects
  <2>14. mixer' \in [at : Buffer, reads : Sound \cup {NIL}] /\ mixer'.reads = NIL
    BY <2>1, NextBufferIs
  <2> QED BY <2>1, <2>12, <2>13, <2>14 DEF IInv
<1> QED BY <1>1, <1>2, <1>3, <1>4

LEMMA NextGood ==
  ASSUME SoundConstants, IInv, [Next]_vars
  PROVE  IInv'
<1>1. CASE UNCHANGED vars
  BY <1>1, MovesGood DEF vars, IInv
<1>2. CASE Next
  BY <1>2, HandleSteps, EffectLoadGood, SoundPlayFileGood, EffectPlayGood, EffectDeleteGood,
     ScriptSteps, ResetGood, ContinueGood, MixerSteps DEF Next
<1> QED BY <1>1, <1>2

-----------------------------------------------------------------------------

LEMMA GoodOwned ==
  ASSUME IInv
  PROVE  BuffersOwned
<1>1. Core(Now) /\ Now.sounds = sounds /\ Now.engine = engine /\ In(Now) = Listed
  BY NowGood DEF IInv, Now
<1>2. ASSUME NEW b \in Buffer
      PROVE  Cardinality({s \in Listed : sounds[s].buffer = b}) = IF engine[b].active THEN 1 ELSE 0
  <2> DEFINE here == {s \in Listed : sounds[s].buffer = b}
  <2>1. CASE engine[b].active
    <3>1. PICK s \in Listed : sounds[s].buffer = b
      BY <1>1, <2>1 DEF Core
    <3>2. here = {s}
      BY <1>1, <3>1 DEF Core
    <3>3. Cardinality({s}) = 1
      BY FS_Singleton
    <3> QED BY <2>1, <3>2, <3>3
  <2>2. CASE ~engine[b].active
    <3>1. here = {}
      BY <1>1, <2>2 DEF Core
    <3>2. Cardinality({}) = 0
      BY FS_EmptySet
    <3> QED BY <2>2, <3>1, <3>2
  <2> QED BY <2>1, <2>2
<1>3. \A s \in Listed : sounds[s].playing /\ sounds[s].loops => engine[sounds[s].buffer].playing
  BY <1>1 DEF Core
<1> QED BY <1>2, <1>3 DEF BuffersOwned, IInv

LEMMA GoodHeld ==
  ASSUME SoundConstants, IInv
  PROVE  SoundsHeld
<1>1. /\ Good(Now) /\ Now.sounds = sounds /\ Now.handle = handle /\ In(Now) = Listed
      /\ EffectsOf(Now) = Effects /\ Now.tracked = tracked /\ Now.counter = counter
  BY NowGood DEF Now
<1>2. HeldBut(Now, NIL) /\ Counts(Now)
  BY DEF IInv, Held
<1>3. /\ tracked \in Seq(Sound) /\ Distinct(tracked)
      /\ Range(tracked) = {s \in Listed : Loops(sounds[s].role)}
  BY <1>1, TrackedSounds
<1>4. IsInjective(tracked)
  BY <1>3, RangeIs
<1>5. Range(tracked) = {s \in Listed : sounds[s].role \in {"looping", "song"}}
  BY <1>3 DEF Loops
<1>6. Cardinality(Song) <= 1
  <2>1. \A s, t \in Song : s = t
    BY <1>1, <1>2, <1>3 DEF Song, HeldBut
  <2>2. CASE Song = {}
    BY <2>2, FS_EmptySet
  <2>3. CASE Song # {}
    <3>1. PICK s \in Song : TRUE
      BY <2>3
    <3>2. Song = {s}
      BY <2>1, <3>1
    <3>3. Cardinality({s}) = 1
      BY FS_Singleton
    <3> QED BY <3>2, <3>3
  <2> QED BY <2>2, <2>3
<1>7. /\ \A h \in Handles : handle[h] # NIL => handle[h] \in Listed /\ sounds[handle[h]].role = h
      /\ \A s \in Listed : sounds[s].role \in Handles => handle[sounds[s].role] = s
  BY <1>1, <1>2 DEF HeldBut
<1>8. \A s \in Listed : sounds[s].role = "effect" => (s \in held <=> ~sounds[s].playing)
  BY DEF IInv, Effects
<1>9. HandlesLive
  BY <1>4, <1>5, <1>6, <1>7, <1>8 DEF HandlesLive, IInv
<1>10. EffectsReturned
  BY <1>1, <1>2 DEF EffectsReturned, Counts
<1> QED BY <1>9, <1>10 DEF SoundsHeld

\* Whatever the addresses and however many the buffers: every sound has a buffer of its own
\* and every buffer in use a sound, the mixer reads none that was given back, and a sound
\* that loops is not silent (soundDeleteInternal, audioEngineSoundBufferRelease,
\* audioEngineMixin).
THEOREM SpecBuffersOwned ==
  ASSUME SoundConstants
  PROVE  Spec => []BuffersOwned
<1>1. Init => IInv
  BY InitGood
<1>2. IInv /\ [Next]_vars => IInv'
  BY NextGood
<1>3. IInv => BuffersOwned
  BY GoodOwned
<1> QED BY <1>1, <1>2, <1>3, PTL DEF Spec

\* And whoever holds a sound holds one that is there, every sound that does not end by
\* itself is held by its owner, and the counter never runs above the effects there are
\* (speechCallback, backgroundSoundCallback, soundEffectCallback, intLibSoundCallback,
\* scriptSoundStopTrackedIndex).
THEOREM SpecSoundsHeld ==
  ASSUME SoundConstants
  PROVE  Spec => []SoundsHeld
<1>1. Init => IInv
  BY InitGood
<1>2. IInv /\ [Next]_vars => IInv'
  BY NextGood
<1>3. IInv => SoundsHeld
  BY GoodHeld
<1> QED BY <1>1, <1>2, <1>3, PTL DEF Spec
=====
