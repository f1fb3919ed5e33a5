------------------------------- MODULE Sounds -------------------------------
(***************************************************************************)
(* The sounds: the list of sound.cc, the buffers of audio_engine.cc with    *)
(* the mixer's thread, and those who hold sounds: the music, the speech and  *)
(* the effects of game_sound.cc, the moving lips of lips.cc, the looping     *)
(* sounds of scripts (script_sound.cc) and those of their opcodes            *)
(* (interpreter_lib.cc). Each operation of the main thread is a step, which  *)
(* waits until the mixer has left the buffers whose mutex it takes.          *)
(***************************************************************************)
EXTENDS Integers, FiniteSets, SequencesExt

CONSTANTS
  Sound,       \* addresses of sounds
  BufferCount, \* AUDIO_ENGINE_SOUND_BUFFERS (8)
  MaxEffects,  \* SOUND_EFFECTS_MAX_COUNT (4)
  Roles,       \* bound: who plays sounds
  MaxUnplayed, \* bound: how far below zero the counter of effects may be at a load
  NIL

Handles == {"music", "speech", "lips", "program"}
AllRoles == Handles \cup {"effect", "once", "looping", "song"}

SoundConstants ==
  /\ BufferCount \in Nat \ {0} /\ MaxEffects \in Nat /\ MaxUnplayed \in Nat
  /\ Roles \subseteq AllRoles /\ NIL \notin Sound

VARIABLES
  list,      \* the sounds from gSoundListHead
  sounds,    \* what each of them is
  engine,    \* gAudioEngineSoundBuffers
  handle,    \* gBackgroundSound, gSpeechSound, gLipsData.sound, a slot of gIntLibSounds
  tracked,   \* scriptLoopingSounds: the sounds. The song is currentMusicId's
  counter,   \* _gsound_active_effect_counter
  requested, \* how the music last asked for loops ("none": it has no name yet)
  held,      \* effects that animations have loaded and not played yet
  cursor,    \* curr of soundContinueAll
  mixer      \* audioEngineMixin: the buffer it is at, and the sound it reads there

state == <<list, sounds, engine, handle, tracked, counter, requested, held>>
vars == <<state, cursor, mixer>>

Buffer == 1..BufferCount
Unused == [role |-> "none", loops |-> FALSE, stream |-> FALSE, buffer |-> 0,
           playing |-> FALSE, paused |-> FALSE, over |-> FALSE, callback |-> FALSE]
Silent == [active |-> FALSE, playing |-> FALSE, looping |-> FALSE]

Init ==
  /\ list = << >> /\ sounds = [s \in Sound |-> Unused]
  /\ engine = [b \in Buffer |-> Silent]
  /\ handle = [h \in Handles |-> NIL] /\ tracked = << >>
  /\ counter = 0 /\ requested = "none" /\ held = {}
  /\ cursor = NIL /\ mixer = [at |-> 1, reads |-> NIL]

Listed == Range(list)
Effects == {s \in Listed : sounds[s].role = "effect"}
\* SOUND_TYPE_FIRE_AND_FORGET: whoever loads a sound that does not loop asks for it,
\* but for the moving lips.
FireAndForget(sound) == ~sound.loops /\ sound.role # "lips"

-----------------------------------------------------------------------------
(* What the operations of sound.cc do to the state, and which buffers' mutex *)
(* they take.                                                               *)

Now == [list |-> list, sounds |-> sounds, engine |-> engine, handle |-> handle,
        tracked |-> tracked, counter |-> counter, touched |-> {}]
Become(st) ==
  /\ mixer.reads # NIL => mixer.at \notin st.touched
  /\ list' = st.list /\ sounds' = st.sounds /\ engine' = st.engine
  /\ handle' = st.handle /\ tracked' = st.tracked /\ counter' = st.counter

\* Mutant: the mutex is not taken.
Untouched(st, s) == st
Touched(st, s) == [st EXCEPT !.touched = @ \cup {st.sounds[s].buffer}]

\* speechCallback, backgroundSoundCallback, soundEffectCallback, intLibSoundCallback.
Told(st, s) ==
  LET role == st.sounds[s].role IN
  IF ~st.sounds[s].callback THEN st
  ELSE [st EXCEPT !.sounds[s].callback = FALSE,
                  !.handle = IF role \in DOMAIN @ THEN [@ EXCEPT ![role] = NIL] ELSE @,
                  !.counter = IF role = "effect" THEN @ - 1 ELSE @]

Stopped(st, s) ==
  IF ~st.sounds[s].playing THEN st
  ELSE [Touched(st, s) EXCEPT !.sounds[s].playing = FALSE,
                              !.engine[st.sounds[s].buffer].playing = FALSE]

\* A stream's buffer loops whatever the sound does.
Played(st, s) ==
  LET sound == st.sounds[s] IN
  [Touched(st, s) EXCEPT
    !.sounds[s].playing = TRUE,
    !.engine[sound.buffer].playing = TRUE,
    !.engine[sound.buffer].looping = @ \/ sound.loops \/ sound.stream]

Paused(st, s) ==
  IF ~st.sounds[s].playing \/ st.sounds[s].paused THEN st
  ELSE [Stopped(st, s) EXCEPT !.sounds[s].paused = TRUE]
Resumed(st, s) ==
  IF st.sounds[s].playing \/ ~st.sounds[s].paused THEN st
  ELSE [Played(st, s) EXCEPT !.sounds[s].paused = FALSE]

Released(st, s) == [Touched(st, s) EXCEPT !.engine[st.sounds[s].buffer].active = FALSE]

\* Every listed sound has its buffer: one that gets none is deleted by who loads it.
Deleted(st, s) ==
  [Released(Told(Stopped(st, s), s), s) EXCEPT
    !.list = RemoveFirst(@, s), !.sounds[s] = Unused]
Freed(st, h) ==
  IF st.handle[h] = NIL THEN st ELSE [Deleted(st, st.handle[h]) EXCEPT !.handle[h] = NIL]

\* The sound loaded and with who asked for it, at an address and in the first buffer that
\* are free; or nothing: no file of that name, or no buffer left. The search takes every
\* mutex on its way.
Loads(st, role, loops, stream) ==
  LET free == {b \in Buffer : ~st.engine[b].active}
      Loaded(s) == [st EXCEPT
        !.list = <<s>> \o @,
        !.sounds[s] = [Unused EXCEPT
          !.role = role, !.loops = loops, !.stream = stream, !.buffer = Min(free),
          !.callback = role \in {"effect", "music", "speech", "program"}],
        !.engine[Min(free)] = [Silent EXCEPT !.active = TRUE],
        !.handle = IF role \in Handles THEN [@ EXCEPT ![role] = s] ELSE @,
        !.tracked = IF role \in {"looping", "song"} THEN Append(@, s) ELSE @,
        !.counter = IF role = "effect" THEN @ + 1 ELSE @,
        !.touched = @ \cup 1..Min(free)]
  IN {st} \cup
     IF free = {} THEN {} ELSE {Loaded(s) : s \in Sound \ Range(st.list)}
\* Loads, and plays what it loaded.
Starts(st, role, loops, stream) ==
  {IF new = st THEN st ELSE Played(new, Head(new.list)) : new \in Loads(st, role, loops, stream)}

-----------------------------------------------------------------------------
(* The main thread's operations, one at a time.                             *)

\* What is done becomes one of these.
Does(outcomes) == cursor = NIL /\ (\E st \in outcomes : Become(st)) /\ UNCHANGED <<cursor, mixer>>
Keeps(outcomes) == Does(outcomes) /\ UNCHANGED <<requested, held>>

\* A .wav or .ogg file is read into memory though a stream is asked for.
MusicLoaded(st, loops) ==
  UNION {Starts(Freed(st, "music"), "music", loops, stream) : stream \in BOOLEAN}
MusicRestarted(st) ==
  IF requested = "none" THEN {st} ELSE MusicLoaded(st, requested = "loop")

MusicLoad(loops) ==
  /\ "music" \in Roles
  /\ requested' = IF loops THEN "loop" ELSE "once"
  /\ Does(MusicLoaded(Now, loops)) /\ UNCHANGED held
MusicDelete == Keeps({Freed(Now, "music")})
MusicRestart == Keeps(MusicRestarted(Now))
\* Around a save and a movie.
MusicPause == handle["music"] # NIL /\ Keeps({Paused(Now, handle["music"])})
MusicResume == handle["music"] # NIL /\ Keeps({Resumed(Now, handle["music"])})

SpeechLoad(stream, plays) ==
  /\ "speech" \in Roles
  /\ LET old == Freed(Now, "speech")
     IN Keeps(IF plays THEN Starts(old, "speech", FALSE, stream)
                       ELSE Loads(old, "speech", FALSE, stream))
SpeechPlayPreloaded ==
  LET s == handle["speech"] IN
  /\ s # NIL /\ ~sounds[s].playing /\ ~sounds[s].paused
  /\ Keeps({Played(Now, s)})
SpeechDelete == Keeps({Freed(Now, "speech")})

LipsSpeak ==
  "lips" \in Roles /\ Keeps(Starts(Freed(Now, "lips"), "lips", FALSE, FALSE))
\* The last marker comes before the end of the sound.
LipsStop == handle["lips"] # NIL /\ Keeps({Stopped(Now, handle["lips"])})
LipsFree == Keeps({Freed(Now, "lips")})

\* An animation takes its sound when it is registered, plays it when it gets there, and
\* throws it away when it ends before that.
EffectLoad ==
  /\ "effect" \in Roles /\ counter < MaxEffects /\ counter >= -MaxUnplayed
  /\ Does(Loads(Now, "effect", FALSE, FALSE))
  /\ held' = held \cup (Range(list') \ Listed) /\ UNCHANGED requested
EffectPlay(s) ==
  s \in held /\ Does({Played(Now, s)}) /\ held' = held \ {s} /\ UNCHANGED requested
\* soundEffectCallback has counted it already.
EffectDelete(s) ==
  /\ s \in held /\ ~sounds[s].playing
  /\ Does({[Deleted(Now, s) EXCEPT !.counter = @ - 1]})
  /\ held' = held \ {s} /\ UNCHANGED requested
SoundPlayFile ==
  /\ "effect" \in Roles /\ counter < MaxEffects /\ counter >= -MaxUnplayed
  /\ Keeps(Starts(Now, "effect", FALSE, FALSE))

TrackedStopped(st, s) ==
  [Deleted(st, s) EXCEPT !.tracked = RemoveFirst(@, s)]
Song == {s \in Range(tracked) : sounds[s].role = "song"}
\* A song takes the place of the song there is, or of the music, which comes back when
\* the song fails.
SongStarted(stream) ==
  LET quiet == IF Song # {} THEN TrackedStopped(Now, CHOOSE s \in Song : TRUE)
                            ELSE Freed(Now, "music")
  IN UNION {IF new = quiet THEN MusicRestarted(quiet) ELSE {new} :
            new \in Starts(quiet, "song", TRUE, stream)}
ScriptSoundPlay(mode, stream) ==
  /\ mode \in Roles
  /\ Keeps(IF mode = "song" THEN SongStarted(stream)
                            ELSE Starts(Now, mode, mode = "looping", stream))
ScriptSoundStop(s) ==
  /\ s \in Range(tracked)
  /\ LET without == TrackedStopped(Now, s)
     IN Keeps(IF s \in Song THEN MusicRestarted(without) ELSE {without})

\* The opcodes; a program has one sound at a time.
IntLibSoundPlay(loops, stream) ==
  "program" \in Roles /\ handle["program"] = NIL /\ Keeps(Starts(Now, "program", loops, stream))
IntLibSoundPause ==
  LET s == handle["program"]
  IN s # NIL /\ Keeps({IF sounds[s].stream THEN Paused(Now, s) ELSE Stopped(Now, s)})
IntLibSoundStop == handle["program"] # NIL /\ Keeps({Stopped(Now, handle["program"])})
IntLibSoundRewind ==
  LET s == handle["program"]
  IN s # NIL /\ sounds[s].playing /\ Keeps({Played(Stopped(Now, s), s)})
IntLibSoundResume ==
  LET s == handle["program"]
  IN s # NIL /\ Keeps({IF sounds[s].stream THEN Resumed(Now, s) ELSE Played(Now, s)})
IntLibSoundDelete == Keeps({Freed(Now, "program")})

\* Every sound is deleted. The animations are reset before; no head talks. The music
\* keeps its name.
AllDeleted(st) ==
  [st EXCEPT !.list = << >>, !.sounds = [s \in Sound |-> Unused],
             !.engine = [b \in Buffer |-> [@[b] EXCEPT !.active = FALSE, !.playing = FALSE]],
             !.handle = [h \in Handles |-> NIL], !.tracked = << >>, !.counter = 0,
             !.touched = {st.sounds[s].buffer : s \in Range(st.list)}]
GameSoundReset ==
  /\ handle["lips"] = NIL
  /\ Does({AllDeleted(Now)})
  /\ held' = {} /\ UNCHANGED requested

-----------------------------------------------------------------------------
(* soundContinueAll, from the list's head, with the next sound read before   *)
(* each is continued; and the mixer's thread.                               *)

ContinueAll == cursor = NIL /\ list # << >> /\ cursor' = Head(list) /\ UNCHANGED <<state, mixer>>

After(s) ==
  LET i == SelectInSeq(list, LAMBDA other : other = s)
  IN IF i = Len(list) THEN NIL ELSE list[i + 1]

\* What continuing a sound that plays comes to, while it is heard and when it ended.
Heard(st, s) ==
  {st} \cup IF st.sounds[s].stream /\ ~st.sounds[s].loops
           THEN {[st EXCEPT !.sounds[s].over = TRUE]} ELSE {}
\* Mutant: the callback is taken off before it is called.
EndedUntold(st, s) ==
  LET told == [st EXCEPT !.sounds[s].callback = FALSE]
  IN IF FireAndForget(st.sounds[s]) THEN Deleted(told, s) ELSE Stopped(told, s)
Ended(st, s) ==
  LET told == Told(st, s)
  IN IF FireAndForget(st.sounds[s]) THEN Deleted(told, s) ELSE Stopped(told, s)
\* A stream that does not loop is over when as much was read as the file is long.
Continued(st, s) ==
  LET sound == st.sounds[s]
      seen == Touched(st, s)
  IN IF ~sound.playing \/ sound.paused THEN {st}
     ELSE IF ~sound.over /\ st.engine[sound.buffer].playing THEN Heard(seen, s)
     ELSE {Ended(seen, s)}

Continue(s) ==
  /\ cursor = s /\ cursor' = After(s)
  /\ \E st \in Continued(Now, s) : Become(st)
  /\ UNCHANGED <<requested, held, mixer>>

NextBuffer == IF mixer.at = BufferCount THEN 1 ELSE mixer.at + 1
MixerEnters ==
  /\ mixer.reads = NIL
  /\ LET at == engine[mixer.at]
         here == {s \in Listed : sounds[s].buffer = mixer.at}
     IN mixer' = IF at.active /\ at.playing
                 THEN [mixer EXCEPT !.reads = CHOOSE s \in here : TRUE]
                 ELSE [mixer EXCEPT !.at = NextBuffer]
  /\ UNCHANGED <<state, cursor>>
\* It mixed what it was asked for, or came to the end of a buffer that does not loop.
MixerLeaves ==
  /\ mixer.reads # NIL /\ mixer' = [at |-> NextBuffer, reads |-> NIL]
  /\ UNCHANGED <<state, cursor>>
MixerEnds(b) ==
  /\ mixer.reads # NIL /\ mixer.at = b /\ ~engine[b].looping
  /\ engine' = [engine EXCEPT ![b].playing = FALSE]
  /\ mixer' = [at |-> NextBuffer, reads |-> NIL]
  /\ UNCHANGED <<list, sounds, handle, tracked, counter, requested, held, cursor>>

Next ==
  \/ \E loops \in BOOLEAN : MusicLoad(loops)
  \/ MusicDelete \/ MusicRestart \/ MusicPause \/ MusicResume
  \/ \E stream, plays \in BOOLEAN : SpeechLoad(stream, plays)
  \/ SpeechPlayPreloaded \/ SpeechDelete
  \/ LipsSpeak \/ LipsStop \/ LipsFree
  \/ EffectLoad \/ SoundPlayFile
  \/ \E s \in Sound : EffectPlay(s) \/ EffectDelete(s) \/ ScriptSoundStop(s)
  \/ \E mode \in {"once", "looping", "song"}, stream \in BOOLEAN : ScriptSoundPlay(mode, stream)
  \/ \E loops, stream \in BOOLEAN : IntLibSoundPlay(loops, stream)
  \/ IntLibSoundPause \/ IntLibSoundStop \/ IntLibSoundRewind
  \/ IntLibSoundResume \/ IntLibSoundDelete
  \/ GameSoundReset
  \/ ContinueAll \/ \E s \in Sound : Continue(s)
  \/ MixerEnters \/ MixerLeaves \/ \E b \in Buffer : MixerEnds(b)

Spec == Init /\ [][Next]_vars

-----------------------------------------------------------------------------
\* Every sound has a buffer of its own, every buffer in use a sound; the mixer reads no
\* buffer that was given back (soundDeleteInternal, audioEngineSoundBufferRelease); and it
\* never falls silent by itself on a sound that loops (audioEngineMixin).
BuffersOwned ==
  /\ \A b \in Buffer :
       Cardinality({s \in Listed : sounds[s].buffer = b}) = IF engine[b].active THEN 1 ELSE 0
  /\ mixer.reads # NIL => mixer.reads \in Listed /\ sounds[mixer.reads].buffer = mixer.at
  /\ \A s \in Listed : sounds[s].playing /\ sounds[s].loops => engine[sounds[s].buffer].playing

\* Whoever holds a sound holds one that is there, and every sound that does not end by
\* itself is held by somebody; the round stands on a sound (speechCallback,
\* backgroundSoundCallback, intLibSoundCallback, scriptSoundStopTrackedIndex).
HandlesLive ==
  /\ \A h \in Handles : handle[h] # NIL => handle[h] \in Listed /\ sounds[handle[h]].role = h
  /\ \A s \in Listed :
       /\ sounds[s].role \in Handles => handle[sounds[s].role] = s
       /\ sounds[s].role = "effect" => (s \in held <=> ~sounds[s].playing)
  /\ Range(tracked) = {s \in Listed : sounds[s].role \in {"looping", "song"}}
  /\ IsInjective(tracked) /\ Cardinality(Song) <= 1 /\ held \subseteq Effects
  /\ cursor \in Listed \cup {NIL}

\* An effect that ended has given its place back: the counter is never above the number
\* of effects there are. It may be below: soundEffectDelete counts an effect down again that
\* its callback has counted down (soundEffectCallback, soundEffectLoad, soundEffectDelete).
EffectsReturned == counter <= Cardinality(Effects)

SoundsHeld == HandlesLive /\ EffectsReturned
=============================================================================
