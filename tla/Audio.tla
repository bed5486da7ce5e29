-------------------------------- MODULE Audio --------------------------------
(***************************************************************************)
(* src/src/audio.c: a ring of notes, synthesised into NBUF buffers that    *)
(* the audio interface plays by DMA, the one playing and the next.         *)
(*                                                                         *)
(* Three parties take turns: the program, with BEEP and QUIET and whenever *)
(* it waits for a frame; audio_pump(), which every such wait runs first,   *)
(* a buffer at a time; and the audio interface, which may come to the end  *)
(* of a buffer at any moment.                                              *)
(*                                                                         *)
(* A sample is the number of its note and its place in it, or Silence: the *)
(* pitch, the fade and the volume are left out, so a rest is a note.       *)
(***************************************************************************)
EXTENDS Integers, Sequences, SequencesExt

CONSTANTS
  NBUF,      \* buffers
  CHUNK,     \* samples in a buffer
  NOTES,     \* places in the ring, one of which stays empty
  RATE, MS,  \* samples a second, milliseconds a second
  WORD,      \* unsigned arithmetic is modulo this: 2^32 on the machine
  Millis,    \* the lengths BEEP is given
  MaxNotes,  \* bound: notes queued in a behaviour
  Honest     \* the status register says what is so

ASSUME AudioAssumption ==
  /\ NBUF \in Nat /\ NBUF > 2
  /\ CHUNK \in Nat \ {0} /\ NOTES \in Nat \ {0, 1}
  /\ RATE \in Nat \ {0} /\ MS \in Nat \ {0} /\ WORD \in Nat \ {0}
  /\ Millis \subseteq Int
  /\ MaxNotes \in Nat
  /\ Honest \in BOOLEAN

VARIABLES
  queue, q_head, q_tail,   \* audio.c: the ring of notes
  pos,           \* audio.c: pos, into the note at q_head
  started, tail_silence,
  bufs, next_buf,
  ai,            \* the buffers the audio interface was given and has not played out
  phase,         \* "program", or the turn of audio_pump()'s loop it is in
  waiting,       \* what a BEEP that met a full ring is to queue; 0 when none does
  asked,         \* the samples that are to be played, from the start
  played         \* the samples that were

avars == <<queue, q_head, q_tail, pos, started, tail_silence, bufs, next_buf, ai,
           phase, waiting, asked, played>>

ring == <<queue, q_head, q_tail, pos>>

Silence == <<>>
Quiet   == [i \in 1 .. CHUNK |-> Silence]

\* The parts of s one after another.
Joined(s) ==
  LET j[i \in 0 .. Len(s)] == IF i = 0 THEN <<>> ELSE j[i - 1] \o s[i]
  IN  j[Len(s)]

\* What of a buffer is not silence.
Loud(b) == Joined([i \in 1 .. Len(b) |-> IF b[i] = Silence THEN <<>> ELSE <<b[i]>>])

\* A note of no samples sounds for one.
NoteSamples(n) ==
  [i \in 1 .. IF n.length = 0 THEN 1 ELSE n.length |-> <<n.id, i>>]

SoundInit ==
  /\ queue = [i \in 0 .. NOTES - 1 |-> [id |-> 0, length |-> 0]]
  /\ q_head = 0 /\ q_tail = 0 /\ pos = 0
  /\ started = FALSE /\ tail_silence = 0
  /\ bufs = [b \in 0 .. NBUF - 1 |-> Quiet] /\ next_buf = 0
  /\ ai = <<>>
  /\ phase = "program" /\ waiting = 0
  /\ asked = <<>> /\ played = <<>>

-----------------------------------------------------------------------------
(* The program.                                                            *)

audio_busy == q_head # q_tail

\* Mutant: the ring may fill up, and is then empty.
RingFull_never == FALSE

RingFull == (q_tail + 1) % NOTES = q_head

Length(ms) == ((ms * RATE) % WORD) \div MS

NextId == IF asked = <<>> THEN 1 ELSE Last(asked)[1] + 1

\* audio_note, from BEEP: a full ring waits for a frame, which starts with
\* audio_pump(), and tries again.
AudioNote(ms) ==
  IF ms <= 0
    THEN waiting' = 0 /\ UNCHANGED <<ring, started, phase, asked>>
  ELSE IF RingFull
    THEN waiting' = ms /\ phase' = "start" /\ UNCHANGED <<ring, started, asked>>
  ELSE LET n == [id |-> NextId, length |-> Length(ms)]
       IN  /\ queue' = [queue EXCEPT ![q_tail] = n]
           /\ q_tail' = (q_tail + 1) % NOTES
           /\ asked' = asked \o NoteSamples(n)
           /\ started' = TRUE
           /\ waiting' = 0
           /\ UNCHANGED <<q_head, pos, phase>>

Beep(ms) ==
  /\ phase = "program" /\ waiting = 0
  /\ NextId <= MaxNotes
  /\ AudioNote(ms)
  /\ UNCHANGED <<tail_silence, bufs, next_buf, ai, played>>

BeepAgain ==
  /\ phase = "program" /\ waiting # 0
  /\ AudioNote(waiting)
  /\ UNCHANGED <<tail_silence, bufs, next_buf, ai, played>>

\* The samples still in the ring, from the note at h and place p of it on, and those in
\* the buffers that are to be played.
NotesFrom(h) ==
  [i \in 1 .. (q_tail - h + NOTES) % NOTES |-> NoteSamples(queue[(h + i - 1) % NOTES])]

Rest(h, p) == SubSeq(Joined(NotesFrom(h)), p + 1, Len(Joined(NotesFrom(h))))

InRing == Rest(q_head, pos)

InBuffers == Joined([i \in 1 .. Len(ai) |-> Loud(bufs[ai[i]])])

\* audio_quiet: what is queued is not to be played; what the interface has is.
QuietCall ==
  /\ phase = "program" /\ waiting = 0
  /\ audio_busy
  /\ q_head' = q_tail /\ pos' = 0
  /\ asked' = SubSeq(asked, 1, Len(asked) - Len(InRing))
  /\ UNCHANGED <<queue, q_tail, started, tail_silence, bufs, next_buf, ai, phase,
                 waiting, played>>

\* Whatever waits for a frame, the tune goes on.
Frame ==
  /\ phase = "program" /\ waiting = 0
  /\ phase' = "start"
  /\ UNCHANGED <<ring, started, tail_silence, bufs, next_buf, ai, waiting, asked, played>>

-----------------------------------------------------------------------------
(* audio_pump.                                                             *)

PumpStart ==
  /\ phase = "start"
  /\ phase' = IF started THEN "first" ELSE "program"
  /\ tail_silence' = IF started /\ audio_busy THEN 2 ELSE tail_silence
  /\ UNCHANGED <<ring, started, bufs, next_buf, ai, waiting, asked, played>>

\* fill(): sample by sample, through as many notes as it takes.
Sampled(c) ==
  LET n == queue[c.head]
      out == Append(c.out, <<n.id, c.pos + 1>>)
  IN  IF c.head = q_tail
        THEN [out |-> Append(c.out, Silence), head |-> c.head, pos |-> c.pos]
      ELSE IF c.pos + 1 >= n.length
        THEN [out |-> out, head |-> (c.head + 1) % NOTES, pos |-> 0]
      ELSE [out |-> out, head |-> c.head, pos |-> c.pos + 1]

Filled ==
  LET s[i \in 0 .. CHUNK] ==
        IF i = 0 THEN [out |-> <<>>, head |-> q_head, pos |-> pos] ELSE Sampled(s[i - 1])
  IN  s[CHUNK]

StatusFull == IF Honest THEN {Len(ai) = 2} ELSE BOOLEAN

PumpEnds ==
  /\ phase' = "program"
  /\ UNCHANGED <<ring, started, tail_silence, bufs, next_buf, ai, waiting, asked, played>>

\* A third buffer is none of the interface's concern.
PumpFills ==
  /\ tail_silence' = IF audio_busy THEN tail_silence ELSE tail_silence - 1
  /\ bufs' = [bufs EXCEPT ![next_buf] = Filled.out]
  /\ q_head' = Filled.head /\ pos' = Filled.pos
  /\ ai' = IF Len(ai) < 2 THEN Append(ai, next_buf) ELSE ai
  /\ next_buf' = (next_buf + 1) % NBUF
  /\ phase' = IF phase = "first" THEN "second" ELSE "program"
  /\ UNCHANGED <<queue, q_tail, started, waiting, asked, played>>

\* Mutant: the status is not looked at.
PumpTurn_ignores_status ==
  /\ phase \in {"first", "second"}
  /\ IF ~audio_busy /\ tail_silence <= 0 THEN PumpEnds ELSE PumpFills

\* One turn of the loop.
PumpTurn ==
  /\ phase \in {"first", "second"}
  /\ IF ~audio_busy /\ tail_silence <= 0
       THEN PumpEnds
       ELSE \E full \in StatusFull : IF full THEN PumpEnds ELSE PumpFills

\* The interface comes to the end of a buffer.
PlayedOut ==
  /\ ai # <<>>
  /\ played' = played \o Loud(bufs[Head(ai)])
  /\ ai' = Tail(ai)
  /\ UNCHANGED <<ring, started, tail_silence, bufs, next_buf, phase, waiting, asked>>

Kernel == BeepAgain \/ PumpStart \/ PumpTurn

SoundNext == Kernel \/ Frame \/ PlayedOut \/ QuietCall \/ \E ms \in Millis : Beep(ms)

SoundSpec == SoundInit /\ [][SoundNext]_avars

FairSpec == SoundSpec /\ WF_avars(Kernel) /\ WF_avars(Frame) /\ WF_avars(PlayedOut)

-----------------------------------------------------------------------------
(* Properties.                                                             *)

\* Every sample asked for is played, waits in a buffer, or waits in the ring: none is
\* lost, said twice or out of turn where notes, buffers and the ring's end meet, nor
\* when QUIET cuts a note short.
NothingLost == asked = played \o InBuffers \o InRing

\* A buffer is written only when the interface is done with it (audio.c, "make us
\* write over the one that is playing").
NeverOverwritten ==
  [][\A b \in 0 .. NBUF - 1 : bufs'[b] # bufs[b] => b \notin ToSet(ai)]_avars

\* As long as the program waits for frames, everything asked for is played in the end,
\* and a BEEP that waits for room in the ring returns.
AllHeard == (played # asked ~> played = asked) /\ (waiting # 0 ~> waiting = 0)

-----------------------------------------------------------------------------
(* What is said of the code and is not so (README, "What was found").      *)

\* What docs/WORDS.md says of SOUNDING?: whether anything is still to play.
SoundingIsTrue == ~audio_busy => InBuffers = <<>>
=============================================================================
