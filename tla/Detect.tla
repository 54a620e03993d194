-------------------------------- MODULE Detect --------------------------------
(***************************************************************************)
(* The detection modules of the dialplan (dsp): MachineDetect, which       *)
(* judges an answer by how much of it is not silence, and NVFaxDetect and  *)
(* NVBackgroundDetect, which listen for a fax, a digit, or talk: audio     *)
(* between two silences.  The last two differ in what ends them, a time or *)
(* the end of a file that is played.                                       *)
(*                                                                         *)
(* Time goes in frames of voice.  A line that suppresses silence sends no  *)
(* frames for a while.                                                     *)
(***************************************************************************)
EXTENDS Integers, Sequences, FiniteSets

CONSTANTS
  sildur, mindur, maxdur,            \* of talk: the silence that ends it, its bounds; -1: none
  waitdur,                           \* NVFaxDetect's time,
  Second,                            \*   which is taken in whole seconds
  duration, iterations, machinetime, \* of MachineDetect
  OptionSets,                        \* the options tried
  MaxHeard, MaxGap                   \* bounds: frames heard, and frames suppressed in a row

ASSUME DetectAssumption ==
  /\ {sildur, mindur, waitdur, Second, duration, iterations, machinetime} \subseteq Nat \ {0}
  /\ maxdur \in Nat \cup {-1}
  /\ OptionSets \subseteq SUBSET {"x", "d", "f", "t"}
  /\ {MaxHeard, MaxGap} \subseteq Nat

VARIABLES
  det,   \* the application on a channel, its locals and the channel's variables
  heard  \* history: its frames of voice, [at, quiet]

detvars == <<det, heard>>

Nothing == -1   \* no talk detected, and the result of a hangup
Key == 48       \* the result that names a digit

\* res, the result, is also the local the steps before use: whether the frame was
\* silent, and in NVBackgroundDetect the time that was left to wait for it.
Left(d) == IF d.app = "background" THEN [d EXCEPT !.res = 1] ELSE d

\* What the applications set up on an answered channel.
Started(app, options, exten) ==
  [app |-> app, options |-> options, exten |-> exten, at |-> "listening", res |-> 0,
   clock |-> 0, quiet |-> 0, notsilent |-> FALSE, start |-> 0,
   fax |-> FALSE, dtmf |-> FALSE, talk |-> Nothing, machine |-> FALSE,
   noise |-> 0, round |-> 0, toduration |-> duration]
MachineDetect == det = Started("machine", {}, "s")
NVFaxDetect ==
  \E options \in OptionSets, exten \in {"s", "fax"} : det = Started("fax", options, exten)
NVBackgroundDetect ==
  \E options \in OptionSets, exten \in {"s", "fax"} : det = Started("background", options, exten)

DetectInit ==
  /\ MachineDetect \/ NVFaxDetect \/ NVBackgroundDetect
  /\ heard = <<>>
-------------------------------------------------------------------------------
(* NVFaxDetect, NVBackgroundDetect *)

Returns(d, res) == [d EXCEPT !.at = "returned", !.res = res]

\* A tone: to the extension fax, if there is one.
FaxTone(d) ==
  IF d.exten = "fax" THEN {Returns(d, 0)}
  ELSE {Returns([d EXCEPT !.fax = TRUE, !.exten = exten], 0) : exten \in {d.exten, "fax"}}

\* A digit ends it if an extension could begin with it, or none is needed.
Digit(d) ==
  LET got == [d EXCEPT !.dtmf = TRUE] IN
  IF "x" \in d.options THEN {Returns(got, 0)}
  ELSE {Returns(got, Key), Left(d)}

Qualified(ms) == ms > mindur /\ (maxdur < 0 \/ ms < maxdur)

\* A slip the checks must catch: a token too short or too long goes on in the next.
TokenKept(d) ==
  LET ms == IF d.clock - d.start > sildur THEN d.clock - d.start - sildur ELSE 0 IN
  IF d.notsilent /\ Qualified(ms)
  THEN {Returns([d EXCEPT !.talk = ms, !.exten = exten], 0) : exten \in {d.exten, "talk"}}
  ELSE {d}

\* The silence so far has become long: what was before it is one token.
Token(d) ==
  LET ms == IF d.clock - d.start > sildur THEN d.clock - d.start - sildur ELSE 0 IN
  IF d.notsilent /\ Qualified(ms)
  THEN {Returns([d EXCEPT !.talk = ms, !.exten = exten], 0) : exten \in {d.exten, "talk"}}
  ELSE {[d EXCEPT !.notsilent = FALSE]}

\* Also silence is audio until it is long.
Audio(d) == IF d.notsilent THEN {d} ELSE {[d EXCEPT !.notsilent = TRUE, !.start = d.clock]}

Silence(d, quiet) == [d EXCEPT !.quiet = IF quiet THEN @ + 1 ELSE 0]

Voice(d, quiet) ==
  IF "t" \in d.options THEN {Left(d)}
  ELSE LET now == [Silence(d, quiet) EXCEPT !.res = IF quiet THEN 1 ELSE 0]
       IN  IF now.quiet > sildur THEN Token(now) ELSE Audio(now)

Tone(d, tone) ==
  IF tone = "fax" /\ "f" \notin d.options THEN FaxTone(d)
  ELSE IF "d" \notin d.options THEN Digit(d)
  ELSE {Left(d)}

Listening == det.at = "listening"
Detecting == Listening /\ det.app \in {"fax", "background"}

\* The time of a frame that comes after a gap.
After(gap) == [det EXCEPT !.clock = @ + gap + 1]
InTime(d) == d.app = "fax" => d.clock <= waitdur + Second

HearVoice(gap, quiet) ==
  /\ Detecting /\ InTime(After(gap)) /\ Len(heard) < MaxHeard
  /\ det' \in Voice(After(gap), quiet)
  /\ heard' = Append(heard, [at |-> After(gap).clock, quiet |-> quiet])

HearTone(tone) ==
  /\ Detecting /\ InTime(det)
  /\ det' \in Tone(det, tone)
  /\ UNCHANGED heard

\* The time is looked at when a frame has come.
TimeUp(gap) ==
  /\ Detecting /\ det.app = "fax" /\ After(gap).clock > waitdur
  /\ det' = Returns(After(gap), 0)
  /\ UNCHANGED heard

\* The file has been played, after a frame or after a time without one.
StreamEnds ==
  /\ Detecting /\ det.app = "background"
  /\ \E res \in {det.res, 0} : det' = Returns(det, res)
  /\ UNCHANGED heard

\* The channel is gone, or could not be answered.
HangUp ==
  /\ Detecting
  /\ \E res \in {Nothing} \cup (IF det.app = "fax" THEN {det.res} ELSE {}) : det' = Returns(det, res)
  /\ UNCHANGED heard
-------------------------------------------------------------------------------
(* MachineDetect *)

Machine == Listening /\ det.app = "machine"

Judge(d, res) == Returns([d EXCEPT !.machine = d.noise >= machinetime], res)

\* do_waiting has got its silence; the next one makes a detector of its own.
GotSilence(d) ==
  IF d.round + 1 >= iterations THEN Judge(d, 0)
  ELSE [d EXCEPT !.round = @ + 1, !.quiet = 0, !.toduration = duration]

\* The silence heard so far is taken off the timeout with each of its frames; a
\* timeout below 0 waits for ever.
WaitedFor(d, quiet, gap) ==
  LET now == Silence(d, quiet)
      then == IF quiet THEN [now EXCEPT !.toduration = @ - now.quiet]
              ELSE [now EXCEPT !.toduration = duration, !.noise = @ + 1]
  IN  IF now.quiet >= duration - gap THEN GotSilence(then) ELSE then

WaitVoice(gap, quiet) ==
  /\ Machine /\ Len(heard) < MaxHeard
  /\ det.toduration < 0 \/ gap < det.toduration
  /\ det' = WaitedFor(After(gap), quiet, gap)
  /\ heard' = Append(heard, [at |-> After(gap).clock, quiet |-> quiet])

WaitTimeout ==
  /\ Machine /\ det.toduration >= 0
  /\ det' = GotSilence([det EXCEPT !.clock = @ + det.toduration])
  /\ UNCHANGED heard

\* No frame, because the channel is gone; no format or no detector.
WaitFails ==
  /\ Machine
  /\ \E res \in {0, Nothing} : det' = Judge(det, res)
  /\ UNCHANGED heard

DetectNext ==
  \/ \E gap \in 0 .. MaxGap, quiet \in BOOLEAN : HearVoice(gap, quiet) \/ WaitVoice(gap, quiet)
  \/ \E tone \in {"fax", "digit"} : HearTone(tone)
  \/ \E gap \in 0 .. MaxGap : TimeUp(gap)
  \/ StreamEnds \/ HangUp \/ WaitTimeout \/ WaitFails

DetectSpec == DetectInit /\ [][DetectNext]_detvars
-------------------------------------------------------------------------------
(* By what was heard, without regard to the order of the decisions *)

\* The silence at a frame is long: it and the sildur frames before it are quiet.
LongAt(k) == k > sildur /\ \A i \in k - sildur .. k : heard[i].quiet

\* A token from frame i, the first or the first after a long silence, to the
\* frame at which the next silence is long.
IsToken(i, k) ==
  /\ LongAt(k)
  /\ i = 1 \/ LongAt(i - 1)
  /\ \A m \in i .. k - 1 : ~ LongAt(m)
Talks == {heard[ik[2]].at - heard[ik[1]].at - sildur :
            ik \in {x \in (DOMAIN heard) \X (DOMAIN heard) : x[1] < x[2] /\ IsToken(x[1], x[2])}}

\* Whatever comes between the frames, and however a line suppresses silence: talk
\* is announced, unless it is ignored, as soon as a token with a silence after it
\* is neither too short nor too long, with its length, and not otherwise; and
\* MachineDetect tells a machine by all the audio it heard, in whatever round.
HeardRight ==
  /\ det.app # "machine" =>
       {ms \in Talks : "t" \notin det.options /\ Qualified(ms)} = IF det.talk = Nothing THEN {} ELSE {det.talk}
  /\ det.app = "machine" /\ det.at = "returned" =>
       (det.machine <=> Cardinality({i \in DOMAIN heard : ~ heard[i].quiet}) >= machinetime)
===============================================================================
