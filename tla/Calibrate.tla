------------------------------ MODULE Calibrate ------------------------------
(***************************************************************************)
(* memo/serial.sh, Calibrate: find the sleep between two runs of a command *)
(* that gives speed runs per second.  A round runs the command until it    *)
(* corrects us_sleep at the end of a window, or until its time is over.    *)
(* How long a run and its sleep take is up to the machine.                 *)
(***************************************************************************)
EXTENDS Integers, Sequences

CONSTANTS
  Args,      \* the argument lists it is called with
  Speeds,    \* the values of speed, an unset one being 0
  Times,     \* how long five runs of the command can take, in microseconds
  Minute, Second,               \* 60000000 and 1000000 microseconds
  Runs, Tolerance, Hits, Far,   \* 1000 runs a round, +- 5, 10 hits, delta 5
  Window, FirstSleep,           \* 10 seconds, 43488 microseconds
  Big, Medium, Small,           \* corrections by 10000, 8000 and 1000
  MaxStep,   \* bound: seconds that one run can take
  MaxSleep   \* bound: rounds with a longer sleep are not started

ASSUME ScaleAssumption ==
  /\ Runs \in Nat /\ Tolerance \in Nat /\ Runs > Tolerance
  /\ Hits \in Nat /\ Far \in Nat \ {0, 1} /\ Window \in Nat \ {0} /\ FirstSleep \in Nat
  /\ Big \in Nat /\ Medium \in Nat /\ Small \in Nat
  /\ Second \in Nat \ {0} /\ Minute \in Nat \ {0}
ASSUME InputAssumption ==
  /\ Args \subseteq Seq({"-h", "-t", "-c", "word"}) /\ Speeds \subseteq Nat
  /\ Times \subseteq Nat /\ MaxStep \in Nat /\ MaxSleep \in Int

VARIABLES
  phase,        \* where Calibrate stands
  args,      \* "$@"
  speed, us_sleep, wind, diff, run, hit,    \* the script's own variables
  elapsed,   \* curr - tstart
  ran,       \* history: the commands run in this round
  longest    \* history: the longest sleep that the hits counted were made with

calVars == <<phase, args, speed, us_sleep, wind, diff, run, hit, elapsed, ran, longest>>
config == <<args, speed>>

CalInit ==
  /\ phase = "parse" /\ args \in Args /\ speed \in Speeds
  /\ us_sleep = 0 /\ wind = Window /\ diff = 0 /\ run = 0 /\ hit = 0
  /\ elapsed = 0 /\ ran = 0 /\ longest = 0
-----------------------------------------------------------------------------
\* Only -t and -c are shifted away, and -t takes its own name for the speed,
\* which counts as 0; at any other word the loop stays for ever.
Parse ==
  /\ phase = "parse"
  /\ IF args = <<>> THEN phase' = "measure" /\ UNCHANGED config
     ELSE /\ phase' = phase
          /\ args'  = IF Head(args) \in {"-t", "-c"} THEN Tail(args) ELSE args
          /\ speed' = IF Head(args) = "-t" THEN 0 ELSE speed
  /\ UNCHANGED <<us_sleep, wind, diff, run, hit, elapsed, ran, longest>>

\* The load of one run, of which awk sees the seconds and not the minutes.
Load(time) == (time % Minute) \div 5

Measure ==
  /\ phase = "measure"
  /\ \E time \in Times :
       LET load == Load(time) IN
       CASE load > Second -> phase' = "exit" /\ UNCHANGED us_sleep
         [] load = 0      -> phase' = "error" /\ UNCHANGED us_sleep
         [] OTHER         -> IF speed > Second \div load
                             THEN phase' = "exit" /\ UNCHANGED us_sleep
                             ELSE phase' = "round" /\ us_sleep' = FirstSleep
  /\ UNCHANGED <<config, wind, diff, run, hit, elapsed, ran, longest>>

\* Mutant: the counter of runs is set up before the first round only.
RoundKeepsRun ==
  /\ phase = "round" /\ us_sleep <= MaxSleep
  /\ IF speed = 0 THEN phase' = "error" ELSE phase' = "run"
  /\ run' = IF run = 0 THEN Runs ELSE run
  /\ elapsed' = 0 /\ ran' = 0
  /\ wind' = IF wind > speed THEN speed ELSE wind
  /\ UNCHANGED <<config, us_sleep, diff, hit, longest>>

\* Mutant: diff starts at 0 in every round.
RoundResetsDiff ==
  /\ phase = "round" /\ us_sleep <= MaxSleep
  /\ IF speed = 0 THEN phase' = "error" ELSE phase' = "run"
  /\ run' = Runs /\ elapsed' = 0 /\ ran' = 0 /\ diff' = 0
  /\ wind' = IF wind > speed THEN speed ELSE wind
  /\ UNCHANGED <<config, us_sleep, hit, longest>>

\* A new round: diff and hit keep their values from the round before.
Round ==
  /\ phase = "round" /\ us_sleep <= MaxSleep
  /\ IF speed = 0 THEN phase' = "error" ELSE phase' = "run"
  /\ run' = Runs /\ elapsed' = 0 /\ ran' = 0
  /\ wind' = IF wind > speed THEN speed ELSE wind
  /\ UNCHANGED <<config, us_sleep, diff, hit, longest>>

Dur == Runs \div speed

\* us_sleep after a correction at the end of a window.
Corrected(delta) ==
  CASE delta < -Far         -> us_sleep - us_sleep \div 4
    [] delta > Far          -> us_sleep + us_sleep \div 3
    [] delta \in -Far .. -2 -> us_sleep - us_sleep \div 5
    [] delta \in 2 .. Far   -> us_sleep + us_sleep \div 10
    [] delta = -1           -> us_sleep - Small
    [] delta \in {0, 1}     -> us_sleep + Medium

\* One turn of the inner loop.
RunCommand ==
  /\ phase = "run" /\ diff <= Dur
  /\ \E step \in 0 .. MaxStep : elapsed' = elapsed + step
  /\ diff' = elapsed' /\ run' = run - 1 /\ ran' = ran + 1
  /\ LET tps   == (Runs + 1 - run) \div (diff' + 1)
         delta == tps - speed
     IN /\ hit' = IF delta = 0 THEN hit + 1 ELSE 0
        /\ longest' = IF delta # 0 THEN 0
                      ELSE IF us_sleep > longest THEN us_sleep ELSE longest
        /\ CASE hit' > Hits ->
                  phase' = "matched" /\ UNCHANGED <<us_sleep, wind>>
             [] hit' <= Hits /\ (diff' + 1) % wind = 0 ->
                  /\ us_sleep' = Corrected(delta) /\ wind' = wind + 1
                  /\ phase' = IF delta = -1 /\ us_sleep' < 0 THEN "exit" ELSE "round"
             [] OTHER ->
                  /\ phase' = IF run' < -Tolerance THEN "end" ELSE phase
                  /\ UNCHANGED <<us_sleep, wind>>
  /\ UNCHANGED config

TimeOver ==
  /\ phase = "run" /\ diff > Dur /\ phase' = "end"
  /\ UNCHANGED <<config, us_sleep, wind, diff, run, hit, elapsed, ran, longest>>

\* Mutant: the check for an underflow is missing.
EndRoundUnchecked ==
  /\ phase = "end"
  /\ CASE run \in -Tolerance .. Tolerance -> phase' = "matched" /\ UNCHANGED us_sleep
       [] run < -Tolerance -> phase' = "round" /\ us_sleep' = us_sleep + Big
       [] run > Tolerance  -> phase' = "round" /\ us_sleep' = us_sleep - Big
  /\ UNCHANGED <<config, wind, diff, run, hit, elapsed, ran, longest>>

\* A round without a correction.
EndRound ==
  /\ phase = "end"
  /\ CASE run \in -Tolerance .. Tolerance -> phase' = "matched" /\ UNCHANGED us_sleep
       [] run < -Tolerance -> phase' = "round" /\ us_sleep' = us_sleep + Big
       [] run > Tolerance  -> /\ us_sleep' = us_sleep - Big
                              /\ phase' = IF us_sleep' < 0 THEN "exit" ELSE "round"
  /\ UNCHANGED <<config, wind, diff, run, hit, elapsed, ran, longest>>

Finished ==
  /\ phase \in {"matched", "exit", "error"} \/ us_sleep > MaxSleep
  /\ UNCHANGED calVars

Calibrate == Parse \/ Measure \/ Round \/ RunCommand \/ TimeOver \/ EndRound
CalNext == Calibrate \/ Finished
CalSpec == CalInit /\ [][CalNext]_calVars /\ WF_calVars(Calibrate)
-----------------------------------------------------------------------------
CalTypeOK ==
  /\ phase \in {"parse", "measure", "round", "run", "end", "matched", "exit", "error"}
  /\ args \in Seq({"-h", "-t", "-c", "word"}) /\ speed \in Speeds \cup {0}
  /\ us_sleep \in Int /\ wind \in Nat /\ diff \in Nat /\ elapsed \in Nat /\ ran \in Nat
  /\ longest \in Nat
  /\ run \in -Tolerance - 1 .. Runs /\ hit \in 0 .. Hits + 1

\* The state is well typed, usleep is never called with a negative number,
\* although four of the eight corrections shorten the sleep and only two are
\* checked; and no divisor of the inner loop is 0: the window, which is cut to
\* the speed in every round and grows with every correction, is not.  (Before
\* that loop a load of 0, and a speed of 0, do divide by 0 and end in "error".)
ArithmeticSafe ==
  /\ CalTypeOK
  /\ phase \in {"round", "run"} => us_sleep >= 0
  /\ phase = "run" => wind \in 1 .. speed

\* What "Matched" says of the sleep it prints: either the last round, run with
\* that very sleep, gave the wanted speed, and no hit that was counted with it
\* was measured at a longer sleep; or as many commands as a round should have
\* were run in its time.  It does not say that all the hits are of that round:
\* hit is not reset for a new one (serial.sh:55-59), and at speed 1 each round
\* may end with its first hit, so that Hits + 1 rounds with as many different,
\* ever longer sleeps make a match.
MatchedIsMeasured ==
  phase = "matched" =>
    \/ ran \div (elapsed + 1) = speed /\ longest = us_sleep
    \/ ran \in Runs - Tolerance .. Runs + Tolerance /\ elapsed > Dur

\* A match apart, a round whose time runs out is the last to run the command:
\* diff stays above dur, and the rounds that follow shorten the sleep until it
\* underflows.
StaleDiffUnderflows ==
  (phase = "round" /\ speed > 0 /\ diff > Dur /\ us_sleep <= MaxSleep) ~> (phase = "exit")
==============================================================================
