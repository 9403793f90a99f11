---------------------------- MODULE LoopBreaker ----------------------------
(***************************************************************************)
(* The detector of loop_breaker.py over one turn of the agent.  After each *)
(* batch of tool calls the batch is recorded and a verdict computed; a     *)
(* trip moves the turn one rung up: a nudge, a redirect, the end.          *)
(***************************************************************************)
EXTENDS Integers, Sequences, FiniteSets

CONSTANTS
    Prints,      \* fingerprints of the calls
    Exempt,      \* those of exempt_tools
    NoPrint,     \* no fingerprint
    RepeatAt,    \* repeat_threshold
    ErrorsAt,    \* error_threshold
    ErrorWindow, \* error_window
    Batches,     \* the batches of calls of a round
    MaxRounds    \* bound on the rounds of a turn

VARIABLES
    count,      \* _Offender.count
    watermark,  \* _Offender.last_tripped_count
    failed,     \* _Offender.error_text is not empty
    recent,     \* _recent_errors
    errors,     \* _total_errors
    errorsAtTrip, \* _errors_at_last_trip
    trips,      \* _trips
    offense,    \* what the redirect quotes
    rung,       \* the last verdict
    rounds      \* the batches so far

breakerVars == <<count, watermark, failed, recent, errors, errorsAtTrip, trips, offense,
                 rung, rounds>>

Calls == [print : Prints, error : BOOLEAN]
Counted == Prints \ Exempt

TypeOK ==
    /\ count \in [Counted -> Nat] /\ watermark \in [Counted -> Nat]
    /\ failed \in [Counted -> BOOLEAN]
    /\ recent \in Seq(BOOLEAN)
    /\ errors \in Nat /\ errorsAtTrip \in Nat /\ trips \in Nat
    /\ offense \in [signal : {"", "repeat", "error_surge"}, print : Counted \cup {NoPrint},
                    error : BOOLEAN]
    /\ rung \in {"none", "nudge", "redirect", "stop"}
    /\ rounds \in Seq(Batches)

Init ==
    /\ count = [p \in Counted |-> 0] /\ watermark = [p \in Counted |-> 0]
    /\ failed = [p \in Counted |-> FALSE]
    /\ recent = <<>> /\ errors = 0 /\ errorsAtTrip = 0
    /\ trips = 0 /\ rung = "none" /\ rounds = <<>>
    /\ offense = [signal |-> "", print |-> NoPrint, error |-> FALSE]

-----------------------------------------------------------------------------
(* record *)

Made(batch, p) == {i \in 1..Len(batch) : batch[i].print = p}
Failures(flags) == {i \in 1..Len(flags) : flags[i]}
Flags(batch) == [i \in 1..Len(batch) |-> batch[i].error]
LastOf(s, n) == IF Len(s) <= n THEN s ELSE SubSeq(s, Len(s) - n + 1, Len(s))

Record(batch) ==
    /\ count' = [p \in Counted |-> count[p] + Cardinality(Made(batch, p))]
    /\ failed' = [p \in Counted |->
                    IF Made(batch, p) = {} THEN failed[p]
                    ELSE \E i \in Made(batch, p) :
                           batch[i].error /\ \A j \in Made(batch, p) : j <= i]
    /\ recent' = LastOf(recent \o Flags(batch), ErrorWindow)
    /\ errors' = errors + Cardinality(Failures(Flags(batch)))

-----------------------------------------------------------------------------
(* verdict, on what record left *)

Fresh == {p \in Counted : count'[p] >= RepeatAt /\ count'[p] > watermark[p]}
Worst(p) == p \in Fresh /\ \A q \in Fresh : count'[q] <= count'[p]

Surge ==
    /\ Cardinality(Failures(recent')) >= ErrorsAt
    /\ errors' - errorsAtTrip >= ErrorsAt

Trip ==
    /\ trips' = trips + 1
    /\ rung' = CASE trips = 0 -> "nudge" [] trips = 1 -> "redirect" [] OTHER -> "stop"
    /\ errorsAtTrip' = errors'

\* mutant: the watermark of the call it names is the only one that moves
RepeatTripWorst ==
    /\ Fresh # {} /\ Trip
    /\ \E p \in Fresh :
         /\ Worst(p)
         /\ offense' = [signal |-> "repeat", print |-> p, error |-> failed'[p]]
         /\ watermark' = [watermark EXCEPT ![p] = count'[p]]

RepeatTrip ==
    /\ Fresh # {} /\ Trip
    /\ \E p \in Fresh :
         /\ Worst(p)
         /\ offense' = [signal |-> "repeat", print |-> p, error |-> failed'[p]]
    /\ watermark' = [p \in Counted |-> IF p \in Fresh THEN count'[p] ELSE watermark[p]]

ErrorTrip ==
    /\ Fresh = {} /\ Surge /\ Trip
    /\ offense' = [signal |-> "error_surge", print |-> NoPrint, error |-> TRUE]
    /\ UNCHANGED watermark

NoTrip ==
    /\ Fresh = {} /\ ~Surge
    /\ rung' = "none"
    /\ UNCHANGED <<watermark, errorsAtTrip, trips, offense>>

\* one round of the turn, which the third trip ends
Round(batch) ==
    /\ rung # "stop" /\ Len(rounds) < MaxRounds
    /\ rounds' = Append(rounds, batch)
    /\ Record(batch)
    /\ RepeatTrip \/ ErrorTrip \/ NoTrip

Next == \E batch \in Batches : Round(batch)

Spec == Init /\ [][Next]_breakerVars

-----------------------------------------------------------------------------
(* Properties *)

\* The same detector from the history, without counters and watermarks: a round
\* is an offence if a call in it has by then been made RepeatAt times, or if
\* the rounds since the last offence brought ErrorsAt errors, and as many of the
\* last results are errors.
MadeBy(n, p) == {<<m, i>> \in (1..n) \X (1..4) : i <= Len(rounds[m]) /\ rounds[m][i].print = p}
ErrorsIn(m, n) ==
    {<<k, i>> \in (m..n) \X (1..4) : i <= Len(rounds[k]) /\ rounds[k][i].error}
ResultsUpTo[n \in 0..Len(rounds)] ==
    IF n = 0 THEN <<>> ELSE ResultsUpTo[n - 1] \o Flags(rounds[n])
Repeats(n) ==
    \E i \in 1..Len(rounds[n]) :
        LET p == rounds[n][i].print
        IN  p \notin Exempt /\ Cardinality(MadeBy(n, p)) >= RepeatAt
LastOffence[n \in 0..Len(rounds)] ==
    IF n = 0 THEN 0
    ELSE IF \/ Repeats(n)
            \/ /\ Cardinality(ErrorsIn(LastOffence[n - 1] + 1, n)) >= ErrorsAt
               /\ Cardinality(Failures(LastOf(ResultsUpTo[n], ErrorWindow))) >= ErrorsAt
         THEN n ELSE LastOffence[n - 1]

\* A rung is climbed for an offence of the round and for nothing else: an agent
\* that stopped the call it was told to stop is not stopped for it, one that
\* repeats it does not get away, and a batch that is over every limit at once is
\* one offence.  What the agent is told to stop is a call of that round.
EscalatesOnOffence ==
    /\ trips = Cardinality({n \in 1..Len(rounds) : LastOffence[n] = n})
    /\ rung \in {"nudge", "redirect", "stop"} =>
         LET n == Len(rounds)
         IN  /\ LastOffence[n] = n
             /\ Repeats(n) <=> offense.signal = "repeat"
             /\ offense.print # NoPrint => Made(rounds[n], offense.print) # {}
=============================================================================
