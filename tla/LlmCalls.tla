------------------------------ MODULE LlmCalls ------------------------------
(***************************************************************************)
(* The calls a turn makes to its model: what the three kinds of provider   *)
(* make of a gateway that answers piece by piece, refuses for a while,     *)
(* breaks off or says nothing more, of a user who stops the turn in        *)
(* between, and what the agent loop then keeps and runs.  A piece of text  *)
(* is a number; a call is the sequence of the pieces collected for it, a   *)
(* piece being the number of the call the model meant it for: its name     *)
(* first, then its arguments.                                              *)
(***************************************************************************)
EXTENDS Integers, Sequences

CONSTANTS
    Compat, Responses, Vertex,  \* the models, by the type of their provider
    Streaming,      \* what resolve_streaming may say: a set of booleans
    MaxRequests, MaxPieces, MaxParallel, MaxRetries, MaxStops

Bounds ==
    /\ Streaming \subseteq BOOLEAN
    /\ {MaxRequests, MaxPieces, MaxParallel, MaxRetries, MaxStops} \subseteq Nat

Models == Compat \cup Responses \cup Vertex
Nobody == ""        \* whose private items a row carries, when it carries none
Note   == 0         \* the notice reflection adds to an answer it gave up on

VARIABLES
    phase,      \* where the turn is suspended
    call,       \* its model, whether it streams, and the attempt under way
    said,       \* what the gateway has said in this attempt
    got,        \* what the provider has collected
    shown,      \* the pieces of text this call has given to on_chunk
    cancelled,  \* ctx.cancelled is set
    empties,    \* empty_retries of the turn
    outcome,    \* of the last turn
    history,    \* the rows of the assistant
    sent,       \* these rows, as the last request says them
    requests, stops,
    mishaps     \* what the code lets happen: see the properties

turnVars  == <<cancelled, empties, outcome>>
rowVars   == <<history, sent>>
boundVars == <<requests, stops, mishaps>>
vars == <<phase, call, said, got, shown, turnVars, rowVars, boundVars>>

Whole(c) == Len(c) = 2 /\ c[1] = c[2]
Pieces   == 0..MaxPieces
Collected == UNION {[1..n -> 1..MaxParallel] : n \in 0..(2 * MaxParallel)}
Reasons  == {"none", "stop", "length", "filter", "failed", "error", "cancelled"}

TypeOK ==
    /\ Bounds
    /\ phase \in {"over", "ready", "starting", "asking", "waiting", "reading", "answered"}
    /\ call \in [model : Models, streaming : BOOLEAN, attempt : 0..MaxRetries]
    /\ said \in [text : Pieces, thought : BOOLEAN, calls : Seq(0..1), stop : Reasons,
                 indexed : BOOLEAN]
    /\ got.text \in Seq(Pieces) /\ got.calls \in Seq(Collected)
    /\ got.finish \in Reasons /\ got.done \in BOOLEAN
    /\ shown \in Seq(Pieces)
    /\ cancelled \in BOOLEAN /\ empties \in 0..1
    /\ outcome \in {"none", "answered", "cancelled", "failed"}
    /\ \A i \in DOMAIN history : /\ history[i].text \in Seq(Pieces)
                                 /\ history[i].private \in Models \cup {Nobody}
                                 /\ history[i].ran \in BOOLEAN
    /\ requests \in 0..MaxRequests /\ stops \in 0..MaxStops
    /\ mishaps \subseteq {"merged", "cut", "filtered", "dropped"}

Silence == [text |-> 0, thought |-> FALSE, calls |-> <<>>, stop |-> "none", indexed |-> TRUE]

\* _StreamState, _VertexStreamState, _ResponsesState when they are made
Nothing(m) == [text |-> <<>>, calls |-> <<>>, done |-> FALSE,
               finish |-> IF m \in Responses THEN "error" ELSE "none"]

Init ==
    /\ phase = "over" /\ outcome = "none" /\ cancelled = FALSE /\ empties = 0
    /\ call \in [model : Models, streaming : Streaming, attempt : {0}]
    /\ said = Silence /\ got = Nothing(call.model) /\ shown = <<>>
    /\ history = <<>> /\ sent = <<>> /\ requests = 0 /\ stops = 0 /\ mishaps = {}

Dialect(S) == call.model \in S

\* Whether the provider hears of a cancellation by itself: the Responses provider
\* and a call that does not stream are raced against it, the other streams look at
\* the event when something arrives.
Watched == Dialect(Responses) \/ ~call.streaming

-----------------------------------------------------------------------------
(* The turn: run(), the head of an iteration, and the user's stop *)

\* The next message, perhaps with another model.
NewTurn ==
    /\ phase = "over" /\ requests < MaxRequests
    /\ call' \in [model : Models, streaming : Streaming, attempt : {0}]
    /\ phase' = "ready" /\ outcome' = "none" /\ cancelled' = FALSE /\ empties' = 0
    /\ said' = Silence /\ got' = Nothing(call'.model) /\ shown' = <<>>
    /\ UNCHANGED <<rowVars, boundVars>>

End(how) == phase' = "over" /\ outcome' = how

\* What was collected for a call goes with it.
Forget == said' = Silence /\ got' = Nothing(call.model)

\* cancel_turn sets the event of a turn and cancels its task, which unwinds it where
\* it is suspended; a child has the event of its parent and hears of that only.
Stop ==
    /\ phase # "over" /\ ~cancelled /\ stops < MaxStops
    /\ cancelled' = TRUE /\ stops' = stops + 1
    /\ \/ End("cancelled") /\ Forget
       \/ UNCHANGED <<phase, said, got, outcome>>
    /\ UNCHANGED <<call, shown, empties, rowVars, requests, mishaps>>

StopAtHead ==
    /\ phase = "ready" /\ cancelled /\ End("cancelled")
    /\ UNCHANGED <<call, said, got, shown, cancelled, empties, rowVars, boundVars>>

\* mutant: without comparing the provenance
ReplayedAnywhere(m, row) ==
    m \in Responses /\ row.private # Nobody /\ row.items = row.text

\* The private items of a row are replayed to the model they came from and to no
\* other, and only when they say what the row says.
Replayed(m, row) == m \in Responses /\ row.private = m /\ row.items = row.text

\* How a provider words the rows for a model; arguments that do not parse are left
\* out for Vertex.
Worded(m) ==
    [i \in DOMAIN history |->
        LET row == history[i] IN
        [text |-> IF Replayed(m, row) THEN row.items ELSE row.text,
         calls |-> [k \in DOMAIN row.calls |->
                      IF m \in Vertex /\ ~Whole(row.calls[k]) THEN <<row.calls[k][1]>>
                      ELSE row.calls[k]],
         private |-> IF Replayed(m, row) THEN row.private ELSE Nobody]]

\* An iteration begins: llm_start is published, which lets others run.
Begin ==
    /\ phase = "ready" /\ ~cancelled /\ requests < MaxRequests
    /\ requests' = requests + 1
    /\ call' = [call EXCEPT !.attempt = 0] /\ phase' = "starting"
    /\ shown' = <<>>
    /\ UNCHANGED <<said, got, turnVars, rowVars, stops, mishaps>>

\* complete(): the Responses provider looks at the cancellation before it asks.
Send ==
    /\ phase = "starting"
    /\ IF cancelled /\ Dialect(Responses) /\ call.streaming
       THEN /\ phase' = "answered" /\ got' = [got EXCEPT !.finish = "cancelled"]
            /\ UNCHANGED <<said, sent>>
       ELSE /\ phase' = "asking" /\ sent' = Worded(call.model) /\ UNCHANGED got
            /\ \/ UNCHANGED said
               \* a gateway that does not number its parallel calls
               \/ Dialect(Compat) /\ call.streaming /\ said' = [said EXCEPT !.indexed = FALSE]
    /\ UNCHANGED <<call, shown, turnVars, history, boundVars>>

-----------------------------------------------------------------------------
(* What the gateway does before it answers *)

Fails ==
    /\ End("failed") /\ Forget
    /\ UNCHANGED <<call, shown, cancelled, empties, rowVars, boundVars>>

\* 429 or 5xx: another attempt after a while.  Compat and Vertex retry streams only.
Throttled ==
    /\ phase = "asking"
    /\ IF (call.streaming \/ Dialect(Responses)) /\ call.attempt < MaxRetries
       THEN /\ phase' = "waiting" /\ call' = [call EXCEPT !.attempt = @ + 1]
            /\ UNCHANGED <<said, got, shown, turnVars, rowVars, boundVars>>
       ELSE Fails

Refused == phase = "asking" /\ Fails

\* The prompt is too long: the history is compacted and the loop goes on.
Overflows ==
    /\ phase = "asking"
    /\ \E n \in 1..(Len(history) + 1) : history' = SubSeq(history, n, Len(history))
    /\ sent' = <<>> /\ phase' = "ready" /\ Forget
    /\ UNCHANGED <<call, shown, turnVars, boundVars>>

WaitOver ==
    /\ phase = "waiting" /\ phase' = "asking"
    /\ UNCHANGED <<call, said, got, shown, turnVars, rowVars, boundVars>>

\* _cancellable_sleep raises CancelledError, which unwinds the turn.
StopWhileWaiting ==
    /\ phase = "waiting" /\ cancelled /\ ~Watched /\ End("cancelled") /\ Forget
    /\ UNCHANGED <<call, shown, cancelled, empties, rowVars, boundVars>>

\* The watcher of the cancellation wins: the request is given up.
StopSeen ==
    /\ phase \in {"asking", "waiting", "reading"} /\ cancelled /\ Watched
    /\ phase' = "answered"
    /\ got' = [(IF call.streaming THEN got ELSE Nothing(call.model)) EXCEPT !.finish = "cancelled"]
    /\ UNCHANGED <<call, said, shown, turnVars, rowVars, boundVars>>

\* A response that comes whole: its text, and its n calls, the last one perhaps cut
WholeText(t)      == [k \in 1..t |-> k]
CallsSaid(n, cut) == [k \in 1..n |-> IF cut /\ k = n THEN 0 ELSE 1]
CallsGot(n, cut)  == [k \in 1..n |-> IF cut /\ k = n THEN <<k>> ELSE <<k, k>>]

\* 200.  Without streaming the whole response comes at once.
Answered ==
    /\ phase = "asking"
    /\ IF call.streaming
       THEN phase' = "reading" /\ UNCHANGED <<said, got>>
       ELSE \E t \in Pieces, n \in 0..MaxParallel, r \in {"stop", "length", "filter"} :
              /\ phase' = "answered"
              /\ said' = [said EXCEPT !.text = t, !.stop = r, !.calls = CallsSaid(n, r # "stop")]
              /\ got' = [text |-> WholeText(t), calls |-> CallsGot(n, r # "stop"), done |-> TRUE,
                         finish |-> IF r = "filter" /\ Dialect(Responses) THEN "error" ELSE r]
    /\ UNCHANGED <<call, shown, turnVars, rowVars, boundVars>>

-----------------------------------------------------------------------------
(* The stream, event by event *)

HasOutput == got.text # <<>> \/ got.calls # <<>>

\* mutant: a stream that just ends counts as complete
EndingWell(g) ==
    CASE g.finish \notin {"none", "error"} -> g.finish
      [] OTHER                             -> "stop"

\* finalize(): what the response says of how it ended
Ending(g) ==
    IF g.finish # "none" THEN g.finish
    ELSE IF Dialect(Compat) /\ g.done THEN "stop"
    ELSE IF g.text = <<>> /\ g.calls = <<>> /\ ~said.thought THEN "none"
    ELSE IF Dialect(Compat) THEN "error" ELSE "stop"
Finalize(g) == phase' = "answered" /\ got' = [g EXCEPT !.finish = Ending(g)]

\* An event arrives.  A stream nobody watches for it ends here when the turn has
\* been cancelled; Compat says so in the response, Vertex does not.
Event(e, g, s) ==
    /\ phase = "reading" /\ said' = e
    /\ IF cancelled /\ ~Watched
       THEN Finalize(IF Dialect(Compat) THEN [got EXCEPT !.finish = "cancelled"] ELSE got)
            /\ UNCHANGED shown
       ELSE got' = g /\ shown' = s /\ UNCHANGED phase
    /\ UNCHANGED <<call, turnVars, rowVars, requests, stops>>

Talks == phase = "reading" /\ said.stop = "none"
AllGiven == \A k \in DOMAIN said.calls : said.calls[k] = 1

Think ==
    /\ Talks /\ ~said.thought /\ said.text = 0 /\ said.calls = <<>>
    /\ Event([said EXCEPT !.thought = TRUE], got, shown)
    /\ UNCHANGED mishaps

Say ==
    /\ Talks /\ said.text < MaxPieces
    /\ LET t == said.text + 1 IN
       Event([said EXCEPT !.text = t], [got EXCEPT !.text = Append(@, t)], Append(shown, t))
    /\ UNCHANGED mishaps

\* _process_tool_call_deltas: a delta without an index belongs to call 0.
Slot(k) == IF said.indexed THEN k ELSE 1

Given(k) ==
    IF Slot(k) \in DOMAIN got.calls THEN [got EXCEPT !.calls[Slot(k)] = Append(@, k)]
    ELSE [got EXCEPT !.calls = Append(@, <<k>>)]

\* A call begins; Vertex sends it whole.
StartCall ==
    /\ Talks /\ AllGiven /\ Len(said.calls) < MaxParallel
    /\ LET k == Len(said.calls) + 1 IN
       IF Dialect(Vertex)
       THEN Event([said EXCEPT !.calls = Append(@, 1)],
                  [got EXCEPT !.calls = Append(@, <<k, k>>)], shown) /\ UNCHANGED mishaps
       ELSE /\ Event([said EXCEPT !.calls = Append(@, 0)], Given(k), shown)
            /\ mishaps' = IF Slot(k) # k THEN mishaps \cup {"merged"} ELSE mishaps

GiveArguments ==
    /\ Talks /\ ~AllGiven
    /\ LET k == Len(said.calls) IN
       Event([said EXCEPT !.calls[k] = 1], Given(k), shown)
    /\ UNCHANGED mishaps

\* The reason to stop.  For Responses it comes with the whole response and ends
\* the stream.
Finishes(r) ==
    /\ Talks /\ (r = "stop" => AllGiven)
    /\ LET e == [said EXCEPT !.stop = r] IN
       IF Dialect(Responses)
       THEN /\ said' = e
            /\ Finalize([got EXCEPT !.finish = IF r = "filter" THEN "error" ELSE r])
            /\ UNCHANGED <<call, shown, turnVars, rowVars, requests, stops>>
       ELSE Event(e, [got EXCEPT !.finish = r], shown)
    /\ UNCHANGED mishaps

\* The gateway reports an error in the stream.  A failed response of Responses may
\* bring the output so far, or none; Compat notes the error, Vertex reads on.
Reports ==
    /\ Talks
    /\ LET e == [said EXCEPT !.stop = "failed"] IN
       \/ /\ Dialect(Responses)
          /\ \E g \in {got, Nothing(call.model)} :
                IF g.text = <<>> /\ g.calls = <<>> /\ got.text = <<>>
                THEN Fails
                ELSE /\ said' = e /\ Finalize(g)
                     /\ mishaps' = IF g.text # got.text THEN mishaps \cup {"dropped"} ELSE mishaps
                     /\ UNCHANGED <<call, shown, turnVars, rowVars, requests, stops>>
       \/ Dialect(Compat) /\ Event(e, [got EXCEPT !.finish = "error"], shown) /\ UNCHANGED mishaps
       \/ Dialect(Vertex) /\ Event(e, got, shown) /\ UNCHANGED mishaps

\* [DONE], with which some gateways end without having said a reason
Done ==
    /\ phase = "reading" /\ Dialect(Compat) /\ (said.stop = "none" => AllGiven)
    /\ said' = [said EXCEPT !.stop = IF @ = "none" THEN "stop" ELSE @]
    /\ Finalize(IF cancelled THEN [got EXCEPT !.finish = "cancelled"]
                ELSE [got EXCEPT !.done = TRUE])
    /\ UNCHANGED <<call, shown, turnVars, rowVars, boundVars>>

\* The stream ends without a word.
Closes ==
    /\ phase = "reading" /\ Finalize(got)
    /\ UNCHANGED <<call, said, shown, turnVars, rowVars, boundVars>>

\* mutant: a broken stream is asked for again
BreaksAndRetries ==
    /\ phase = "reading"
    /\ IF call.attempt < MaxRetries
       THEN /\ phase' = "waiting" /\ call' = [call EXCEPT !.attempt = @ + 1] /\ said' = Silence
            /\ UNCHANGED <<got, shown, turnVars, rowVars, boundVars>>
       ELSE /\ Finalize([got EXCEPT !.finish = "error"])
            /\ UNCHANGED <<call, said, shown, turnVars, rowVars, boundVars>>

\* The connection breaks, or nothing has come for the timeout of the model: what has
\* been collected is kept, and when there is nothing the exception goes on.
Breaks ==
    /\ phase = "reading"
    /\ IF HasOutput \/ (said.thought /\ ~Dialect(Responses))
       THEN /\ Finalize(IF Dialect(Vertex) THEN got ELSE [got EXCEPT !.finish = "error"])
            /\ UNCHANGED <<call, said, shown, turnVars, rowVars, boundVars>>
       ELSE Fails

-----------------------------------------------------------------------------
(* What the agent does with the response *)

\* mutant: trusts the provider
StopHeardInResponse == got.finish = "cancelled"

StopHeard == cancelled \/ got.finish = "cancelled"
\* assistant_message: the private items stay with the row when it says what the
\* response said, and the response was not broken off.
Row(text, ran) ==
    [text |-> text, calls |-> got.calls, ran |-> ran, items |-> got.text,
     private |-> IF Dialect(Responses) /\ got.finish = "stop" /\ text = got.text
                 THEN call.model ELSE Nobody,
     entire |-> said.stop = "stop" /\ Len(said.calls) = Len(got.calls), late |-> cancelled]

StopTaken ==
    /\ phase = "answered" /\ StopHeard /\ End("cancelled") /\ Forget
    /\ UNCHANGED <<call, shown, cancelled, empties, rowVars, boundVars>>

\* The calls of a response that was broken off are answered with an error.
Rejected == got.finish \in {"length", "error"}

TakeCalls ==
    /\ phase = "answered" /\ ~StopHeard /\ got.calls # <<>>
    /\ history' = Append(history, Row(got.text, ~Rejected))
    /\ phase' = "ready" /\ Forget
    /\ mishaps' = mishaps \cup
         (IF Rejected THEN {} ELSE
            (IF said.stop \in {"none", "failed"} THEN {"cut"} ELSE {}) \cup
            (IF said.stop = "filter" THEN {"filtered"} ELSE {}))
    /\ UNCHANGED <<call, shown, turnVars, sent, requests, stops>>

\* An empty response is asked for again, once.
RetryEmpty ==
    /\ phase = "answered" /\ ~StopHeard /\ got.calls = <<>> /\ got.text = <<>>
    /\ empties = 0 /\ empties' = 1 /\ phase' = "ready" /\ Forget
    /\ UNCHANGED <<call, shown, cancelled, outcome, rowVars, boundVars>>

\* The answer: reflection may send it back, or add a notice to it.
TakeText ==
    /\ phase = "answered" /\ ~StopHeard /\ got.calls = <<>>
    /\ got.text = <<>> => empties = 1
    /\ \/ /\ End("answered") /\ history' = Append(history, Row(got.text, FALSE))
       \/ /\ got.text # <<>>
          /\ End("answered") /\ history' = Append(history, Row(Append(got.text, Note), FALSE))
       \/ /\ got.text # <<>>
          /\ phase' = "ready" /\ UNCHANGED outcome
          /\ history' = Append(history, Row(got.text, FALSE))
    /\ Forget
    /\ UNCHANGED <<call, shown, cancelled, empties, sent, boundVars>>

Next == \/ NewTurn \/ Stop \/ StopAtHead \/ Begin \/ Send
        \/ Throttled \/ Refused \/ Overflows \/ WaitOver \/ StopWhileWaiting \/ StopSeen
        \/ Answered \/ Think \/ Say \/ StartCall \/ GiveArguments
        \/ \E r \in {"stop", "length", "filter"} : Finishes(r)
        \/ Reports \/ Done \/ Closes \/ Breaks
        \/ StopTaken \/ TakeCalls \/ RetryEmpty \/ TakeText

Spec == Init /\ [][Next]_vars

-----------------------------------------------------------------------------

\* A call runs with the name and the arguments the model gave it, none of a
\* response that was broken off runs, and a row of calls says all of the batch.
\* What the code lets through: parallel calls of a gateway that does not number
\* them are run together into one ("merged"); Vertex takes a stream that broke off
\* for complete ("cut"); the reason of a filter does not stop the calls it cut
\* ("filtered").
CallsRunWhole ==
    \A i \in DOMAIN history : history[i].ran =>
        \/ mishaps \cap {"merged", "cut", "filtered"} # {}
        \/ /\ history[i].entire
           /\ \A k \in DOMAIN history[i].calls : Whole(history[i].calls[k])

\* What the user saw arrive is what the response says, each piece once; a call that
\* failed has shown nothing.  What the code lets through: a failed response without
\* its output throws away the text that was shown ("dropped").
ShownIsKept ==
    \/ "dropped" \in mishaps
    \/ /\ phase = "answered" /\ call.streaming => got.text = shown
       /\ outcome = "failed" => shown = <<>>

\* A turn that was stopped adds nothing more: no row, no run of a call, no answer.
StopsAreHeard ==
    /\ \A i \in DOMAIN history : ~history[i].late
    /\ phase = "over" /\ cancelled => outcome # "answered"

\* A request says what the history says, and the private items of a model go to
\* that model only.
RequestsSayHistory ==
    phase \in {"asking", "waiting", "reading"} =>
      \A i \in DOMAIN sent :
        /\ sent[i].text = history[i].text
        /\ sent[i].private \in {Nobody, call.model}
        /\ \A k \in DOMAIN history[i].calls : sent[i].calls[k][1] = history[i].calls[k][1]
=============================================================================
