------------------------- MODULE StreamingPipeline --------------------------
(***************************************************************************)
(* One refresh's streaming discovery (streaming_discovery.py).  A producer *)
(* feeds the source adapters and one end marker per agent into a bounded   *)
(* queue; agents run the adapters and put their batches, a possible error  *)
(* and a duration, and at their own end a marker, into a bounded output    *)
(* queue; the consumer counts the markers and hands batches and errors to  *)
(* its caller, whose work delays it.                                       *)
(*                                                                         *)
(* All of it runs on one event loop: a step is what a task does between    *)
(* two awaits that suspend it.  An agent whose adapter is a child process  *)
(* (process_adapter.py) runs the adapter's generator inside               *)
(* asyncio.timeout: when that expires while the generator itself waits,    *)
(* the generator raises TimeoutError; when it expires while the generator  *)
(* is suspended at a yield, the agent is cancelled wherever it waits.      *)
(***************************************************************************)
EXTENDS Integers, Sequences, FiniteSets

CONSTANTS
    Agents,
    NumSources,        \* configured adapters, in this order
    NumBatches,        \* batches of an adapter that does not fail
    QueueSize,
    Timed              \* sources whose adapter is a child process with a timeout

Adapters == 1 .. NumSources
Positions == 0 .. NumBatches

PipelineConstantsOK ==
    /\ IsFiniteSet(Agents) /\ Agents # {}
    /\ NumSources \in Nat /\ NumBatches \in Nat /\ QueueSize \in Nat \ {0}
    /\ Timed \subseteq Adapters

NumAgents == Cardinality(Agents)

VARIABLES
    producer,   \* entries the producer has put
    queue,      \* adapters (or 0, the end marker) waiting for an agent
    output,
    agent,      \* what each agent is doing
    consumer,   \* waiting, in its caller's body, finished or canceled
    finished,   \* end markers it has counted
    received,   \* batches it has got from each source
    errors      \* last_errors

vars == <<producer, queue, output, agent, consumer, finished, received, errors>>

Item == [kind : {"batch", "error", "duration", "end"}, source : 0 .. NumSources, position : Positions]
Mark(kind, s, k) == [kind |-> kind, source |-> s, position |-> k]

\* idle: waiting for an adapter; inside: running it; putting: at `await
\* output.put(item)`; done: its task has ended.  `last` is TRUE once the
\* agent has been cancelled: the duration is the last thing it puts.
Agent == [at : {"idle", "inside", "putting", "done"}, source : 0 .. NumSources,
          sent : Positions, item : Item, last : BOOLEAN]
Nothing == Mark("end", 0, 0)
IdleAgent == [at |-> "idle", source |-> 0, sent |-> 0, item |-> Nothing, last |-> FALSE]

TypeOK ==
    /\ producer \in 0 .. NumSources + NumAgents
    /\ queue \in Seq(0 .. NumSources) /\ Len(queue) <= QueueSize
    /\ output \in Seq(Item) /\ Len(output) <= QueueSize
    /\ agent \in [Agents -> Agent]
    /\ consumer \in {"waiting", "body", "finished", "canceled"}
    /\ finished \in 0 .. NumAgents
    /\ received \in [Adapters -> Positions]
    /\ errors \subseteq Adapters

Init ==
    /\ producer = 0
    /\ queue = <<>>
    /\ output = <<>>
    /\ agent = [a \in Agents |-> IdleAgent]
    /\ consumer = "waiting"
    /\ finished = 0
    /\ received = [s \in Adapters |-> 0]
    /\ errors = {}

\* The adapters in order, then a marker per agent.
Produce ==
    /\ consumer # "canceled"
    /\ producer < NumSources + NumAgents
    /\ Len(queue) < QueueSize
    /\ queue' = Append(queue, IF producer < NumSources THEN producer + 1 ELSE 0)
    /\ producer' = producer + 1
    /\ UNCHANGED <<output, agent, consumer, finished, received, errors>>

Unshared == <<producer, consumer, finished, received, errors>>

Putting(a, item) == [agent[a] EXCEPT !.at = "putting", !.item = item]

\* Faulty: the adapter stays in the queue, and another agent runs it too.
GetAdapterAgain(a) ==
    /\ agent[a].at = "idle"
    /\ queue # <<>>
    /\ \/ queue' = Tail(queue)
       \/ queue' = queue /\ Head(queue) # 0
    /\ agent' = [agent EXCEPT ![a] = IF Head(queue) = 0 THEN Putting(a, Nothing)
                                     ELSE [@ EXCEPT !.at = "inside", !.source = Head(queue),
                                                    !.sent = 0]]
    /\ UNCHANGED output
    /\ UNCHANGED Unshared

\* An agent gets the next adapter; at a marker it puts one of its own.
GetAdapter(a) ==
    /\ agent[a].at = "idle"
    /\ queue # <<>>
    /\ queue' = Tail(queue)
    /\ agent' = [agent EXCEPT ![a] = IF Head(queue) = 0 THEN Putting(a, Nothing)
                                     ELSE [@ EXCEPT !.at = "inside", !.source = Head(queue),
                                                    !.sent = 0]]
    /\ UNCHANGED output
    /\ UNCHANGED Unshared

\* The adapter yields its next batch, comes to its end, or raises.
AdapterYields(a) ==
    /\ agent[a].at = "inside"
    /\ agent[a].sent < NumBatches
    /\ LET next == agent[a].sent + 1
       IN  agent' = [agent EXCEPT ![a] = [Putting(a, Mark("batch", agent[a].source, next))
                                            EXCEPT !.sent = next]]
    /\ UNCHANGED <<queue, output>>
    /\ UNCHANGED Unshared

AdapterEnds(a) ==
    /\ agent[a].at = "inside"
    /\ agent[a].sent = NumBatches
    /\ agent' = [agent EXCEPT ![a] = Putting(a, Mark("duration", @.source, 0))]
    /\ UNCHANGED <<queue, output>>
    /\ UNCHANGED Unshared

AdapterRaises(a) ==
    /\ agent[a].at = "inside"
    /\ agent' = [agent EXCEPT ![a] = Putting(a, Mark("error", @.source, 0))]
    /\ UNCHANGED <<queue, output>>
    /\ UNCHANGED Unshared

\* Faulty: an agent leaves after its first adapter.
AfterPutLeaving(a) ==
    IF agent[a].item.kind = "batch" THEN [agent[a] EXCEPT !.at = "inside"]
    ELSE IF agent[a].item.kind = "error" THEN Putting(a, Mark("duration", agent[a].source, 0))
    ELSE [IdleAgent EXCEPT !.at = "done"]

\* What follows a put: the adapter goes on after a batch, an error is
\* followed by the duration, a duration by the next adapter.
AfterPut(a) ==
    CASE agent[a].item.kind = "batch" -> [agent[a] EXCEPT !.at = "inside"]
      [] agent[a].item.kind = "error" -> Putting(a, Mark("duration", agent[a].source, 0))
      [] agent[a].item.kind = "duration" /\ ~agent[a].last -> IdleAgent
      [] OTHER -> [IdleAgent EXCEPT !.at = "done"]

PutOutput(a) ==
    /\ agent[a].at = "putting"
    /\ Len(output) < QueueSize
    /\ output' = Append(output, agent[a].item)
    /\ agent' = [agent EXCEPT ![a] = AfterPut(a)]
    /\ UNCHANGED queue
    /\ UNCHANGED Unshared

\* CancelledError in an agent: the `finally` of a running adapter puts its
\* duration, everything else is dropped and the task ends.
Cancelled(a) ==
    IF agent[a].at = "inside" \/ (agent[a].at = "putting" /\ agent[a].item.kind \in {"batch", "error"})
    THEN [Putting(a, Mark("duration", agent[a].source, 0)) EXCEPT !.last = TRUE]
    ELSE [IdleAgent EXCEPT !.at = "done"]

\* The timeout of a process adapter expires while a full output queue keeps
\* the agent from running it.
TimeoutWhileBlocked(a) ==
    /\ agent[a].at = "putting" /\ agent[a].item.kind = "batch"
    /\ agent[a].source \in Timed
    /\ Len(output) = QueueSize
    /\ agent' = [agent EXCEPT ![a] = Cancelled(a)]
    /\ UNCHANGED <<queue, output>>
    /\ UNCHANGED Unshared

\* Faulty: takes the first end marker for the end.
CountedAny == consumer' = "finished" /\ finished' = finished + 1

Counted ==
    /\ finished' = finished + 1
    /\ consumer' = IF finished + 1 = NumAgents THEN "finished" ELSE "waiting"

\* The consumer gets an item.  A batch of nothing but duplicates is not
\* handed to the caller.
Consume ==
    /\ consumer = "waiting"
    /\ output # <<>>
    /\ output' = Tail(output)
    /\ LET item == Head(output)
       IN  \/ /\ item.kind = "end"
              /\ Counted
              /\ UNCHANGED <<received, errors>>
           \/ /\ item.kind = "duration"
              /\ UNCHANGED <<consumer, finished, received, errors>>
           \/ /\ item.kind = "batch"
              /\ received' = [received EXCEPT ![item.source] = item.position]
              /\ consumer' \in {"body", "waiting"}
              /\ UNCHANGED <<finished, errors>>
           \/ /\ item.kind = "error"
              /\ errors' = errors \cup {item.source}
              /\ consumer' = "body"
              /\ UNCHANGED <<finished, received>>
    /\ UNCHANGED <<producer, queue, agent>>

CallerReturns ==
    /\ consumer = "body"
    /\ consumer' = "waiting"
    /\ UNCHANGED <<producer, queue, output, agent, finished, received, errors>>

\* The refresh is cancelled while the consumer waits, or its caller's body
\* fails and the generator is closed at its yield: the task group cancels
\* producer and agents and waits for them.
CancelRefresh ==
    /\ consumer \in {"waiting", "body"}
    /\ consumer' = "canceled"
    /\ agent' = [a \in Agents |-> Cancelled(a)]
    /\ UNCHANGED <<producer, queue, output, finished, received, errors>>

\* The event loop runs every task that can go on; an adapter gets an answer
\* or a timeout of its HTTP client or child process; the caller's database
\* and file work ends.  Nothing has to cancel the refresh.
Progress ==
    \/ Produce \/ Consume \/ CallerReturns
    \/ \E a \in Agents : \/ GetAdapter(a) \/ PutOutput(a)
                          \/ AdapterYields(a) \/ AdapterEnds(a) \/ AdapterRaises(a)

Next == Progress \/ CancelRefresh \/ \E a \in Agents : TimeoutWhileBlocked(a)

Spec == Init /\ [][Next]_vars /\ WF_vars(Progress)

----------------------------------------------------------------------------
(* What holds of every state of a refresh that is not cancelled            *)

Taken == producer - Len(queue)     \* entries the agents have got

\* Entries that no agent has got wait in their order.
InQueue ==
    /\ Len(queue) <= producer
    /\ \A i \in DOMAIN queue : queue[i] = IF Taken + i <= NumSources THEN Taken + i ELSE 0

BatchesOf(s) == {i \in DOMAIN output : output[i].kind = "batch" /\ output[i].source = s}

\* The batches of a source are in the output in order, and the first of them
\* follows the last one received.
InOutput(s) ==
    \A i \in BatchesOf(s) :
        /\ received[s] < output[i].position
        /\ \/ output[i].position = received[s] + 1
           \/ \E j \in BatchesOf(s) : j < i /\ output[j].position + 1 = output[i].position
        /\ \A j \in BatchesOf(s) : i < j => output[i].position < output[j].position

\* The last batch of a source that is received or in the output.
LastOut(s, k) ==
    /\ received[s] <= k /\ \A i \in BatchesOf(s) : output[i].position <= k
    /\ received[s] = k \/ \E i \in BatchesOf(s) : output[i].position = k

\* A source has been read to its end, or its error is known.
Read(s) ==
    \/ LastOut(s, NumBatches) \/ s \in errors
    \/ \E i \in DOMAIN output : output[i].kind = "error" /\ output[i].source = s

\* What an agent holds is what comes next of its source.
Holds(x) ==
    /\ x.at \in {"idle", "done"} => x.source = 0
    /\ x.at = "inside" => x.source # 0 /\ LastOut(x.source, x.sent)
    /\ x.at = "putting" =>
          /\ x.item.source = x.source /\ (x.item.kind = "end" <=> x.source = 0)
          /\ x.item.kind = "batch" =>
                x.sent > 0 /\ x.item.position = x.sent /\ LastOut(x.source, x.sent - 1)
          /\ x.item.kind = "duration" => x.last \/ Read(x.source)
    /\ x.last => x.at = "putting" /\ x.item.kind = "duration"
    /\ x.source <= Taken

Unheld(s) == s <= Taken /\ \A a \in Agents : agent[a].source # s

EndsIn(q) == {i \in DOMAIN q : q[i].kind = "end"}
Ends == finished + Cardinality(EndsIn(output))
Gone == {a \in Agents : agent[a].at = "done"}

\* Not every agent has put its mark when a source was lost, by an agent that
\* the timeout of a child process has ended; nothing follows the last mark.
Marked ==
    /\ Ends <= Cardinality(Gone)
    /\ (\E s \in Adapters : Unheld(s) /\ ~Read(s)) => Ends < Cardinality(Gone)
    /\ Ends > 0 \/ (\E a \in Agents : agent[a].at = "putting" /\ agent[a].item.kind = "end")
          => Taken >= NumSources
    /\ Ends = NumAgents /\ output # <<>> => output[Len(output)].kind = "end"
    /\ consumer = "finished" <=> finished = NumAgents
    /\ consumer = "finished" => output = <<>>

PipelineInv ==
    /\ TypeOK
    /\ consumer # "canceled" =>
          /\ InQueue /\ Marked
          /\ \A s \in Adapters : InOutput(s) /\ (s > Taken => received[s] = 0)
          /\ \A i \in DOMAIN output : output[i].kind # "end" => output[i].source \in 1 .. Taken
          /\ \A a \in Agents : Holds(agent[a])
          /\ \A a, b \in Agents : agent[a].source # 0 /\ agent[a].source = agent[b].source => a = b

-----------------------------------------------------------------------------
\* When the stream ends, a source without an error has been received to its
\* last batch.  The engine passes exactly those sources to finish_refresh,
\* which counts what it has not seen of them as missing.
SuccessIsComplete ==
    consumer = "finished" => \A s \in Adapters \ errors : received[s] = NumBatches

\* A source's batches reach the consumer once and in order, whichever agents
\* and queues they went through.
InOrder ==
    \A s \in Adapters : received'[s] \in {received[s], received[s] + 1}

\* Whatever the adapters do, the refresh ends: the consumer sees every agent's
\* marker, or is cancelled; unless the timeout of a child process has ended an
\* agent at a yield, which then puts no marker.
StreamOver ==
    \/ consumer \in {"finished", "canceled"}
    \/ Timed # {} /\ Ends < Cardinality(Gone)
StreamEnds == <>StreamOver

\* A cancelled refresh ends when the output queue has room for one item of every
\* agent that has one to put: nobody takes items out of it any more, and an agent
\* puts at most its duration before its task ends.  Without that room the agents
\* wait for ever.
Cancelling ==
    /\ consumer = "canceled"
    /\ Len(output) + Cardinality({a \in Agents : agent[a].at = "putting"}) <= QueueSize
CancelEnds == Cancelling ~> Gone = Agents
=============================================================================
