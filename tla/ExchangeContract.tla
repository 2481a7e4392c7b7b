--------------------------- MODULE ExchangeContract -------------------------
(***************************************************************************)
(* What an application and an exchange come to through ExchangeWsClient,    *)
(* with no frame, identifier, handler or heartbeat between them: a call is  *)
(* decided once and ends once, as it was decided; what is accepted is fed   *)
(* until a cancelled call takes it back; a push goes to the one callback    *)
(* that is installed where its topic is looked for.                         *)
(***************************************************************************)
EXTENDS Integers, Sequences

CONSTANTS Channels, Symbols, Ids, NoChannel, Nothing

VARIABLES
    by_channel, \* is a callback looked for by channel alone, or by topic?
    calls,      \* the n-th call of the application, a request or a subscription
    callbacks,  \* route -> the call whose callback is installed there
    verdicts,   \* per call: what the exchange has answered
    feed,       \* the topics that the exchange pushes
    delivery    \* what the last push came to

evars == <<by_channel, calls, callbacks, verdicts, feed, delivery>>

TopicsOf(i) == {calls[i].channel} \X calls[i].symbols
Where(t) == IF by_channel THEN t[1] ELSE t
Routes(i) == {Where(t) : t \in TopicsOf(i)}
Subscription(i) == calls[i].channel # NoChannel

Init ==
    /\ by_channel \in BOOLEAN
    /\ calls = <<>> /\ callbacks = [r \in {} |-> 0]
    /\ verdicts = [i \in Ids |-> {}] /\ feed = {} /\ delivery = Nothing

Begin(c, S) ==
    /\ Len(calls) + 1 \in Ids
    /\ calls' = Append(calls, [channel |-> c, symbols |-> S, outcome |-> "none", handle |-> "none"])
    /\ delivery' = Nothing
    /\ UNCHANGED <<by_channel, callbacks, verdicts, feed>>

\* The exchange may accept some of the topics of a subscription and refuse others.
Agrees(i, says, topics) ==
    IF Subscription(i)
    THEN (TRUE \in says <=> topics # {}) /\ (FALSE \in says <=> topics # TopicsOf(i))
    ELSE topics = {}
Decide(i, says, topics) ==
    /\ calls[i].outcome = "none" /\ verdicts[i] = {} /\ says # {}
    /\ Agrees(i, says, topics)
    /\ verdicts' = [verdicts EXCEPT ![i] = says]
    /\ feed' = feed \cup topics
    /\ UNCHANGED <<by_channel, calls, callbacks, delivery>>

Settle(i, ok) ==
    LET live == Subscription(i) /\ ok IN
    /\ calls[i].outcome = "none" /\ ok \in verdicts[i]
    /\ calls' = [calls EXCEPT ![i].outcome = IF ok THEN "ok" ELSE "failed",
                              ![i].handle = IF live THEN "active" ELSE @]
    /\ callbacks' =
          IF live
          THEN [r \in DOMAIN callbacks \cup Routes(i) |->
                    IF r \in Routes(i) THEN i ELSE callbacks[r]]
          ELSE callbacks
    /\ delivery' = Nothing
    /\ UNCHANGED <<by_channel, verdicts, feed>>

Cancel(i) ==
    /\ calls[i].handle = "active"
    /\ calls' = [calls EXCEPT ![i].handle = "cancelled"]
    /\ callbacks' = [r \in DOMAIN callbacks \ Routes(i) |-> callbacks[r]]
    /\ delivery' = Nothing
    /\ UNCHANGED <<by_channel, verdicts, feed>>

TakeBack(i) ==
    /\ calls[i].handle = "cancelled"
    /\ feed' = feed \ TopicsOf(i)
    /\ UNCHANGED <<by_channel, calls, callbacks, verdicts, delivery>>

\* Only what some call asked for, and the exchange accepted, is pushed.
Deliver(t) ==
    /\ \E i \in 1..Len(calls) : Subscription(i) /\ t \in TopicsOf(i) /\ TRUE \in verdicts[i]
    /\ IF Where(t) \in DOMAIN callbacks
       THEN \E how \in {"callback", "report"} :
                delivery' = [came_to |-> how, topic |-> t, call |-> callbacks[Where(t)]]
       ELSE delivery' = [came_to |-> "dropped", topic |-> t, call |-> 0]
    /\ UNCHANGED <<by_channel, calls, callbacks, verdicts, feed>>

\* What concerns no call: notices, heartbeats, answers to what has ended.
Pass ==
    /\ delivery' = Nothing
    /\ UNCHANGED <<by_channel, calls, callbacks, verdicts, feed>>

Next ==
    \/ \E c \in Channels \cup {NoChannel}, S \in SUBSET Symbols : Begin(c, S)
    \/ \E i \in 1..Len(calls) :
        \/ \E says \in SUBSET BOOLEAN, topics \in SUBSET TopicsOf(i) : Decide(i, says, topics)
        \/ \E ok \in BOOLEAN : Settle(i, ok)
        \/ Cancel(i) \/ TakeBack(i)
    \/ \E t \in Channels \X Symbols : Deliver(t)
    \/ Pass

Spec == Init /\ [][Next]_evars
=============================================================================
