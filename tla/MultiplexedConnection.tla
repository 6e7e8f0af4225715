----------------------- MODULE MultiplexedConnection -----------------------
(***************************************************************************)
(* One multiplexed connection (redis-rs aio/multiplexed_connection.rs)     *)
(* with the client-side cache in front of it.                              *)
(*                                                                         *)
(* Callers put their command on a bounded channel and wait for a oneshot;  *)
(* a writer task moves commands from the channel to the socket and keeps   *)
(* one in_flight entry per command; whatever the socket delivers is given  *)
(* to the entry at the front.  Replies carry no identity: that each goes   *)
(* to its own command rests on the counts alone, while callers time out,   *)
(* pushes arrive unprompted and the connection breaks.                     *)
(*                                                                         *)
(* The server, the other clients that write keys, and the reconnection are *)
(* modelled from what this code sees of them.                              *)
(***************************************************************************)
EXTENDS ClientCache

CONSTANTS
    Calls, NoCall,
    Scenarios,     \* policy of the cache ("none": no cache), each call's command, and
                   \* the bound on faults, breaks and writes together
    Capacity,      \* of the channel (DEFAULT_BUFFER_SIZE)
    MaxFaults,     \* bound: error replies, failed writes, timeouts, unprompted pushes
    MaxBreaks,     \* bound: connections that end
    MaxWrites      \* bound: changes of keys by other clients

\* A read is one command with one reply, and no fence.
ASSUME ScenariosAssumption ==
    /\ NoCall \notin Calls /\ Capacity \in Nat
    /\ \A s \in Scenarios : \A r \in Calls :
        /\ s.command[r].keys \subseteq Keys /\ s.command[r].width \in Nat
        /\ s.command[r].pings \subseteq 1..s.command[r].width
        /\ s.command[r].keys # {} => s.command[r].width = 1 /\ s.command[r].kind # "SUNSUBSCRIBE"

DEAD_TICKS == 2

\* The last version of a key is its absence (Nil).
Nil == 4

VARIABLES
    scenario,
    call,        \* per call: where send_packed_command is, and what it holds
    out,         \* per call: the oneshot's content
    channel,     \* calls whose message waits for the writer task
    in_flight,   \* entries waiting for replies
    sync_lost,   \* response_sync_lost
    ended,       \* the writer task has returned and its PipelineSink is dropped
    mistaken,    \* history: a fence took the PONG of another command for its own
    wire,        \* commands the server has not yet executed
    stream,      \* what the server sent and the client has not yet read
    db, dirty,   \* the server's data; keys whose invalidation is not yet sent
    sent,        \* history: calls whose command was written to a socket
    lost,        \* history: keys an invalidation of which was never processed
    used         \* how much of each bound is used up

connVars == <<channel, in_flight, sync_lost, ended, mistaken>>
serverVars == <<wire, stream, db, dirty>>
vars == <<scenario, cache, call, out, connVars, serverVars, sent, lost, used>>

-----------------------------------------------------------------------------
(* Commands and what the server answers *)

Command(r) == scenario.command[r]
IsRead(r) == Command(r).keys # {}
UsesCache(r) == scenario.policy # "none" /\ IsRead(r)

Pushes(r) == Command(r).kind = "SUBSCRIBE"

\* is_fenced: a PING follows the command.
Fenced(r) == Command(r).kind = "SUNSUBSCRIBE"

Item(kind, r, n, ok, vals) == [kind |-> kind, of |-> r, nth |-> n, ok |-> ok, vals |-> vals]
Push(kind, keys) == Item(kind, NoCall, 0, TRUE, keys)

\* Mutant of HasReply: an unsubscription is always somebody's reply.
UnsubscriptionsReply(item) == item.kind \notin {"invalidate", "flush"}

\* has_reply
HasReply(item) == item.kind \notin {"sunsubscribe", "invalidate", "flush"}

\* A read of one key fails when the key has another type; MGET reports nil for it.
Matches(r, v) == v # Nil => CachedKeyType(v) = Command(r).type
ReadItem(r) ==
    LET asked == call[r].missing
        mget == Command(r).kind = "MGET"
    IN  Item("reply", r, 1, mget \/ \A k \in asked : Matches(r, db[k]),
             [k \in asked |-> IF Matches(r, db[k]) THEN db[k] ELSE Nil])

\* A fenced SUNSUBSCRIBE: a push that is nobody's reply, or an error, and then
\* the PONG, which is itself an error while the server is loading.
FencedItems(r) ==
    {Push("sunsubscribe", {}), Item("reply", r, 1, FALSE, <<>>)}
      \X {Item("pong", r, 2, TRUE, <<>>), Item("reply", r, 2, FALSE, <<>>)}

\* A PING of the caller's own, alone or in a pipeline, is answered by the same PONG.
PlainKind(r, n) ==
    IF Pushes(r) THEN "subscribe" ELSE IF n \in Command(r).pings THEN "pong" ELSE "reply"

PlainItems(r) ==
    {[n \in 1..Command(r).width |->
        Item(IF n \in bad THEN "reply" ELSE PlainKind(r, n), r, n, n \notin bad, <<>>)]
       : bad \in IF Pushes(r) THEN {{}} ELSE SUBSET (1..Command(r).width)}

Answers(r) ==
    IF Fenced(r) THEN FencedItems(r)
    ELSE IF IsRead(r) THEN {<<ReadItem(r)>>}
    ELSE PlainItems(r)

Fault(items) == \E i \in DOMAIN items : ~items[i].ok

-----------------------------------------------------------------------------
(* Initial state and bookkeeping *)

Oneshot(state, ok, items) == [state |-> state, ok |-> ok, items |-> items]
Unset == Oneshot("none", FALSE, <<>>)
SenderDropped == Oneshot("dropped", FALSE, <<>>)

Idle == [pc |-> "send", key |-> NoCall, todo |-> {}, missing |-> {}, ticks |-> 0, moved |-> FALSE,
         result |-> "none", items |-> <<>>]

Done(result, items) == [Idle EXCEPT !.pc = "done", !.result = result, !.items = items]

\* send_packed_command looks at the cache first when there is one.  A scenario
\* with fewer calls leaves some unused.
NewCall(r) ==
    IF Command(r).width = 0 THEN Done("unused", <<>>)
    ELSE IF UsesCache(r) THEN [Idle EXCEPT !.pc = "lookup", !.todo = Command(r).keys]
    ELSE [Idle EXCEPT !.missing = Command(r).keys]

Init ==
    /\ scenario \in Scenarios
    /\ cache = EmptyCache(scenario.policy)
    /\ call = [r \in Calls |-> NewCall(r)]
    /\ out = [r \in Calls |-> Unset]
    /\ channel = <<>>
    /\ in_flight = <<>>
    /\ sync_lost = FALSE
    /\ ended = FALSE
    /\ mistaken = FALSE
    /\ wire = <<>>
    /\ stream = <<>>
    /\ db = [k \in Keys |-> 1]
    /\ dirty = {}
    /\ sent = {}
    /\ lost = {}
    /\ used = [faults |-> 0, breaks |-> 0, writes |-> 0]

Bound == [faults |-> MaxFaults, breaks |-> MaxBreaks, writes |-> MaxWrites]

Spend(b) ==
    /\ used[b] < Bound[b]
    /\ used.faults + used.breaks + used.writes < scenario.events
    /\ used' = [used EXCEPT ![b] = @ + 1]

SpendIf(cond, b) == IF cond THEN Spend(b) ELSE UNCHANGED used

\* Mutant of Tokens: a fill outlives its token.
TokensForgotten(r) == {}

\* The future of a call ends: what it holds is dropped, its fill tokens too.
Tokens(r) == {f \in cache.fills : f[2] = r}

Finish(r, result, items) ==
    /\ call' = [call EXCEPT ![r] = Done(result, items)]
    /\ cache' = [cache EXCEPT !.fills = @ \ Tokens(r)]

-----------------------------------------------------------------------------
(* send_packed_command: the cache *)

\* The keys not found in the cache are asked of the server.
Looked(r, missing) ==
    LET rest == call[r].todo \ {call[r].key}
    IN  [call[r] EXCEPT !.todo = rest, !.missing = missing, !.key = NoCall,
                        !.pc = IF rest # {} THEN "lookup" ELSE "send"]

\* get under the read lock, for the next key of get_cached_mget or the only one.
Lookup(r) ==
    /\ call[r].pc = "lookup"
    /\ LET k == CHOOSE key \in call[r].todo : TRUE
           hit == k \in Cached(cache) /\ CachedKeyType(cache.entries[k].version) = Command(r).type
           expired == k \in Cached(cache) /\ cache.entries[k].expired
       IN  call' = [call EXCEPT ![r] =
             [@ EXCEPT !.key = k,
                       !.pc = IF expired THEN "expire" ELSE IF hit THEN "promote" ELSE "fill"]]
    /\ UNCHANGED <<scenario, cache, out, connVars, serverVars, sent, lost, used>>

\* The write locks that follow: by then the entry may be gone or replaced.  The
\* call has its value and ends when every key was cached.
Promote(r) ==
    /\ call[r].pc = "promote"
    /\ cache' = Promoted(cache, call[r].key)
    /\ call' = [call EXCEPT ![r] =
         IF call[r].todo = {call[r].key} /\ call[r].missing = {} THEN Done("ok", <<>>)
         ELSE Looked(r, call[r].missing)]
    /\ UNCHANGED <<scenario, out, connVars, serverVars, sent, lost, used>>

Expire(r) ==
    /\ call[r].pc = "expire"
    /\ cache' = remove_if_expired(cache, call[r].key)
    /\ call' = [call EXCEPT ![r].pc = "fill"]
    /\ UNCHANGED <<scenario, out, connVars, serverVars, sent, lost, used>>

BeginFill(r) ==
    /\ call[r].pc = "fill"
    /\ cache' = WithFill(cache, call[r].key, r)
    /\ call' = [call EXCEPT ![r] = Looked(r, call[r].missing \cup {call[r].key})]
    /\ UNCHANGED <<scenario, out, connVars, serverVars, sent, lost, used>>

\* The reply is in: each non-nil value is offered to the cache (complete_cached_cmd,
\* complete_cached_mget), under one write lock each.
Complete(r) ==
    /\ call[r].pc = "complete"
    /\ LET k == CHOOSE key \in call[r].todo : TRUE
           v == call[r].items[1].vals[k]
       IN  /\ cache' = IF v = Nil THEN WithoutFill(cache, k, r)
                       ELSE insert_if_active_fill(cache, k, v, r)
           /\ call' = [call EXCEPT ![r] =
                IF call[r].todo = {k} THEN Done("ok", call[r].items)
                ELSE [call[r] EXCEPT !.todo = @ \ {k}]]
    /\ UNCHANGED <<scenario, out, connVars, serverVars, sent, lost, used>>

-----------------------------------------------------------------------------
(* send_recv *)

Enqueue(r) ==
    /\ channel' = Append(channel, r)
    /\ call' = [call EXCEPT ![r] = [@ EXCEPT !.pc = "await", !.ticks = 0, !.moved = FALSE]]
    /\ UNCHANGED cache

\* try_reserve, and reserve once the channel was full.
Send(r) ==
    /\ call[r].pc \in {"send", "full"}
    /\ \/ /\ ended
          /\ Finish(r, "FatalSendError", <<>>)
          /\ UNCHANGED channel
       \/ /\ ~ended
          /\ Len(channel) < Capacity
          /\ Enqueue(r)
       \/ /\ ~ended
          /\ Len(channel) = Capacity
          /\ call[r].pc = "send"
          /\ call' = [call EXCEPT ![r].pc = "full"]
          /\ UNCHANGED <<channel, cache>>
    /\ UNCHANGED <<scenario, out, in_flight, sync_lost, ended, mistaken, serverVars, sent, lost, used>>

\* A liveness tick elapses and the channel is still full.
Tick(r) ==
    /\ call[r].pc = "full"
    /\ ~ended
    /\ Len(channel) = Capacity
    /\ LET ticks == IF call[r].moved THEN 0 ELSE call[r].ticks + 1
       IN  IF ticks >= DEAD_TICKS
             THEN Finish(r, "FatalSendError", <<>>)
             ELSE /\ call' = [call EXCEPT ![r] = [@ EXCEPT !.ticks = ticks, !.moved = FALSE]]
                  /\ UNCHANGED cache
    /\ UNCHANGED <<scenario, out, connVars, serverVars, sent, lost, used>>

\* The timeout of the request, while it waits for a slot or for its reply, or
\* the caller drops the future.
TimeOut(r) ==
    /\ call[r].pc \in {"full", "await"}
    /\ Spend("faults")
    /\ Finish(r, "TimedOut", <<>>)
    /\ UNCHANGED <<scenario, out, connVars, serverVars, sent, lost>>

\* Mutant of LostReplyError: reported as if nothing had been sent.
LostReplyRetried == "FatalSendError"

\* The sender was dropped: the server may or may not have seen the command.
LostReplyError == "FatalReceiveError"

Receive(r) ==
    /\ call[r].pc = "await"
    /\ out[r] # Unset
    /\ IF out[r] = SenderDropped THEN Finish(r, LostReplyError, <<>>)
       ELSE IF ~out[r].ok THEN Finish(r, "error", out[r].items)
       ELSE IF UsesCache(r)
            THEN /\ call' = [call EXCEPT ![r] = [@ EXCEPT !.pc = "complete", !.todo = call[r].missing,
                                                          !.items = out[r].items]]
                 /\ UNCHANGED cache
            ELSE Finish(r, "ok", out[r].items)
    /\ out' = [out EXCEPT ![r] = Unset]
    /\ UNCHANGED <<scenario, connVars, serverVars, sent, lost, used>>

-----------------------------------------------------------------------------
(* The writer task: PipelineSink driven by forward *)

\* progress.fetch_add, as the producers that wait for a slot see it.
Progressed == [r \in Calls |-> IF call[r].pc = "full" THEN [call[r] EXCEPT !.moved = TRUE]
                               ELSE call[r]]

Closed(r) == call[r].pc # "await"

\* output.send, which is lost when the receiver is gone
Output(r, ok, items) ==
    IF Closed(r) \/ out[r] # Unset THEN out
    ELSE [out EXCEPT ![r] = Oneshot("sent", ok, items)]

\* Mutant of Orphaned: the queue outlives the writer task.
OrphanedInFlight(o, queued, entries) ==
    LET gone == {entries[i].of : i \in DOMAIN entries}
    IN  [r \in Calls |-> IF r \in gone /\ o[r] = Unset THEN SenderDropped ELSE o[r]]

\* The senders of queued messages and of in_flight entries are dropped.
Orphaned(o, queued, entries) ==
    LET gone == ToSet(queued) \cup {entries[i].of : i \in DOMAIN entries}
    IN  [r \in Calls |-> IF r \in gone /\ o[r] = Unset THEN SenderDropped ELSE o[r]]

\* The keys that the invalidations of seq are about: all of them for a flush.
Announced(seq) ==
    {k \in Keys : \E i \in DOMAIN seq :
        seq[i].kind = "flush" \/ (seq[i].kind = "invalidate" /\ k \in seq[i].vals)}

\* forward returns: PipelineSink and the channel's receiver are dropped.  What
\* the server still had to say is never read.
End(o, queued) ==
    /\ ended' = TRUE
    /\ channel' = <<>>
    /\ in_flight' = <<>>
    /\ out' = Orphaned(o, queued, in_flight)
    /\ lost' = lost \cup dirty \cup Announced(stream)
    /\ dirty' = {}
    /\ stream' = <<>>

NewEntry(r) ==
    [of |-> r, left |-> IF Command(r).kind \in {"pipeline", "transaction"} THEN Command(r).width ELSE 1,
     buffer |-> <<>>, failed |-> FALSE, fenced_result |-> <<>>]

StartSend(r) ==
    IF Closed(r) THEN UNCHANGED <<wire, in_flight, sent>>
    ELSE /\ wire' = Append(wire, r)
         /\ in_flight' = Append(in_flight, NewEntry(r))
         /\ sent' = sent \cup {r}

\* start_send of the next message: shed, refused after a loss of
\* synchronization or a failed write, or written.
Pull ==
    /\ ~ended
    /\ channel # <<>>
    /\ LET r == Head(channel) IN
         \/ /\ Closed(r) \/ ~sync_lost
            /\ StartSend(r)
            /\ channel' = Tail(channel)
            /\ UNCHANGED <<out, ended, dirty, stream, lost, used>>
         \/ /\ ~Closed(r)
            /\ SpendIf(~sync_lost, "breaks")
            /\ End(Output(r, FALSE, <<>>), Tail(channel))
            /\ UNCHANGED <<wire, sent>>
    /\ call' = Progressed
    /\ UNCHANGED <<scenario, cache, sync_lost, mistaken, db>>

\* handle_fenced_first_response, handle_fenced_second_response
FencedFirst(e, item, rest) ==
    IF item.kind = "pong"
        THEN /\ in_flight' = rest
             /\ out' = Output(e.of, TRUE, <<item>>)
             /\ UNCHANGED sync_lost
        ELSE /\ in_flight' = <<[e EXCEPT !.fenced_result = <<item>>]>> \o rest
             /\ UNCHANGED <<out, sync_lost>>

FencedSecond(e, item, rest) ==
    /\ in_flight' = rest
    /\ sync_lost' = (item.kind # "pong")
    /\ out' = Output(e.of, item.kind = "pong" /\ e.fenced_result[1].ok, e.fenced_result)

\* A single reply, or one of a pipeline's: an error fails a single command and a
\* transaction, and is a value of any other pipeline.
Collect(e, item, rest) ==
    LET failed == e.failed \/ (~item.ok /\ Command(e.of).kind # "pipeline")
        gathered == [e EXCEPT !.buffer = Append(@, item), !.failed = failed, !.left = @ - 1]
    IN  /\ IF gathered.left > 0
             THEN in_flight' = <<gathered>> \o rest /\ UNCHANGED out
             ELSE in_flight' = rest /\ out' = Output(e.of, ~failed, gathered.buffer)
        /\ UNCHANGED sync_lost

\* send_result
SendResult(item) ==
    IF (~sync_lost /\ ~HasReply(item)) \/ in_flight = <<>>
      THEN UNCHANGED <<in_flight, out, sync_lost>>
      ELSE LET e == Head(in_flight)
               rest == Tail(in_flight)
           IN  IF sync_lost
                 THEN in_flight' = rest /\ out' = Output(e.of, FALSE, <<>>) /\ UNCHANGED sync_lost
                 ELSE IF ~Fenced(e.of) THEN Collect(e, item, rest)
                 ELSE IF e.fenced_result = <<>> THEN FencedFirst(e, item, rest)
                 ELSE FencedSecond(e, item, rest)

Invalidated(item) ==
    IF sync_lost \/ scenario.policy = "none" THEN cache
    ELSE IF item.kind = "flush" THEN flush_all_server_assisted(cache)
    ELSE IF item.kind = "invalidate" THEN FoldSet(LAMBDA k, c : invalidate_server_assisted(c, k), cache, item.vals)
    ELSE cache

\* A PONG says nothing of the PING it answers.
TakesOthersPong(item) ==
    /\ ~sync_lost /\ in_flight # <<>>
    /\ Fenced(Head(in_flight).of) /\ item.kind = "pong" /\ item.of # Head(in_flight).of

\* poll_read
Read ==
    /\ ~ended
    /\ stream # <<>>
    /\ cache' = Invalidated(Head(stream))
    /\ SendResult(Head(stream))
    /\ mistaken' = (mistaken \/ TakesOthersPong(Head(stream)))
    /\ stream' = Tail(stream)
    /\ call' = Progressed
    /\ lost' = IF sync_lost THEN lost \cup Announced(<<Head(stream)>>) ELSE lost
    /\ UNCHANGED <<scenario, channel, ended, wire, db, dirty, sent, used>>

\* The stream ends, or a flush fails, whose error goes to the first entry.
Break ==
    /\ ~ended
    /\ Spend("breaks")
    /\ \/ End(out, channel)
       \/ /\ in_flight # <<>>
          /\ End(IF Head(in_flight).left = 1 /\ ~Fenced(Head(in_flight).of)
                   THEN Output(Head(in_flight).of, FALSE, <<>>) ELSE out, channel)
    /\ UNCHANGED <<scenario, cache, call, sync_lost, mistaken, wire, db, sent>>

-----------------------------------------------------------------------------
(* The environment *)

Execute ==
    /\ ~ended
    /\ wire # <<>>
    /\ \E items \in Answers(Head(wire)) :
         /\ SpendIf(Fault(items) /\ ~IsRead(Head(wire)), "faults")
         /\ stream' = stream \o items
    /\ wire' = Tail(wire)
    /\ UNCHANGED <<scenario, cache, call, out, connVars, db, dirty, sent, lost>>

\* A slot of a sharded channel moves away.
UnpromptedPush ==
    /\ ~ended
    /\ scenario.policy = "none"
    /\ Spend("faults")
    /\ stream' = Append(stream, Push("sunsubscribe", {}))
    /\ UNCHANGED <<scenario, cache, call, out, connVars, wire, db, dirty, sent, lost>>

\* Another client changes or deletes a key, or empties the database.  The server
\* broadcasts what changed when it gets to it.
Write ==
    /\ scenario.policy # "none"
    /\ Spend("writes")
    /\ \/ \E k \in Keys : \E v \in (db[k] + 1)..Nil :
            /\ db' = [db EXCEPT ![k] = v]
            /\ IF ended THEN lost' = lost \cup {k} /\ UNCHANGED <<dirty, stream>>
                        ELSE dirty' = dirty \cup {k} /\ UNCHANGED <<lost, stream>>
       \/ /\ db' = [k \in Keys |-> Nil]
          /\ dirty' = {}
          /\ IF ended THEN lost' = Keys /\ UNCHANGED stream
                      ELSE stream' = Append(stream, Push("flush", {})) /\ UNCHANGED lost
    /\ UNCHANGED <<scenario, cache, call, out, connVars, wire, sent>>

Broadcast ==
    /\ dirty # {}
    /\ stream' = Append(stream, Push("invalidate", dirty))
    /\ dirty' = {}
    /\ UNCHANGED <<scenario, cache, call, out, connVars, wire, db, sent, lost, used>>

\* Time passes: entries live longer than their ttl.
Age ==
    /\ \E k \in Cached(cache) :
         /\ ~cache.entries[k].expired
         /\ Spend("writes")
         /\ cache' = [cache EXCEPT !.entries[k].expired = TRUE]
    /\ UNCHANGED <<scenario, call, out, connVars, serverVars, sent, lost>>

\* A new connection with the same cache takes the place of one that ended, for
\* calls that have not begun to send.
Reopen ==
    /\ ended
    /\ \A r \in Calls : call[r].pc \notin {"full", "send"}
    /\ \E r \in Calls : call[r].pc \notin {"done", "await"}
    /\ ended' = FALSE
    /\ sync_lost' = FALSE
    /\ wire' = <<>>
    /\ UNCHANGED <<scenario, cache, call, out, channel, in_flight, mistaken, stream, db, dirty, sent, lost, used>>

CallStep(r) ==
    \/ Lookup(r) \/ Promote(r) \/ Expire(r) \/ BeginFill(r)
    \/ Send(r) \/ Receive(r) \/ Complete(r)

Next ==
    \/ \E r \in Calls : CallStep(r) \/ Tick(r) \/ TimeOut(r)
    \/ Pull \/ Read \/ Break
    \/ Execute \/ UnpromptedPush \/ Write \/ Broadcast \/ Age \/ Reopen

Spec == Init /\ [][Next]_vars

\* Some task that can move is polled, or the server answers, whichever: every
\* call takes finitely many steps.  Nothing says that a timeout elapses, a
\* connection breaks or a liveness tick finds it dead.
Progress == (\E r \in Calls : CallStep(r)) \/ Pull \/ Read \/ Execute

FairSpec == Spec /\ WF_vars(Progress)

-----------------------------------------------------------------------------
(* Properties *)

TypeOK ==
    /\ CacheOK(Calls)
    /\ \A r \in Calls : call[r].ticks < DEAD_TICKS /\ call[r].missing \subseteq Command(r).keys
    /\ Len(channel) <= Capacity
    /\ \A i \in DOMAIN in_flight : in_flight[i].left \in 1..Command(in_flight[i].of).width

\* However callers time out, pushes arrive and commands fail, a command that
\* succeeds was given its own replies, all of them and in their order, unless a
\* fence took the PONG of another command for its own: once the PING of a fence
\* is refused, handle_fenced_second_response accepts the PONG of any later PING,
\* a caller's or another fence's, and every reply after it is one command late.
OwnReplies ==
    mistaken \/ \A r \in Calls : call[r].result = "ok" /\ call[r].items # <<>> =>
        /\ \A i \in DOMAIN call[r].items : call[r].items[i].of = r
        /\ Fenced(r) \/ \A i \in DOMAIN call[r].items : call[r].items[i].nth = i

\* FatalSendError is retried: no server has seen the command.
SendErrorUnseen == \A r \in Calls : call[r].result = "FatalSendError" => r \notin sent

\* No reply read before a key changed outlives the key's invalidation in the
\* cache: a cached value that is not the server's has its invalidation on the
\* way, or the end of a connection or a fence that failed has lost it.
StaleIsAnnounced ==
    \A k \in Cached(cache) : cache.entries[k].version # db[k] =>
        k \in lost \cup dirty \cup Announced(stream)

\* A registered fill belongs to a call that will complete or drop it: a key's
\* set of pending fills does not grow for ever.
FillsHeld == TypeOK /\ \A f \in cache.fills : call[f[2]].pc # "done"

FenceFailed == mistaken \/ sync_lost \/ \E i \in DOMAIN in_flight :
    in_flight[i].fenced_result # <<>> /\ in_flight[i].fenced_result[1].nth = 2

\* Without any timeout every call ends, unless the PING of a fence was refused.
CallsEnd ==
    (\E r \in Calls : call[r].pc = "await")
        ~> (FenceFailed \/ \A r \in Calls : call[r].pc = "done")
=============================================================================
