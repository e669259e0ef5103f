----------------------------- MODULE Announcer -----------------------------
(***************************************************************************)
(* The trackers of the torrents: the tick of client.c and announcer.c, the *)
(* UDP request table of udp.c, the DNS and HTTP tasks of tasks.c and the   *)
(* results they send back through the notify pipe.                         *)
(*                                                                         *)
(* The arguments of a DNS task lie in the stack frame of                   *)
(* ANN_resolve_tracker, those of an HTTP task in that of                   *)
(* make_HTTP_announce, and a thread reads them after these have returned.  *)
(* Both functions are always called from the same depth, so that there is  *)
(* one place for the arguments of all DNS tasks and one for all HTTP tasks.*)
(***************************************************************************)
EXTENDS Integers, Sequences, FiniteSets

CONSTANTS
    TorrentCount,  \* session->torrents_count, all of them downloading
    Schema,        \* the schema of each tracker of each torrent
    Workers,       \* the pool threads
    TableSize,     \* slots of loop->udp_requests (128)
    MaxTasks,      \* bound: tasks waiting in the pool's queue
    StackReuse     \* whether other calls may overwrite the arguments of a task

Torrents == 1 .. TorrentCount
Trackers(t) == DOMAIN Schema[t]
Tids == 1 .. TableSize

ASSUME AnnouncerAssumption ==
    /\ TorrentCount \in Nat \ {0}
    /\ Schema \in [Torrents -> Seq({"udp", "http", "other"}) \ {<<>>}]
    /\ TableSize \in Nat \ {0}
    /\ MaxTasks \in Nat
    /\ StackReuse \in BOOLEAN

TrackStates == {"NOT_RESOLVED", "RESOLVING", "IDLE", "ANNOUNCING", "ALIVE", "FAILED"}

VARIABLES
    process,     \* "running", or "undefined" once wild pointers have been used
    at,          \* the torrent CL_client_tick is at, 0 outside of it
    tr_state,    \* tr->state, DOWNLOADING or FAILED
    active,      \* tr->active_tracker_idx, counted from 1
    track,       \* tr->tracks[].state
    expired,     \* more than 5 seconds are over since the active tracker's
                 \* announce_sent_at; asked about while it is ANNOUNCING
    requests,    \* loop->udp_requests[0 .. udp_requests_count - 1]
    dns_args,    \* the DNS_resolve_args in the frame of ANN_resolve_tracker
    http_args,   \* the HTTP_announce_args in the frame of make_HTTP_announce
    queue,       \* the pool's queue
    worker,      \* the task each pool thread runs
    pipe,        \* notify_pipe
    overwritten  \* history: arguments were overwritten before a thread read them

torrentVars == <<tr_state, active, track, expired>>
taskVars == <<dns_args, http_args, queue, worker, pipe>>
vars == <<process, at, torrentVars, requests, taskVars, overwritten>>

NoArgs == [torrent |-> 0, tracker |-> 0]
Idle == [fn |-> "none", torrent |-> 0, tracker |-> 0]

(* tracker_string_to_NET_tracker; the arena is zeroed memory.              *)
FirstState(schema) == IF schema = "http" THEN "IDLE" ELSE "NOT_RESOLVED"

(* CL_client_tick on a failed torrent: two strcmp joined by || are true of *)
(* every schema.                                                           *)
ResetState(schema) == IF schema = "udp" THEN "NOT_RESOLVED" ELSE "IDLE"

Init ==
    /\ process = "running"
    /\ at = 0
    /\ tr_state = [t \in Torrents |-> "DOWNLOADING"]
    /\ active = [t \in Torrents |-> 1]
    /\ track = [t \in Torrents |-> [k \in Trackers(t) |-> FirstState(Schema[t][k])]]
    /\ expired = [t \in Torrents |-> FALSE]
    /\ requests = {}
    /\ dns_args = NoArgs /\ http_args = NoArgs
    /\ queue = <<>>
    /\ worker = [w \in Workers |-> Idle]
    /\ pipe = <<>>
    /\ overwritten = FALSE

SetTrack(t, k, s) == track' = [track EXCEPT ![t][k] = s]

-----------------------------------------------------------------------------
(* CL_client_tick, one torrent after the other.  Threads run meanwhile.    *)

client_timer ==
    /\ process = "running"
    /\ at = 0
    /\ at' = 1
    /\ UNCHANGED <<process, torrentVars, requests, taskVars, overwritten>>

(* The case of a tracker in one of the states, in the switch of            *)
(* ANN_announcer_tick, and the step to the next torrent.                   *)
Tick(t, states) ==
    /\ process = "running"
    /\ at = t
    /\ tr_state[t] = "DOWNLOADING"
    /\ active[t] \in Trackers(t)
    /\ track[t][active[t]] \in states
    /\ at' = IF t = TorrentCount THEN 0 ELSE t + 1

(* The arguments of a task no thread has taken yet.                        *)
Awaited(fn) == \E j \in DOMAIN queue : queue[j] = fn

(* ANN_resolve_tracker                                                     *)
tick_resolve(t) ==
    /\ Tick(t, {"NOT_RESOLVED"})
    /\ Len(queue) < MaxTasks
    /\ dns_args' = [torrent |-> t, tracker |-> active[t]]
    /\ queue' = Append(queue, "dns")
    /\ overwritten' = (overwritten \/ Awaited("dns"))
    /\ SetTrack(t, active[t], "RESOLVING")
    /\ UNCHANGED <<process, tr_state, active, expired, requests, http_args, worker, pipe>>

(* The tracker is resolving, has 5 seconds not over, or is not due yet.    *)
tick_nothing(t) ==
    /\ Tick(t, {"RESOLVING", "ANNOUNCING", "ALIVE"})
    /\ track[t][active[t]] = "ANNOUNCING" => ~expired[t]
    /\ UNCHANGED <<process, torrentVars, requests, taskVars, overwritten>>

(* Definitions named X_... are the mistakes the properties are tried on; no *)
(* action uses them.  Here: the answered request stays in the table.        *)
AddRequest_kept(table, t, k) ==
    \E tid \in Tids \ {r.tid : r \in requests} :
        /\ \A other \in Tids \ {r.tid : r \in requests} : tid <= other
        /\ requests' = requests \cup {[tid |-> tid, torrent |-> t, tracker |-> k]}

(* The table with a request more.  Transaction ids do not repeat while     *)
(* requests are outstanding; the table's order is seen by nobody.          *)
AddRequest(table, t, k) ==
    \E tid \in Tids \ {r.tid : r \in requests} :
        /\ \A other \in Tids \ {r.tid : r \in requests} : tid <= other
        /\ requests' = table \cup {[tid |-> tid, torrent |-> t, tracker |-> k]}

(* ANN_make_announce_req on an idle tracker, or on one that is due again.  *)
tick_announce(t) ==
    /\ Tick(t, {"IDLE", "ALIVE"})
    /\ SetTrack(t, active[t], "ANNOUNCING")
    /\ expired' = [expired EXCEPT ![t] = FALSE]
    /\ CASE Schema[t][active[t]] = "udp" ->
              /\ AddRequest(requests, t, active[t])
              /\ UNCHANGED <<http_args, queue, overwritten>>
         [] Schema[t][active[t]] = "http" ->
              /\ Len(queue) < MaxTasks
              /\ http_args' = [torrent |-> t, tracker |-> active[t]]
              /\ queue' = Append(queue, "http")
              /\ overwritten' = (overwritten \/ Awaited("http"))
              /\ UNCHANGED requests
         [] OTHER -> UNCHANGED <<requests, http_args, queue, overwritten>>
    /\ UNCHANGED <<process, tr_state, active, dns_args, worker, pipe>>

(* The index is compared and not moved.                                    *)
NextTracker_same(t) ==
    /\ active' = active
    /\ tr_state' = [tr_state EXCEPT ![t] = IF active[t] = Len(Schema[t]) THEN "FAILED" ELSE @]

(* ++tr->active_tracker_idx >= tr->tracker_count                           *)
NextTracker(t) ==
    /\ active' = [active EXCEPT ![t] = @ + 1]
    /\ tr_state' = [tr_state EXCEPT ![t] = IF active[t] = Len(Schema[t]) THEN "FAILED" ELSE @]

(* The requests of a tracker that timed out are not purged.                *)
Without_nothing(t, k) == requests

(* The requests that are not of tracker k of torrent t.                    *)
Without(t, k) == {r \in requests : <<r.torrent, r.tracker>> # <<t, k>>}

(* Time passes for a tracker that is waited for.                           *)
five_seconds_pass(t) ==
    /\ process = "running"
    /\ active[t] \in Trackers(t)
    /\ track[t][active[t]] = "ANNOUNCING"
    /\ ~expired[t]
    /\ expired' = [expired EXCEPT ![t] = TRUE]
    /\ UNCHANGED <<process, at, tr_state, active, track, requests, taskVars, overwritten>>

(* No answer for more than 5 seconds.                                      *)
tick_timeout(t) ==
    /\ Tick(t, {"ANNOUNCING"})
    /\ expired[t]
    /\ expired' = [expired EXCEPT ![t] = FALSE]
    /\ SetTrack(t, active[t], "FAILED")
    /\ requests' = Without(t, active[t])
    /\ NextTracker(t)
    /\ UNCHANGED <<process, taskVars, overwritten>>

tick_failed(t) ==
    /\ Tick(t, {"FAILED"})
    /\ NextTracker(t)
    /\ UNCHANGED <<process, track, expired, requests, taskVars, overwritten>>

(* The torrent has failed: all trackers start anew, the index stays.       *)
tick_restart(t) ==
    /\ process = "running"
    /\ at = t
    /\ tr_state[t] = "FAILED"
    /\ tr_state' = [tr_state EXCEPT ![t] = "DOWNLOADING"]
    /\ track' = [track EXCEPT ![t] = [k \in Trackers(t) |-> ResetState(Schema[t][k])]]
    /\ at' = IF t = TorrentCount THEN 0 ELSE t + 1
    /\ UNCHANGED <<process, active, expired, requests, taskVars, overwritten>>

(* The index is past the last tracker: what lies there is taken for one.   *)
(* No case of the switch may fit it, or else the torrent goes on with it.  *)
tick_past_end(t) ==
    /\ process = "running"
    /\ at = t
    /\ tr_state[t] = "DOWNLOADING"
    /\ active[t] \notin Trackers(t)
    /\ process' \in {"running", "undefined"}
    /\ at' = IF t = TorrentCount THEN 0 ELSE t + 1
    /\ UNCHANGED <<torrentVars, requests, taskVars, overwritten>>

-----------------------------------------------------------------------------
(* UDP_readable.  A datagram whose id is not in the table has no effect, so *)
(* that lost, late, doubled and reordered answers need no network: an       *)
(* answer to any outstanding request may come at any time.                  *)
Answered(r) == process = "running" /\ at = 0 /\ r \in requests

(* UDP_ACTION_CONNECT: make_UDP_announce, for the torrent's active tracker. *)
(* The 5 seconds start anew.                                               *)
answer_connect(r) ==
    /\ Answered(r)
    /\ active[r.torrent] \in Trackers(r.torrent)
    /\ AddRequest(requests \ {r}, r.torrent, active[r.torrent])
    /\ SetTrack(r.torrent, r.tracker, "ANNOUNCING")
    /\ expired' = [expired EXCEPT ![r.torrent] = @ /\ r.tracker # active[r.torrent]]
    /\ UNCHANGED <<process, at, tr_state, active, taskVars, overwritten>>

(* The same, and the active tracker is past the last one.                  *)
answer_connect_past_end(r) ==
    /\ Answered(r)
    /\ active[r.torrent] \notin Trackers(r.torrent)
    /\ process' = "undefined"
    /\ UNCHANGED <<at, torrentVars, requests, taskVars, overwritten>>

(* UDP_ACTION_ANNOUNCE and UDP_ACTION_ERROR                                *)
answer_announce(r) ==
    /\ Answered(r)
    /\ SetTrack(r.torrent, r.tracker, "ALIVE")
    /\ requests' = requests \ {r}
    /\ UNCHANGED <<process, at, tr_state, active, expired, taskVars, overwritten>>

answer_error(r) ==
    /\ Answered(r)
    /\ SetTrack(r.torrent, r.tracker, "FAILED")
    /\ requests' = requests \ {r}
    /\ UNCHANGED <<process, at, tr_state, active, expired, taskVars, overwritten>>

(* Any other action: the request is forgotten, its tracker left waiting.   *)
answer_other(r) ==
    /\ Answered(r)
    /\ requests' = requests \ {r}
    /\ UNCHANGED <<process, at, torrentVars, taskVars, overwritten>>

-----------------------------------------------------------------------------
(* The pool threads                                                        *)

(* One stack frame for all tasks.                                          *)
Args_shared(fn) == dns_args

Args(fn) == IF fn = "dns" THEN dns_args ELSE http_args

(* worker, and the first lines of a task: the arguments are copied.        *)
take_task(w) ==
    /\ process = "running"
    /\ worker[w] = Idle
    /\ queue # <<>>
    /\ Args(Head(queue)) # NoArgs
    /\ worker' = [worker EXCEPT ![w] =
          [fn |-> Head(queue), torrent |-> Args(Head(queue)).torrent,
           tracker |-> Args(Head(queue)).tracker]]
    /\ queue' = Tail(queue)
    /\ UNCHANGED <<process, at, torrentVars, requests, dns_args, http_args, pipe, overwritten>>

take_garbage(w) ==
    /\ process = "running"
    /\ worker[w] = Idle
    /\ queue # <<>>
    /\ Args(Head(queue)) = NoArgs
    /\ process' = "undefined"
    /\ UNCHANGED <<at, torrentVars, requests, taskVars, overwritten>>

(* Later calls on the event loop reuse the stack.                          *)
stack_reused ==
    /\ process = "running"
    /\ StackReuse
    /\ dns_args' \in {dns_args, NoArgs}
    /\ http_args' \in {http_args, NoArgs}
    /\ overwritten' = (\/ overwritten
                       \/ dns_args' # dns_args /\ Awaited("dns")
                       \/ http_args' # http_args /\ Awaited("http"))
    /\ UNCHANGED <<process, at, torrentVars, requests, queue, worker, pipe>>

Report(w, type, success) ==
    /\ pipe' = Append(pipe, [type |-> type, torrent |-> worker[w].torrent,
                             tracker |-> worker[w].tracker, success |-> success])
    /\ worker' = [worker EXCEPT ![w] = Idle]

task_resolve_DNS(w) ==
    /\ process = "running"
    /\ worker[w].fn = "dns"
    /\ \E success \in BOOLEAN : Report(w, "NOTIFY_DNS_RESOLVE", success)
    /\ UNCHANGED <<process, at, torrentVars, requests, dns_args, http_args, queue, overwritten>>

(* An answer without peers, or none.                                       *)
task_HTTP_announce(w) ==
    /\ process = "running"
    /\ worker[w].fn = "http"
    /\ \E success \in BOOLEAN : Report(w, "NOTIFY_HTTP_RESPONSE", success)
    /\ UNCHANGED <<process, at, torrentVars, requests, dns_args, http_args, queue, overwritten>>

(* An answer with peers: they are copied to result.http.peers, a null      *)
(* pointer.                                                                *)
http_peers_copied(w) ==
    /\ process = "running"
    /\ worker[w].fn = "http"
    /\ process' = "undefined"
    /\ UNCHANGED <<at, torrentVars, requests, taskVars, overwritten>>

-----------------------------------------------------------------------------
(* notify_pipe_readable                                                    *)

(* A name that cannot be resolved leaves the tracker as it is.             *)
StateAfter_resolving(result) ==
    IF result.type = "NOTIFY_DNS_RESOLVE"
    THEN IF result.success THEN "IDLE" ELSE "RESOLVING"
    ELSE IF result.success THEN "ALIVE" ELSE "FAILED"

(* handle_dns_result and handle_HTTP_response: neither looks at the state  *)
(* the tracker is in by now, nor whether it is still the active one.       *)
StateAfter(result) ==
    IF ~result.success THEN "FAILED"
    ELSE IF result.type = "NOTIFY_DNS_RESOLVE" THEN "IDLE" ELSE "ALIVE"

notify_pipe_readable ==
    /\ process = "running"
    /\ at = 0
    /\ pipe # <<>>
    /\ SetTrack(Head(pipe).torrent, Head(pipe).tracker, StateAfter(Head(pipe)))
    /\ pipe' = Tail(pipe)
    /\ UNCHANGED <<process, at, tr_state, active, expired, requests, dns_args, http_args, queue, worker,
                   overwritten>>

-----------------------------------------------------------------------------
TickStep(t) ==
    \/ tick_resolve(t)
    \/ tick_nothing(t)
    \/ tick_announce(t)
    \/ tick_timeout(t)
    \/ tick_failed(t)
    \/ tick_restart(t)
    \/ tick_past_end(t)

UDP_readable(r) ==
    \/ answer_connect(r)
    \/ answer_connect_past_end(r)
    \/ answer_announce(r)
    \/ answer_error(r)
    \/ answer_other(r)

WorkerStep(w) ==
    \/ take_task(w)
    \/ take_garbage(w)
    \/ task_resolve_DNS(w)
    \/ task_HTTP_announce(w)
    \/ http_peers_copied(w)

Next ==
    \/ client_timer
    \/ \E t \in Torrents : TickStep(t) \/ five_seconds_pass(t)
    \/ \E r \in requests : UDP_readable(r)
    \/ \E w \in Workers : WorkerStep(w)
    \/ stack_reused
    \/ notify_pipe_readable

Spec == Init /\ [][Next]_vars

(* The timer ticks for ever and a tick comes to its end; threads take and   *)
(* end tasks (getaddrinfo and curl give up in the end); results are read;   *)
(* and a tracker that is waited for and not heard of uses up its 5 seconds. *)
Fairness ==
    /\ WF_vars(client_timer)
    /\ \A t \in Torrents : WF_vars(TickStep(t)) /\ WF_vars(five_seconds_pass(t))
    /\ \A w \in Workers :
          WF_vars(take_task(w) \/ task_resolve_DNS(w) \/ task_HTTP_announce(w))
    /\ SF_vars(notify_pipe_readable)

FairSpec == Spec /\ Fairness

-----------------------------------------------------------------------------
(* Properties                                                              *)

Sites == UNION {{[torrent |-> t, tracker |-> k] : k \in Trackers(t)} : t \in Torrents}

(* Types of all variables.                                                 *)
TypeOK ==
    /\ process \in {"running", "undefined"}
    /\ at \in 0 .. TorrentCount
    /\ tr_state \in [Torrents -> {"DOWNLOADING", "FAILED"}]
    /\ active \in [Torrents -> Nat]
    /\ \A t \in Torrents : active[t] \in 1 .. Len(Schema[t]) + 1
    /\ DOMAIN track = Torrents
    /\ \A t \in Torrents : track[t] \in [Trackers(t) -> TrackStates]
    /\ expired \in [Torrents -> BOOLEAN]
    /\ \A r \in requests : r.tid \in Tids /\ [torrent |-> r.torrent, tracker |-> r.tracker] \in Sites
    /\ dns_args \in Sites \cup {NoArgs} /\ http_args \in Sites \cup {NoArgs}
    /\ queue \in Seq({"dns", "http"})
    /\ \A w \in Workers : worker[w] # Idle =>
          /\ worker[w].fn \in {"dns", "http"}
          /\ [torrent |-> worker[w].torrent, tracker |-> worker[w].tracker] \in Sites
          /\ worker[w].fn = "http" => Schema[worker[w].torrent][worker[w].tracker] = "http"
    /\ \A j \in DOMAIN pipe :
          [torrent |-> pipe[j].torrent, tracker |-> pipe[j].tracker] \in Sites
    /\ overwritten \in BOOLEAN

(* Until arguments are overwritten, a request in the table belongs to the   *)
(* active tracker of its torrent, which is a UDP tracker that waits for it, *)
(* and a torrent has one at most: the table of 128 has room for the 128     *)
(* torrents of a session, and no answer can reach a tracker given up.       *)
OneRequest ==
    ~overwritten =>
        /\ \A r, s \in requests : r.torrent = s.torrent => r = s
        /\ \A r \in requests :
              /\ r.tracker = active[r.torrent]
              /\ track[r.torrent][r.tracker] = "ANNOUNCING"
              /\ Schema[r.torrent][r.tracker] = "udp"

(* A UDP tracker that was given up stays so until the whole torrent starts  *)
(* anew, unless arguments were overwritten: no late answer revives it.      *)
GivenUpStays ==
    [][~overwritten =>
          \A t \in Torrents : \A k \in Trackers(t) :
              k < active[t] /\ Schema[t][k] = "udp" /\ track'[t][k] # track[t][k]
                  => tr_state[t] = "FAILED"]_vars

(* A name is being resolved for tracker k of torrent t.                     *)
Resolves(t, k) ==
    \/ \E j \in DOMAIN queue : queue[j] = "dns" /\ dns_args = [torrent |-> t, tracker |-> k]
    \/ \E w \in Workers : worker[w] = [fn |-> "dns", torrent |-> t, tracker |-> k]
    \/ \E j \in DOMAIN pipe : /\ pipe[j].type = "NOTIFY_DNS_RESOLVE"
                              /\ pipe[j].torrent = t /\ pipe[j].tracker = k

Stuck(t, k) == track[t][k] = "RESOLVING" /\ ~Resolves(t, k)

(* A tracker waits for a name nobody resolves, for ever, only after the     *)
(* arguments of its task were overwritten before a thread had read them.    *)
StuckOnlyThus ==
    [][\A t \in Torrents : \A k \in Trackers(t) :
          ~Stuck(t, k) /\ Stuck(t, k)' =>
             /\ dns_args = [torrent |-> t, tracker |-> k]
             /\ dns_args' # dns_args]_vars

(* Tracker k of torrent t answers an announce with CONNECT.                 *)
ConnectsAgain(t, k) ==
    \E r \in requests : r.torrent = t /\ r.tracker = k /\ answer_connect(r)

(* Whatever its tracker answers or fails to, a torrent gets an answer or    *)
(* goes on to the next tracker, until arguments are overwritten or wild     *)
(* pointers stop it all: but for one that answers each announce with        *)
(* CONNECT, for ever, each time before its 5 seconds are over.              *)
TriesNext ==
    \A t \in Torrents : \A k \in Trackers(t) :
        \/ active[t] = k ~> \/ track[t][k] = "ALIVE"
                            \/ active[t] # k
                            \/ overwritten
                            \/ process # "running"
        \/ []<><<ConnectsAgain(t, k)>>_vars

=============================================================================
