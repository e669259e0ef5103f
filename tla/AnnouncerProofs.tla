--------------------------- MODULE AnnouncerProofs ---------------------------
(***************************************************************************)
(* Proofs about Announcer, for any torrents, trackers and threads.          *)
(*                                                                         *)
(* OneRequest is not inductive: a name that is resolved late, or twice,     *)
(* would make a tracker idle while its request is in the table.  It needs   *)
(* that a resolution, wherever its task has got to (the queue, a thread or  *)
(* the pipe), is for the active tracker of a torrent that waits for it and  *)
(* is the only one of that torrent (Resolutions), and this holds only until *)
(* the arguments of a task are overwritten.                                 *)
(***************************************************************************)
EXTENDS Announcer, SequenceTheorems, TLAPS

Tasks == [fn : {"none", "dns", "http"}, torrent : Nat, tracker : Nat]
Results == [type : {"NOTIFY_DNS_RESOLVE", "NOTIFY_HTTP_RESPONSE"},
            torrent : Torrents, tracker : Nat, success : BOOLEAN]
Requests == [tid : Tids, torrent : Torrents, tracker : Nat]

(* A torrent and one of its trackers, and the schema of that tracker.        *)
IsSite(s) == s.torrent \in Torrents /\ s.tracker \in Trackers(s.torrent)
SchemaOf(s) == Schema[s.torrent][s.tracker]

(* No name of an HTTP tracker is resolved, and a torrent that failed is past *)
(* its last tracker.                                                        *)
TorrentsOK ==
    /\ tr_state \in [Torrents -> {"DOWNLOADING", "FAILED"}]
    /\ active \in [Torrents -> Nat]
    /\ \A t \in Torrents : active[t] \in 1 .. Len(Schema[t]) + 1
    /\ DOMAIN track = Torrents
    /\ \A t \in Torrents : track[t] \in [Trackers(t) -> TrackStates]
    /\ expired \in [Torrents -> BOOLEAN]
    /\ \A t \in Torrents : \A k \in Trackers(t) :
          Schema[t][k] = "http" => track[t][k] \notin {"NOT_RESOLVED", "RESOLVING"}
    /\ \A t \in Torrents : tr_state[t] = "FAILED" => active[t] = Len(Schema[t]) + 1

RequestsOK == requests \subseteq Requests /\ \A r \in requests : IsSite(r)

(* HTTP work is for HTTP trackers.                                          *)
TasksOK ==
    /\ dns_args \in Sites \cup {NoArgs}
    /\ http_args \in Sites \cup {NoArgs}
    /\ http_args # NoArgs => SchemaOf(http_args) = "http"
    /\ queue \in Seq({"dns", "http"})
    /\ worker \in [Workers -> Tasks]
    /\ \A w \in Workers : worker[w] # Idle =>
          /\ worker[w].fn \in {"dns", "http"}
          /\ IsSite(worker[w])
          /\ worker[w].fn = "http" => SchemaOf(worker[w]) = "http"
    /\ pipe \in Seq(Results)
    /\ \A j \in DOMAIN pipe :
          /\ IsSite(pipe[j])
          /\ pipe[j].type = "NOTIFY_HTTP_RESPONSE" => SchemaOf(pipe[j]) = "http"

TypeInv ==
    /\ process \in {"running", "undefined"}
    /\ at \in 0 .. TorrentCount
    /\ overwritten \in BOOLEAN
    /\ TorrentsOK /\ RequestsOK /\ TasksOK

(* Tracker k is the active one of torrent t and waits for its name.          *)
Waits(t, k) == k = active[t] /\ track[t][k] = "RESOLVING"
Awaits(s) == IsSite(s) /\ Waits(s.torrent, s.tracker)

DnsTask(w) == worker[w].fn = "dns"
DnsResult(j) == pipe[j].type = "NOTIFY_DNS_RESOLVE"

(* A kind of task is in the queue once, and its arguments are there.         *)
QueuedOK ==
    /\ \A i, j \in DOMAIN queue : queue[i] = queue[j] => i = j
    /\ Awaited("http") => http_args # NoArgs
    /\ Awaited("dns") =>
          /\ Awaits(dns_args)
          /\ \A w \in Workers : DnsTask(w) => worker[w].torrent # dns_args.torrent
          /\ \A j \in DOMAIN pipe : DnsResult(j) => pipe[j].torrent # dns_args.torrent

RunningOK ==
    \A w \in Workers : DnsTask(w) =>
        /\ Awaits(worker[w])
        /\ \A v \in Workers : DnsTask(v) /\ worker[v].torrent = worker[w].torrent => v = w
        /\ \A j \in DOMAIN pipe : DnsResult(j) => pipe[j].torrent # worker[w].torrent

ReportedOK ==
    \A j \in DOMAIN pipe : DnsResult(j) =>
        /\ Awaits(pipe[j])
        /\ \A i \in DOMAIN pipe : DnsResult(i) /\ pipe[i].torrent = pipe[j].torrent => i = j

Resolutions == QueuedOK /\ RunningOK /\ ReportedOK

ResolutionsInv == ~overwritten => Resolutions

IInv == TypeInv /\ ResolutionsInv /\ OneRequest

-----------------------------------------------------------------------------
(* Sites, and what the assignments of the actions change                    *)

LEMMA SitesAre ==
    /\ \A t, k : [torrent |-> t, tracker |-> k] \in Sites <=> t \in Torrents /\ k \in Trackers(t)
    /\ \A s \in Sites : IsSite(s) /\ s = [torrent |-> s.torrent, tracker |-> s.tracker]
    /\ NoArgs \notin Sites
<1>1. \A t, k : [torrent |-> t, tracker |-> k] \in Sites <=> t \in Torrents /\ k \in Trackers(t)
  <2> DEFINE Of(u) == {[torrent |-> u, tracker |-> l] : l \in Trackers(u)}
  <2>1. Sites = UNION {Of(u) : u \in Torrents}
    BY DEF Sites
  <2>2. \A t, k, u : [torrent |-> t, tracker |-> k] \in Of(u) <=> t = u /\ k \in Trackers(u)
    OBVIOUS
  <2> HIDE DEF Of
  <2>3. \A x : x \in Sites <=> \E u \in Torrents : x \in Of(u)
    BY <2>1
  <2> QED
    BY <2>2, <2>3
<1>2. \A s \in Sites : IsSite(s) /\ s = [torrent |-> s.torrent, tracker |-> s.tracker]
  BY DEF Sites, IsSite
<1>3. NoArgs \notin Sites
  BY <1>1, AnnouncerAssumption DEF NoArgs, Torrents
<1> QED
  BY <1>1, <1>2, <1>3

LEMMA Schemas ==
    ASSUME NEW t \in Torrents
    PROVE  /\ t \in Nat \ {0}
           /\ Schema[t] \in Seq({"udp", "http", "other"})
           /\ Len(Schema[t]) \in Nat \ {0}
           /\ Trackers(t) = 1 .. Len(Schema[t])
           /\ \A k \in Trackers(t) : Schema[t][k] \in {"udp", "http", "other"}
<1>1. t \in Nat \ {0}
  BY AnnouncerAssumption DEF Torrents
<1>2. Schema[t] \in Seq({"udp", "http", "other"}) /\ Schema[t] # <<>>
  BY AnnouncerAssumption
<1>3. Len(Schema[t]) \in Nat \ {0}
  BY <1>2, EmptySeq
<1> QED
  BY <1>1, <1>2, <1>3 DEF Trackers

LEMMA TypesImplied == TypeInv => TypeOK
<1> SUFFICES ASSUME TypeInv PROVE TypeOK
  OBVIOUS
<1>1. \A r \in requests : r.tid \in Tids /\ [torrent |-> r.torrent, tracker |-> r.tracker] \in Sites
  BY SitesAre DEF TypeInv, RequestsOK, Requests, IsSite
<1>2. \A w \in Workers : worker[w] # Idle =>
         /\ worker[w].fn \in {"dns", "http"}
         /\ [torrent |-> worker[w].torrent, tracker |-> worker[w].tracker] \in Sites
         /\ worker[w].fn = "http" => Schema[worker[w].torrent][worker[w].tracker] = "http"
  BY SitesAre DEF TypeInv, TasksOK, IsSite, SchemaOf
<1>3. \A j \in DOMAIN pipe : [torrent |-> pipe[j].torrent, tracker |-> pipe[j].tracker] \in Sites
  BY SitesAre DEF TypeInv, TasksOK, IsSite
<1> QED
  BY <1>1, <1>2, <1>3 DEF TypeOK, TypeInv, TorrentsOK, TasksOK

(* The state of one tracker is assigned.                                    *)
LEMMA TrackSet ==
    ASSUME TorrentsOK, NEW t \in Torrents, NEW k \in Trackers(t), NEW s \in TrackStates,
           SetTrack(t, k, s)
    PROVE  /\ DOMAIN track' = Torrents
           /\ \A u \in Torrents : track'[u] \in [Trackers(u) -> TrackStates]
           /\ track'[t][k] = s
           /\ \A u \in Torrents : \A l \in Trackers(u) :
                 u # t \/ l # k => track'[u][l] = track[u][l]
  BY DEF TorrentsOK, SetTrack

LEMMA TrackSetKeeps ==
    ASSUME TorrentsOK, NEW t \in Torrents, NEW k \in Trackers(t), NEW s \in TrackStates,
           SetTrack(t, k, s), UNCHANGED <<tr_state, active>>, expired' \in [Torrents -> BOOLEAN],
           Schema[t][k] = "http" => s \notin {"NOT_RESOLVED", "RESOLVING"}
    PROVE  TorrentsOK'
<1>1. \A u \in Torrents : \A l \in Trackers(u) :
         Schema[u][l] = "http" => track'[u][l] \notin {"NOT_RESOLVED", "RESOLVING"}
  BY TrackSet DEF TorrentsOK
<1> QED
  BY <1>1, TrackSet DEF TorrentsOK

(* The torrent goes on to its next tracker, or fails.                       *)
LEMMA NextTrackerKeeps ==
    ASSUME TorrentsOK, NEW t \in Torrents, active[t] \in Trackers(t), NextTracker(t)
    PROVE  /\ tr_state' \in [Torrents -> {"DOWNLOADING", "FAILED"}]
           /\ active' \in [Torrents -> Nat]
           /\ \A u \in Torrents : active'[u] \in 1 .. Len(Schema[u]) + 1
           /\ \A u \in Torrents : tr_state'[u] = "FAILED" => active'[u] = Len(Schema[u]) + 1
           /\ active'[t] = active[t] + 1
           /\ \A u \in Torrents \ {t} : active'[u] = active[u] /\ tr_state'[u] = tr_state[u]
<1>1. active[t] \in 1 .. Len(Schema[t]) /\ Len(Schema[t]) \in Nat
  BY Schemas
<1>2. active'[t] = active[t] + 1 /\ \A u \in Torrents \ {t} : active'[u] = active[u]
  BY DEF NextTracker, TorrentsOK
<1>3. /\ tr_state'[t] = IF active[t] = Len(Schema[t]) THEN "FAILED" ELSE tr_state[t]
      /\ \A u \in Torrents \ {t} : tr_state'[u] = tr_state[u]
      /\ tr_state' \in [Torrents -> {"DOWNLOADING", "FAILED"}]
  BY DEF NextTracker, TorrentsOK
<1>4. active' \in [Torrents -> Nat] /\ active'[t] \in 1 .. Len(Schema[t]) + 1
  BY <1>1, <1>2 DEF NextTracker, TorrentsOK
<1>5. tr_state'[t] = "FAILED" => active'[t] = Len(Schema[t]) + 1
  BY <1>1, <1>2, <1>3 DEF TorrentsOK
<1> QED
  BY <1>2, <1>3, <1>4, <1>5 DEF TorrentsOK

(* The tick goes on to the next torrent.                                    *)
LEMMA NextAt ==
    ASSUME NEW t \in Torrents, at' = (IF t = TorrentCount THEN 0 ELSE t + 1)
    PROVE  at' \in 0 .. TorrentCount
  BY AnnouncerAssumption DEF Torrents

LEMMA RequestAdded ==
    ASSUME NEW table, table \subseteq requests, RequestsOK, NEW t \in Torrents,
           NEW k \in Trackers(t), AddRequest(table, t, k)
    PROVE  /\ RequestsOK'
           /\ \E r \in Requests : requests' = table \cup {r} /\ r.torrent = t /\ r.tracker = k
<1>1. PICK tid \in Tids : requests' = table \cup {[tid |-> tid, torrent |-> t, tracker |-> k]}
  BY DEF AddRequest
<1> DEFINE r == [tid |-> tid, torrent |-> t, tracker |-> k]
<1>2. k \in Nat
  BY Schemas
<1>3. r \in Requests /\ r.torrent = t /\ r.tracker = k
  BY <1>2 DEF Requests
<1> HIDE DEF r
<1>4. requests' = table \cup {r}
  BY <1>1 DEF r
<1> QED
  BY <1>3, <1>4 DEF RequestsOK, IsSite

-----------------------------------------------------------------------------
(* Types                                                                    *)

LEMMA InitEstablishesTypes == Init => TypeInv
<1> SUFFICES ASSUME Init PROVE TypeInv
  OBVIOUS
<1>1. \A t \in Torrents : \A k \in Trackers(t) :
         /\ track[t][k] = FirstState(Schema[t][k])
         /\ FirstState(Schema[t][k]) \in TrackStates
         /\ Schema[t][k] = "http" => FirstState(Schema[t][k]) \notin {"NOT_RESOLVED", "RESOLVING"}
  BY DEF Init, FirstState, TrackStates
<1>2. \A t \in Torrents : track[t] \in [Trackers(t) -> TrackStates]
  BY <1>1 DEF Init
<1>3. TorrentsOK
  BY <1>1, <1>2, Schemas DEF Init, TorrentsOK
<1>4. RequestsOK
  BY DEF Init, RequestsOK
<1>5. <<>> \in Seq({"dns", "http"}) /\ <<>> \in Seq(Results) /\ DOMAIN <<>> = {}
  OBVIOUS
<1>6. TasksOK
  BY <1>5 DEF Init, TasksOK, Tasks, Idle
<1>7. 0 \in 0 .. TorrentCount
  BY AnnouncerAssumption
<1> QED
  BY <1>3, <1>4, <1>6, <1>7 DEF Init, TypeInv

(* A task is pushed for a tracker, its arguments in the frame of its kind.  *)
LEMMA Pushed ==
    ASSUME TasksOK, NEW t \in Torrents, NEW k \in Trackers(t), UNCHANGED <<worker, pipe>>,
           \/ /\ dns_args' = [torrent |-> t, tracker |-> k] /\ UNCHANGED http_args
              /\ queue' = Append(queue, "dns")
           \/ /\ http_args' = [torrent |-> t, tracker |-> k] /\ UNCHANGED dns_args
              /\ queue' = Append(queue, "http")
              /\ Schema[t][k] = "http"
    PROVE  TasksOK'
<1>1. [torrent |-> t, tracker |-> k] \in Sites
  BY SitesAre
<1>2. queue' \in Seq({"dns", "http"})
  <2>1. queue \in Seq({"dns", "http"})
    BY DEF TasksOK
  <2>2. PICK fn \in {"dns", "http"} : queue' = Append(queue, fn)
    OBVIOUS
  <2> QED
    BY ONLY <2>1, <2>2, AppendProperties
<1>3. /\ dns_args' \in Sites \cup {NoArgs} /\ http_args' \in Sites \cup {NoArgs}
      /\ http_args' # NoArgs => SchemaOf(http_args') = "http"
  BY <1>1 DEF TasksOK, SchemaOf
<1> QED
  BY <1>2, <1>3 DEF TasksOK

LEMMA TickTypes ==
    ASSUME TypeInv, NEW t \in Torrents, TickStep(t)
    PROVE  TypeInv'
<1> USE DEF TypeInv
<1> DEFINE k == active[t]
<1>1. ASSUME NEW states, Tick(t, states)
      PROVE  at' \in 0 .. TorrentCount /\ k \in Trackers(t) /\ track[t][k] \in states
  BY <1>1, NextAt DEF Tick
<1>2. CASE tick_resolve(t)
  <2>1. /\ at' \in 0 .. TorrentCount /\ k \in Trackers(t) /\ Schema[t][k] # "http"
    BY <1>1, <1>2 DEF tick_resolve, TorrentsOK
  <2>0. expired' \in [Torrents -> BOOLEAN]
    BY <1>2 DEF tick_resolve, TorrentsOK
  <2>2. TorrentsOK'
    BY <1>2, <2>1, <2>0, TrackSetKeeps DEF tick_resolve, TrackStates
  <2>3. TasksOK'
    BY <1>2, <2>1, Pushed DEF tick_resolve
  <2> QED
    BY <1>2, <2>1, <2>2, <2>3 DEF tick_resolve, RequestsOK
<1>3. CASE tick_nothing(t)
  BY <1>1, <1>3 DEF tick_nothing, TorrentsOK, RequestsOK, TasksOK, torrentVars, taskVars
<1>4. CASE tick_announce(t)
  <2>1. at' \in 0 .. TorrentCount /\ k \in Trackers(t)
    BY <1>1, <1>4 DEF tick_announce
  <2>0. expired' \in [Torrents -> BOOLEAN]
    BY <1>4 DEF tick_announce, TorrentsOK
  <2>2. TorrentsOK'
    BY <1>4, <2>1, <2>0, TrackSetKeeps DEF tick_announce, TrackStates
  <2>3. CASE Schema[t][k] = "udp"
    <3>1. AddRequest(requests, t, k) /\ UNCHANGED <<http_args, queue, overwritten>>
      BY <1>4, <2>3 DEF tick_announce
    <3>2. RequestsOK'
      BY <2>1, <3>1, RequestAdded
    <3> QED
      BY <1>4, <2>1, <2>2, <3>1, <3>2 DEF tick_announce, TasksOK
  <2>4. CASE Schema[t][k] = "http"
    <3>1. /\ http_args' = [torrent |-> t, tracker |-> k]
          /\ queue' = Append(queue, "http")
          /\ overwritten' = (overwritten \/ Awaited("http"))
          /\ UNCHANGED requests
      BY <1>4, <2>4 DEF tick_announce
    <3>2. TasksOK'
      BY <1>4, <2>1, <2>4, <3>1, Pushed DEF tick_announce
    <3> QED
      BY <1>4, <2>1, <2>2, <3>1, <3>2 DEF tick_announce, RequestsOK
  <2>5. CASE Schema[t][k] \notin {"udp", "http"}
    <3>1. UNCHANGED <<requests, http_args, queue, overwritten>>
      BY <1>4, <2>5 DEF tick_announce
    <3> QED
      BY <1>4, <2>1, <2>2, <3>1 DEF tick_announce, RequestsOK, TasksOK
  <2> QED
    BY <2>3, <2>4, <2>5
<1>5. CASE tick_timeout(t)
  <2>1. at' \in 0 .. TorrentCount /\ k \in Trackers(t)
    BY <1>1, <1>5 DEF tick_timeout
  <2>2. /\ DOMAIN track' = Torrents
        /\ \A u \in Torrents : track'[u] \in [Trackers(u) -> TrackStates]
        /\ track'[t][k] = "FAILED"
        /\ \A u \in Torrents : \A l \in Trackers(u) :
              u # t \/ l # k => track'[u][l] = track[u][l]
    BY <1>5, <2>1, TrackSet DEF tick_timeout, TrackStates
  <2>3. TorrentsOK'
    BY <1>5, <2>1, <2>2, NextTrackerKeeps DEF tick_timeout, TorrentsOK
  <2> QED
    BY <1>5, <2>1, <2>3 DEF tick_timeout, Without, RequestsOK, TasksOK, taskVars
<1>6. CASE tick_failed(t)
  <2>1. at' \in 0 .. TorrentCount /\ k \in Trackers(t)
    BY <1>1, <1>6 DEF tick_failed
  <2>2. TorrentsOK'
    BY <1>6, <2>1, NextTrackerKeeps DEF tick_failed, TorrentsOK
  <2> QED
    BY <1>6, <2>1, <2>2 DEF tick_failed, RequestsOK, TasksOK, taskVars
<1>7. CASE tick_restart(t)
  <2>1. at' \in 0 .. TorrentCount
    BY <1>7, NextAt DEF tick_restart
  <2>2. \A l \in Trackers(t) : /\ ResetState(Schema[t][l]) \in TrackStates
                               /\ Schema[t][l] = "http" => ResetState(Schema[t][l]) = "IDLE"
    BY DEF ResetState, TrackStates
  <2>3. /\ DOMAIN track' = Torrents
        /\ track'[t] = [l \in Trackers(t) |-> ResetState(Schema[t][l])]
        /\ \A u \in Torrents \ {t} : track'[u] = track[u]
    BY <1>7 DEF tick_restart, TorrentsOK
  <2>4. \A u \in Torrents : track'[u] \in [Trackers(u) -> TrackStates]
    BY <2>2, <2>3 DEF TorrentsOK
  <2>5. \A u \in Torrents : \A l \in Trackers(u) :
           Schema[u][l] = "http" => track'[u][l] \notin {"NOT_RESOLVED", "RESOLVING"}
    BY <2>2, <2>3 DEF TorrentsOK
  <2>6. TorrentsOK'
    BY <1>7, <2>3, <2>4, <2>5 DEF tick_restart, TorrentsOK
  <2> QED
    BY <1>7, <2>1, <2>6 DEF tick_restart, RequestsOK, TasksOK, taskVars
<1>8. CASE tick_past_end(t)
  BY <1>8, NextAt DEF tick_past_end, TorrentsOK, RequestsOK, TasksOK, torrentVars, taskVars
<1> QED
  BY <1>2, <1>3, <1>4, <1>5, <1>6, <1>7, <1>8 DEF TickStep

LEMMA AnswerTypes ==
    ASSUME TypeInv, NEW r \in requests, UDP_readable(r)
    PROVE  TypeInv'
<1> USE DEF TypeInv
<1>1. r.torrent \in Torrents /\ r.tracker \in Trackers(r.torrent)
  BY DEF RequestsOK, IsSite
<1>2. CASE answer_connect(r)
  <2>0. expired' \in [Torrents -> BOOLEAN]
    BY <1>2 DEF answer_connect, TorrentsOK
  <2>1. TorrentsOK'
    BY <1>1, <1>2, <2>0, TrackSetKeeps DEF answer_connect, TrackStates
  <2>2. RequestsOK'
    BY <1>1, <1>2, RequestAdded DEF answer_connect
  <2> QED
    BY <1>2, <2>1, <2>2 DEF answer_connect, TasksOK, taskVars
<1>3. CASE answer_announce(r) \/ answer_error(r)
  <2>0. expired' \in [Torrents -> BOOLEAN]
    BY <1>3 DEF answer_announce, answer_error, TorrentsOK
  <2>1. TorrentsOK'
    BY <1>1, <1>3, <2>0, TrackSetKeeps DEF answer_announce, answer_error, TrackStates
  <2> QED
    BY <1>3, <2>1 DEF answer_announce, answer_error, RequestsOK, TasksOK, taskVars
<1>4. CASE answer_connect_past_end(r) \/ answer_other(r)
  BY <1>4 DEF answer_connect_past_end, answer_other, TorrentsOK, RequestsOK, TasksOK,
              torrentVars, taskVars
<1> QED
  BY <1>2, <1>3, <1>4 DEF UDP_readable

(* What a thread is given, or reports.                                      *)
LEMMA WorkerTypes ==
    ASSUME TypeInv, NEW w \in Workers, WorkerStep(w)
    PROVE  TypeInv'
<1> USE DEF TypeInv
<1>1. CASE take_task(w)
  <2> DEFINE args == Args(Head(queue))
             new == [fn |-> Head(queue), torrent |-> args.torrent, tracker |-> args.tracker]
  <2>1. queue \in Seq({"dns", "http"}) /\ queue # <<>>
    BY <1>1 DEF take_task, TasksOK
  <2>2. Head(queue) \in {"dns", "http"} /\ Tail(queue) \in Seq({"dns", "http"})
    BY <2>1
  <2>3. args \in Sites /\ (Head(queue) = "http" => SchemaOf(args) = "http")
    BY <1>1, <2>2 DEF take_task, TasksOK, Args
  <2>4. args.torrent \in Torrents /\ args.tracker \in Trackers(args.torrent)
    BY <2>3, SitesAre DEF IsSite
  <2>5. args.torrent \in Nat /\ args.tracker \in Nat
    BY <2>4, Schemas
  <2>6. worker' = [worker EXCEPT ![w] = new] /\ queue' = Tail(queue)
    BY <1>1 DEF take_task
  <2> HIDE DEF args
  <2>7. new \in Tasks /\ IsSite(new) /\ (new.fn = "http" => SchemaOf(new) = "http") /\ new.fn = Head(queue)
    BY <2>2, <2>3, <2>4, <2>5 DEF Tasks, IsSite, SchemaOf
  <2> HIDE DEF new
  <2>8. worker' \in [Workers -> Tasks]
    BY <2>6, <2>7 DEF TasksOK
  <2>9. \A v \in Workers : worker'[v] # Idle =>
          /\ worker'[v].fn \in {"dns", "http"}
          /\ IsSite(worker'[v])
          /\ worker'[v].fn = "http" => SchemaOf(worker'[v]) = "http"
    <3> TAKE v \in Workers
    <3>1. worker'[v] = IF v = w THEN new ELSE worker[v]
      BY <2>6 DEF TasksOK
    <3>2. CASE v = w
      BY <2>2, <2>7, <3>1, <3>2
    <3>3. CASE v # w
      BY <3>1, <3>3 DEF TasksOK
    <3> QED
      BY <3>2, <3>3
  <2>10. TasksOK'
    BY <1>1, <2>2, <2>6, <2>8, <2>9 DEF take_task, TasksOK
  <2> QED
    BY <1>1, <2>10 DEF take_task, TorrentsOK, RequestsOK, torrentVars
<1>2. CASE take_garbage(w) \/ http_peers_copied(w)
  BY <1>2 DEF take_garbage, http_peers_copied, TorrentsOK, RequestsOK, TasksOK,
              torrentVars, taskVars
<1>3. ASSUME NEW fn \in {"dns", "http"}, worker[w].fn = fn, NEW success \in BOOLEAN,
             NEW type \in {"NOTIFY_DNS_RESOLVE", "NOTIFY_HTTP_RESPONSE"},
             type = "NOTIFY_HTTP_RESPONSE" => fn = "http",
             Report(w, type, success), UNCHANGED <<dns_args, http_args, queue>>
      PROVE  TasksOK'
  <2> DEFINE result == [type |-> type, torrent |-> worker[w].torrent,
                        tracker |-> worker[w].tracker, success |-> success]
  <2>1. worker[w] \in Tasks /\ worker[w] # Idle
    BY <1>3 DEF TasksOK, Idle
  <2>2. /\ IsSite(worker[w])
        /\ type = "NOTIFY_HTTP_RESPONSE" => SchemaOf(worker[w]) = "http"
    BY <1>3, <2>1 DEF TasksOK
  <2>3. /\ result \in Results /\ IsSite(result)
        /\ result.type = "NOTIFY_HTTP_RESPONSE" => SchemaOf(result) = "http"
    BY <2>1, <2>2 DEF Results, Tasks, IsSite, SchemaOf
  <2>4. pipe \in Seq(Results) /\ pipe' = Append(pipe, result)
    BY <1>3 DEF Report, TasksOK
  <2>5. worker' = [worker EXCEPT ![w] = Idle]
    BY <1>3 DEF Report
  <2> HIDE DEF result
  <2>6. pipe' \in Seq(Results) /\ DOMAIN pipe' = 1 .. Len(pipe) + 1 /\ DOMAIN pipe = 1 .. Len(pipe)
    BY <2>3, <2>4
  <2>7. pipe'[Len(pipe) + 1] = result /\ \A j \in DOMAIN pipe : pipe'[j] = pipe[j]
    BY <2>3, <2>4
  <2>8. \A j \in DOMAIN pipe' : j \in DOMAIN pipe \/ j = Len(pipe) + 1
    BY <2>4, <2>6
  <2>9. \A j \in DOMAIN pipe' :
           /\ IsSite(pipe'[j])
           /\ pipe'[j].type = "NOTIFY_HTTP_RESPONSE" => SchemaOf(pipe'[j]) = "http"
    BY <2>3, <2>7, <2>8 DEF TasksOK
  <2>10. worker' \in [Workers -> Tasks] /\ \A v \in Workers \ {w} : worker'[v] = worker[v]
    BY <2>5 DEF TasksOK, Tasks, Idle
  <2>11. worker'[w] = Idle
    BY <2>5 DEF TasksOK
  <2> QED
    BY <1>3, <2>6, <2>9, <2>10, <2>11 DEF TasksOK
<1>4. CASE task_resolve_DNS(w)
  BY <1>3, <1>4 DEF task_resolve_DNS, TorrentsOK, RequestsOK, torrentVars
<1>5. CASE task_HTTP_announce(w)
  BY <1>3, <1>5 DEF task_HTTP_announce, TorrentsOK, RequestsOK, torrentVars
<1> QED
  BY <1>1, <1>2, <1>4, <1>5 DEF WorkerStep

LEMMA ResultTypes ==
    ASSUME TypeInv, notify_pipe_readable
    PROVE  TypeInv'
<1> USE DEF TypeInv
<1> DEFINE h == Head(pipe)
<1>1. pipe \in Seq(Results) /\ pipe # <<>>
  BY DEF notify_pipe_readable, TasksOK
<1>2. /\ Len(pipe) \in Nat \ {0} /\ h = pipe[1] /\ 1 \in DOMAIN pipe
      /\ pipe' = Tail(pipe) /\ Tail(pipe) \in Seq(Results)
      /\ DOMAIN pipe' = 1 .. Len(pipe) - 1
      /\ \A j \in DOMAIN pipe' : pipe'[j] = pipe[j + 1] /\ j + 1 \in DOMAIN pipe
  BY <1>1, EmptySeq DEF notify_pipe_readable
<1>3. h.torrent \in Torrents /\ h.tracker \in Trackers(h.torrent) /\ h \in Results
  BY <1>1, <1>2 DEF TasksOK, IsSite
<1>4. StateAfter(h) \in TrackStates /\ StateAfter(h) \notin {"NOT_RESOLVED", "RESOLVING"}
  BY DEF StateAfter, TrackStates
<1>0. expired' \in [Torrents -> BOOLEAN]
  BY DEF notify_pipe_readable, TorrentsOK
<1>5. TorrentsOK'
  BY <1>0, <1>3, <1>4, TrackSetKeeps DEF notify_pipe_readable
<1>6. TasksOK'
  BY <1>2 DEF notify_pipe_readable, TasksOK
<1> QED
  BY <1>5, <1>6 DEF notify_pipe_readable, RequestsOK

LEMMA StepKeepsTypes ==
    ASSUME TypeInv, [Next]_vars
    PROVE  TypeInv'
<1> USE DEF TypeInv
<1>1. CASE client_timer
  BY <1>1, AnnouncerAssumption DEF client_timer, TorrentsOK, RequestsOK, TasksOK, torrentVars, taskVars
<1>2. CASE stack_reused
  BY <1>2 DEF stack_reused, TorrentsOK, RequestsOK, TasksOK, torrentVars
<1>3. CASE UNCHANGED vars
  BY <1>3 DEF vars, TorrentsOK, RequestsOK, TasksOK, torrentVars, taskVars
<1>4. CASE \E t \in Torrents : five_seconds_pass(t)
  BY <1>4 DEF five_seconds_pass, TorrentsOK, RequestsOK, TasksOK, taskVars
<1> QED
  BY <1>1, <1>2, <1>3, <1>4, TickTypes, AnswerTypes, WorkerTypes, ResultTypes DEF Next

(* The variables keep their types, and every task, request and result is    *)
(* for a tracker that there is: the index of the active one may be past the *)
(* last, by one.                                                            *)
THEOREM AnnouncerTypeCorrect == Spec => []TypeOK
<1>1. TypeInv /\ [Next]_vars => TypeInv'
  BY StepKeepsTypes
<1> QED
  BY InitEstablishesTypes, TypesImplied, <1>1, PTL DEF Spec

-----------------------------------------------------------------------------
(* Trackers that resolve for ever                                           *)

(* Where the parts of a step leave the queue, the threads and the pipe.     *)
LEMMA QueueSteps ==
    ASSUME TypeInv, Next
    PROVE  \/ UNCHANGED queue
           \/ \E fn \in {"dns", "http"} : queue' = Append(queue, fn) /\ UNCHANGED <<worker, pipe>>
           \/ \E w \in Workers : take_task(w)
  BY DEF Next, TickStep, UDP_readable, WorkerStep, client_timer, five_seconds_pass, stack_reused,
         notify_pipe_readable,
         tick_resolve, tick_nothing, tick_announce, tick_timeout, tick_failed, tick_restart,
         tick_past_end, answer_connect, answer_connect_past_end, answer_announce, answer_error,
         answer_other, take_garbage, task_resolve_DNS, task_HTTP_announce, http_peers_copied, taskVars

LEMMA WorkerSteps ==
    ASSUME TypeInv, Next
    PROVE  \/ UNCHANGED worker
           \/ \E w \in Workers : take_task(w) \/ task_resolve_DNS(w) \/ task_HTTP_announce(w)
  BY DEF Next, TickStep, UDP_readable, WorkerStep, client_timer, five_seconds_pass, stack_reused,
         notify_pipe_readable,
         tick_resolve, tick_nothing, tick_announce, tick_timeout, tick_failed, tick_restart,
         tick_past_end, answer_connect, answer_connect_past_end, answer_announce, answer_error,
         answer_other, take_garbage, http_peers_copied, taskVars

LEMMA PipeSteps ==
    ASSUME TypeInv, Next
    PROVE  \/ UNCHANGED pipe
           \/ \E w \in Workers : task_resolve_DNS(w) \/ task_HTTP_announce(w)
           \/ notify_pipe_readable
  BY DEF Next, TickStep, UDP_readable, WorkerStep, client_timer, five_seconds_pass, stack_reused,
         tick_resolve, tick_nothing, tick_announce, tick_timeout, tick_failed, tick_restart,
         tick_past_end, answer_connect, answer_connect_past_end, answer_announce, answer_error,
         answer_other, take_task, take_garbage, http_peers_copied, taskVars

(* What a thread takes from the queue.                                      *)
LEMMA TakeTask ==
    ASSUME TasksOK, NEW w \in Workers, take_task(w)
    PROVE  /\ worker[w] = Idle /\ Len(queue) \in Nat \ {0} /\ DOMAIN queue = 1 .. Len(queue)
           /\ queue' \in Seq({"dns", "http"}) /\ DOMAIN queue' = 1 .. Len(queue) - 1
           /\ \A j \in DOMAIN queue' : queue'[j] = queue[j + 1] /\ j + 1 \in DOMAIN queue
           /\ \A j \in DOMAIN queue : j # 1 => j - 1 \in DOMAIN queue'
           /\ worker'[w] = [fn |-> queue[1], torrent |-> Args(queue[1]).torrent,
                            tracker |-> Args(queue[1]).tracker]
           /\ \A v \in Workers \ {w} : worker'[v] = worker[v]
<1>1. queue \in Seq({"dns", "http"}) /\ queue # <<>> /\ queue' = Tail(queue) /\ worker[w] = Idle
  BY DEF take_task, TasksOK
<1>2. Len(queue) \in Nat \ {0} /\ Head(queue) = queue[1] /\ DOMAIN queue = 1 .. Len(queue)
  BY <1>1, EmptySeq
<1>3. /\ queue' \in Seq({"dns", "http"}) /\ Len(queue') = Len(queue) - 1
      /\ \A j \in 1 .. Len(queue) - 1 : queue'[j] = queue[j + 1]
  BY <1>1, HeadTailProperties
<1>4. DOMAIN queue' = 1 .. Len(queue) - 1
  BY <1>2, <1>3
<1>5. /\ worker'[w] = [fn |-> queue[1], torrent |-> Args(queue[1]).torrent,
                       tracker |-> Args(queue[1]).tracker]
      /\ \A v \in Workers \ {w} : worker'[v] = worker[v]
  BY <1>2 DEF take_task, TasksOK
<1> QED
  BY <1>1, <1>2, <1>3, <1>4, <1>5

(* What a thread writes to the pipe.                                        *)
LEMMA Reported ==
    ASSUME TasksOK, NEW w \in Workers, NEW type, NEW success, Report(w, type, success)
    PROVE  /\ worker'[w] = Idle /\ \A v \in Workers \ {w} : worker'[v] = worker[v]
           /\ Len(pipe) \in Nat /\ DOMAIN pipe = 1 .. Len(pipe)
           /\ DOMAIN pipe' = 1 .. Len(pipe) + 1
           /\ \A j \in DOMAIN pipe : j \in DOMAIN pipe' /\ pipe'[j] = pipe[j]
           /\ pipe'[Len(pipe) + 1] = [type |-> type, torrent |-> worker[w].torrent,
                                      tracker |-> worker[w].tracker, success |-> success]
<1> DEFINE result == [type |-> type, torrent |-> worker[w].torrent,
                      tracker |-> worker[w].tracker, success |-> success]
<1>1. pipe \in Seq(Results) /\ pipe' = Append(pipe, result)
  BY DEF Report, TasksOK
<1>2. worker'[w] = Idle /\ \A v \in Workers \ {w} : worker'[v] = worker[v]
  BY DEF Report, TasksOK
<1> HIDE DEF result
<1>3. pipe \in Seq(Results \cup {result})
  BY <1>1, SeqMonotonic
<1>4. /\ Len(pipe) \in Nat /\ DOMAIN pipe = 1 .. Len(pipe)
      /\ DOMAIN pipe' = 1 .. Len(pipe) + 1
      /\ \A j \in 1 .. Len(pipe) : pipe'[j] = pipe[j]
      /\ pipe'[Len(pipe) + 1] = result
  BY <1>1, <1>3
<1>5. \A j \in DOMAIN pipe : j \in DOMAIN pipe'
  BY <1>4
<1> QED
  BY <1>2, <1>4, <1>5 DEF result

(* What notify_pipe_readable reads and leaves.                              *)
LEMMA PipeRead ==
    ASSUME TasksOK, notify_pipe_readable
    PROVE  /\ Len(pipe) \in Nat \ {0} /\ DOMAIN pipe = 1 .. Len(pipe)
           /\ DOMAIN pipe' = 1 .. Len(pipe) - 1
           /\ \A j \in DOMAIN pipe' : pipe'[j] = pipe[j + 1] /\ j + 1 \in DOMAIN pipe
           /\ \A j \in DOMAIN pipe : j # 1 => j - 1 \in DOMAIN pipe'
           /\ SetTrack(pipe[1].torrent, pipe[1].tracker, StateAfter(pipe[1]))
           /\ IsSite(pipe[1]) /\ 1 \in DOMAIN pipe
           /\ StateAfter(pipe[1]) \in TrackStates \ {"NOT_RESOLVED", "RESOLVING", "ANNOUNCING"}
<1>1. pipe \in Seq(Results) /\ pipe # <<>> /\ pipe' = Tail(pipe)
  BY DEF notify_pipe_readable, TasksOK
<1>2. Len(pipe) \in Nat \ {0} /\ Head(pipe) = pipe[1] /\ DOMAIN pipe = 1 .. Len(pipe)
  BY <1>1, EmptySeq
<1>3. /\ Tail(pipe) \in Seq(Results) /\ Len(pipe') = Len(pipe) - 1
      /\ \A j \in 1 .. Len(pipe) - 1 : pipe'[j] = pipe[j + 1]
  BY <1>1, HeadTailProperties
<1>4. DOMAIN pipe' = 1 .. Len(pipe) - 1
  BY <1>1, <1>2, <1>3
<1>5. StateAfter(pipe[1]) \in TrackStates \ {"NOT_RESOLVED", "RESOLVING", "ANNOUNCING"}
  BY DEF StateAfter, TrackStates
<1> QED
  BY <1>1, <1>2, <1>3, <1>4, <1>5 DEF notify_pipe_readable, TasksOK

(* Only the tick makes a tracker wait for its name, and pushes the task.     *)
LEMMA BecomesResolving ==
    ASSUME TypeInv, Next, NEW t \in Torrents, NEW k \in Trackers(t),
           track[t][k] # "RESOLVING", track'[t][k] = "RESOLVING"
    PROVE  tick_resolve(t) /\ k = active[t]
<1> USE DEF TypeInv
<1>1. ASSUME NEW u \in Torrents, NEW l \in Trackers(u), NEW s \in TrackStates,
             SetTrack(u, l, s), s # "RESOLVING"
      PROVE  FALSE
  BY <1>1, TrackSet
<1>2. ASSUME track' = track PROVE FALSE
  BY <1>2
<1>3. ASSUME NEW u \in Torrents, TickStep(u) PROVE tick_resolve(t) /\ k = active[t]
  <2>1. CASE tick_resolve(u)
    <3>1. active[u] \in Trackers(u) /\ SetTrack(u, active[u], "RESOLVING")
      BY <2>1 DEF tick_resolve, Tick
    <3>2. t = u /\ k = active[u]
      BY <3>1, TrackSet DEF TrackStates
    <3> QED
      BY <2>1, <3>2
  <2>2. CASE tick_announce(u)
    <3>1. active[u] \in Trackers(u) /\ SetTrack(u, active[u], "ANNOUNCING")
      BY <2>2 DEF tick_announce, Tick
    <3> QED
      BY <1>1, <3>1 DEF TrackStates
  <2>3. CASE tick_timeout(u)
    <3>1. active[u] \in Trackers(u) /\ SetTrack(u, active[u], "FAILED")
      BY <2>3 DEF tick_timeout, Tick
    <3> QED
      BY <1>1, <3>1 DEF TrackStates
  <2>4. CASE tick_nothing(u) \/ tick_failed(u) \/ tick_past_end(u)
    BY <1>2, <2>4 DEF tick_nothing, tick_failed, tick_past_end, torrentVars
  <2>5. CASE tick_restart(u)
    <3>1. \A l \in Trackers(u) : ResetState(Schema[u][l]) # "RESOLVING"
      BY DEF ResetState
    <3> QED
      BY <2>5, <3>1 DEF tick_restart, TorrentsOK
  <2> QED
    BY <1>3, <2>1, <2>2, <2>3, <2>4, <2>5 DEF TickStep
<1>4. ASSUME NEW r \in requests, UDP_readable(r) PROVE FALSE
  <2>1. r.torrent \in Torrents /\ r.tracker \in Trackers(r.torrent)
    BY DEF RequestsOK, IsSite
  <2> QED
    BY <1>1, <1>2, <1>4, <2>1 DEF UDP_readable, answer_connect, answer_connect_past_end,
       answer_announce, answer_error, answer_other, torrentVars, TrackStates
<1>5. ASSUME NEW w \in Workers, WorkerStep(w) PROVE FALSE
  BY <1>2, <1>5 DEF WorkerStep, take_task, take_garbage, task_resolve_DNS, task_HTTP_announce,
     http_peers_copied, torrentVars
<1>6. CASE notify_pipe_readable
  BY <1>1, <1>6, PipeRead DEF IsSite
<1>7. CASE client_timer \/ stack_reused \/ \E u \in Torrents : five_seconds_pass(u)
  BY <1>2, <1>7 DEF client_timer, stack_reused, five_seconds_pass, torrentVars
<1> QED
  BY <1>3, <1>4, <1>5, <1>6, <1>7 DEF Next

(* A resolution goes from the queue to a thread, to the pipe, and to the     *)
(* tracker's state, and is lost only with its arguments.                    *)
LEMMA ResolutionStays ==
    ASSUME TypeInv, Next, NEW t \in Torrents, NEW k \in Trackers(t), Resolves(t, k),
           dns_args = [torrent |-> t, tracker |-> k] => dns_args' = dns_args
    PROVE  Resolves(t, k)' \/ track'[t][k] # "RESOLVING"
<1> USE DEF TypeInv
<1>1. CASE \E j \in DOMAIN queue : queue[j] = "dns" /\ dns_args = [torrent |-> t, tracker |-> k]
  <2>1. PICK j \in DOMAIN queue : queue[j] = "dns"
    BY <1>1
  <2>2. dns_args = [torrent |-> t, tracker |-> k] /\ dns_args' = dns_args
    BY <1>1
  <2>3. CASE UNCHANGED queue
    BY <2>1, <2>2, <2>3 DEF Resolves
  <2>4. ASSUME NEW fn \in {"dns", "http"}, queue' = Append(queue, fn) PROVE Resolves(t, k)'
    <3>1. j \in DOMAIN queue' /\ queue'[j] = queue[j]
      BY <2>4 DEF TasksOK
    <3> QED
      BY <2>1, <2>2, <3>1 DEF Resolves
  <2>5. ASSUME NEW w \in Workers, take_task(w) PROVE Resolves(t, k)'
    <3>1. CASE j = 1
      <4>1. worker'[w] = [fn |-> "dns", torrent |-> t, tracker |-> k]
        BY <2>1, <2>2, <2>5, <3>1, TakeTask DEF Args
      <4> QED
        BY <4>1 DEF Resolves
    <3>2. CASE j # 1
      <4>1. j - 1 \in DOMAIN queue' /\ queue'[j - 1] = queue[(j - 1) + 1]
        BY <2>1, <2>5, <3>2, TakeTask
      <4>2. (j - 1) + 1 = j
        BY <2>1, <2>5, TakeTask
      <4> QED
        BY <2>1, <2>2, <4>1, <4>2 DEF Resolves
    <3> QED
      BY <3>1, <3>2
  <2> QED
    BY <2>3, <2>4, <2>5, QueueSteps
<1>2. CASE \E w \in Workers : worker[w] = [fn |-> "dns", torrent |-> t, tracker |-> k]
  <2>1. PICK w \in Workers : worker[w] = [fn |-> "dns", torrent |-> t, tracker |-> k]
    BY <1>2
  <2>2. worker[w] # Idle /\ worker[w].fn = "dns" /\ worker[w].torrent = t /\ worker[w].tracker = k
    BY <2>1 DEF Idle
  <2>3. CASE worker'[w] = worker[w]
    BY <2>1, <2>3 DEF Resolves
  <2>4. ASSUME NEW v \in Workers, take_task(v) PROVE worker'[w] = worker[w]
    BY <2>2, <2>4, TakeTask
  <2>5. ASSUME NEW v \in Workers, task_resolve_DNS(v) \/ task_HTTP_announce(v),
               worker'[w] # worker[w]
        PROVE  Resolves(t, k)'
    <3>1. PICK type, success : Report(v, type, success)
      BY <2>5 DEF task_resolve_DNS, task_HTTP_announce
    <3>2. v = w
      BY <2>5, <3>1, Reported
    <3>3. PICK ok \in BOOLEAN : Report(w, "NOTIFY_DNS_RESOLVE", ok)
      BY <2>2, <2>5, <3>2 DEF task_resolve_DNS, task_HTTP_announce
    <3> DEFINE j == Len(pipe) + 1
    <3>4. j \in DOMAIN pipe' /\ pipe'[j] = [type |-> "NOTIFY_DNS_RESOLVE", torrent |-> t,
                                           tracker |-> k, success |-> ok]
      BY <2>2, <3>3, Reported
    <3>5. pipe'[j].type = "NOTIFY_DNS_RESOLVE" /\ pipe'[j].torrent = t /\ pipe'[j].tracker = k
      BY <3>4
    <3> HIDE DEF j
    <3> QED
      BY <3>4, <3>5 DEF Resolves
  <2> QED
    BY <2>3, <2>4, <2>5, WorkerSteps
<1>3. CASE \E j \in DOMAIN pipe : /\ pipe[j].type = "NOTIFY_DNS_RESOLVE"
                                 /\ pipe[j].torrent = t /\ pipe[j].tracker = k
  <2>1. PICK j \in DOMAIN pipe : /\ pipe[j].type = "NOTIFY_DNS_RESOLVE"
                                 /\ pipe[j].torrent = t /\ pipe[j].tracker = k
    BY <1>3
  <2>2. CASE UNCHANGED pipe
    BY <2>1, <2>2 DEF Resolves
  <2>3. ASSUME NEW v \in Workers, task_resolve_DNS(v) \/ task_HTTP_announce(v)
        PROVE  Resolves(t, k)'
    <3>1. PICK type, success : Report(v, type, success)
      BY <2>3 DEF task_resolve_DNS, task_HTTP_announce
    <3>2. j \in DOMAIN pipe' /\ pipe'[j] = pipe[j]
      BY <3>1, Reported
    <3> QED
      BY <2>1, <3>2 DEF Resolves
  <2>4. CASE notify_pipe_readable
    <3>1. CASE j = 1
      BY <2>1, <2>4, <3>1, PipeRead, TrackSet
    <3>2. CASE j # 1
      <4>1. j - 1 \in DOMAIN pipe' /\ pipe'[j - 1] = pipe[(j - 1) + 1]
        BY <2>1, <2>4, <3>2, PipeRead
      <4>2. (j - 1) + 1 = j
        BY <2>1, <2>4, PipeRead
      <4> QED
        BY <2>1, <4>1, <4>2 DEF Resolves
    <3> QED
      BY <3>1, <3>2
  <2> QED
    BY <2>2, <2>3, <2>4, PipeSteps
<1> QED
  BY <1>1, <1>2, <1>3 DEF Resolves

(* A tracker comes to wait for ever only when the arguments of its task are  *)
(* overwritten before a thread has read them.                               *)
THEOREM StuckByArgumentsOnly == Spec => StuckOnlyThus
<1> DEFINE Overwrites(t, k) == /\ dns_args = [torrent |-> t, tracker |-> k]
                               /\ dns_args' # dns_args
<1>1. ASSUME TypeInv, Next, NEW t \in Torrents, NEW k \in Trackers(t),
             ~Stuck(t, k), Stuck(t, k)'
      PROVE  Overwrites(t, k)
  <2>1. track'[t][k] = "RESOLVING" /\ ~Resolves(t, k)'
    BY <1>1 DEF Stuck
  <2>2. CASE track[t][k] = "RESOLVING"
    <3>1. Resolves(t, k)
      BY <1>1, <2>2 DEF Stuck
    <3> QED
      BY <1>1, <2>1, <3>1, ResolutionStays
  <2>3. CASE track[t][k] # "RESOLVING"
    <3>1. tick_resolve(t) /\ k = active[t]
      BY <1>1, <2>1, <2>3, BecomesResolving
    <3>2. dns_args' = [torrent |-> t, tracker |-> k] /\ queue' = Append(queue, "dns")
      BY <3>1 DEF tick_resolve
    <3>3. queue \in Seq({"dns", "http"})
      BY <1>1 DEF TypeInv, TasksOK
    <3>4. Len(queue) + 1 \in DOMAIN queue' /\ queue'[Len(queue) + 1] = "dns"
      BY <3>2, <3>3
    <3> QED
      BY <2>1, <3>2, <3>4 DEF Resolves
  <2> QED
    BY <2>2, <2>3
<1>2. TypeInv /\ [Next]_vars =>
         [\A t \in Torrents : \A k \in Trackers(t) :
             ~Stuck(t, k) /\ Stuck(t, k)' => Overwrites(t, k)]_vars
  BY <1>1
<1>3. TypeInv /\ [Next]_vars => TypeInv'
  BY StepKeepsTypes
<1> QED
  BY InitEstablishesTypes, <1>2, <1>3, PTL DEF Spec, StuckOnlyThus

-----------------------------------------------------------------------------
(* One request of each torrent                                              *)

LEMMA InitEstablishesRequests == Init => ResolutionsInv /\ OneRequest
<1> SUFFICES ASSUME Init PROVE ResolutionsInv /\ OneRequest
  OBVIOUS
<1>1. /\ DOMAIN queue = {} /\ DOMAIN pipe = {} /\ requests = {}
      /\ \A w \in Workers : ~DnsTask(w)
  BY DEF Init, DnsTask, Idle
<1> QED
  BY <1>1 DEF ResolutionsInv, Resolutions, QueuedOK, RunningOK, ReportedOK, OneRequest, Awaited

LEMMA NotOverwrittenBefore ==
    ASSUME TypeInv, [Next]_vars, ~overwritten'
    PROVE  ~overwritten
  BY DEF TypeInv, Next, TickStep, UDP_readable, WorkerStep, client_timer, five_seconds_pass, stack_reused,
         notify_pipe_readable, tick_resolve, tick_nothing, tick_announce, tick_timeout, tick_failed,
         tick_restart, tick_past_end, answer_connect, answer_connect_past_end, answer_announce,
         answer_error, answer_other, take_task, take_garbage, task_resolve_DNS, task_HTTP_announce,
         http_peers_copied, vars

(* A step leaves the active tracker of a torrent, and its state, as they     *)
(* are but for these.                                                       *)
LEMMA TrackerSteps ==
    ASSUME TypeInv, Next, NEW t \in Torrents, NEW k \in Trackers(t), k = active[t],
           ~(active'[t] = k /\ track'[t][k] = track[t][k])
    PROVE  \/ tick_resolve(t) /\ track[t][k] = "NOT_RESOLVED"
           \/ tick_announce(t) /\ track[t][k] \in {"IDLE", "ALIVE"}
           \/ tick_timeout(t) /\ track[t][k] = "ANNOUNCING"
           \/ tick_failed(t) /\ track[t][k] = "FAILED"
           \/ \E r \in requests : UDP_readable(r) /\ r.torrent = t /\ r.tracker = k
           \/ notify_pipe_readable /\ pipe[1].torrent = t /\ pipe[1].tracker = k
<1> USE DEF TypeInv
<1>1. ASSUME NEW u \in Torrents, NEW l \in Trackers(u), NEW s \in TrackStates,
             SetTrack(u, l, s), UNCHANGED active
      PROVE  u = t /\ l = k
  BY <1>1, TrackSet
<1>2. ASSUME UNCHANGED <<track, active>> PROVE FALSE
  BY <1>2
<1>3. ASSUME NEW u \in Torrents, TickStep(u)
      PROVE  \/ tick_resolve(t) /\ track[t][k] = "NOT_RESOLVED"
             \/ tick_announce(t) /\ track[t][k] \in {"IDLE", "ALIVE"}
             \/ tick_timeout(t) /\ track[t][k] = "ANNOUNCING"
             \/ tick_failed(t) /\ track[t][k] = "FAILED"
  <2>1. CASE tick_resolve(u)
    <3>1. /\ active[u] \in Trackers(u) /\ SetTrack(u, active[u], "RESOLVING")
          /\ track[u][active[u]] = "NOT_RESOLVED" /\ UNCHANGED active
      BY <2>1 DEF tick_resolve, Tick
    <3>2. u = t
      BY <1>1, <3>1 DEF TrackStates
    <3> QED
      BY <2>1, <3>1, <3>2
  <2>2. CASE tick_announce(u)
    <3>1. /\ active[u] \in Trackers(u) /\ SetTrack(u, active[u], "ANNOUNCING")
          /\ track[u][active[u]] \in {"IDLE", "ALIVE"} /\ UNCHANGED active
      BY <2>2 DEF tick_announce, Tick
    <3>2. u = t
      BY <1>1, <3>1 DEF TrackStates
    <3> QED
      BY <2>2, <3>1, <3>2
  <2>3. CASE tick_timeout(u)
    <3>1. /\ active[u] \in Trackers(u) /\ SetTrack(u, active[u], "FAILED")
          /\ track[u][active[u]] = "ANNOUNCING" /\ NextTracker(u)
      BY <2>3 DEF tick_timeout, Tick
    <3>2. u = t
      BY <3>1, TrackSet, NextTrackerKeeps DEF TrackStates
    <3> QED
      BY <2>3, <3>1, <3>2
  <2>4. CASE tick_failed(u)
    <3>1. /\ active[u] \in Trackers(u) /\ UNCHANGED track
          /\ track[u][active[u]] = "FAILED" /\ NextTracker(u)
      BY <2>4 DEF tick_failed, Tick
    <3>2. u = t
      BY <3>1, NextTrackerKeeps
    <3> QED
      BY <2>4, <3>1, <3>2
  <2>5. CASE tick_nothing(u) \/ tick_past_end(u)
    BY <1>2, <2>5 DEF tick_nothing, tick_past_end, torrentVars
  <2>6. CASE tick_restart(u)
    <3>1. active[u] = Len(Schema[u]) + 1 /\ UNCHANGED active
      BY <2>6 DEF tick_restart, TorrentsOK
    <3>2. u # t
      BY <3>1, Schemas
    <3>3. track'[t] = track[t]
      BY <2>6, <3>2 DEF tick_restart, TorrentsOK
    <3> QED
      BY <3>1, <3>3
  <2> QED
    BY <1>3, <2>1, <2>2, <2>3, <2>4, <2>5, <2>6 DEF TickStep
<1>4. ASSUME NEW r \in requests, UDP_readable(r) PROVE r.torrent = t /\ r.tracker = k
  <2>1. r.torrent \in Torrents /\ r.tracker \in Trackers(r.torrent)
    BY DEF RequestsOK, IsSite
  <2> QED
    BY <1>1, <1>2, <1>4, <2>1 DEF UDP_readable, answer_connect, answer_connect_past_end,
       answer_announce, answer_error, answer_other, torrentVars, TrackStates
<1>5. ASSUME NEW w \in Workers, WorkerStep(w) PROVE FALSE
  BY <1>2, <1>5 DEF WorkerStep, take_task, take_garbage, task_resolve_DNS, task_HTTP_announce,
     http_peers_copied, torrentVars
<1>6. CASE notify_pipe_readable
  <2>1. UNCHANGED active
    BY <1>6 DEF notify_pipe_readable
  <2> QED
    BY <1>1, <1>6, <2>1, PipeRead DEF IsSite
<1>7. CASE client_timer \/ stack_reused \/ \E u \in Torrents : five_seconds_pass(u)
  BY <1>2, <1>7 DEF client_timer, stack_reused, five_seconds_pass, torrentVars
<1> QED
  BY <1>3, <1>4, <1>5, <1>6, <1>7 DEF Next

(* A tracker waits for its name until the result is read.                   *)
LEMMA WaitsOn ==
    ASSUME TypeInv, OneRequest, ~overwritten, Next,
           NEW t \in Torrents, NEW k \in Trackers(t), Waits(t, k)
    PROVE  \/ Waits(t, k)'
           \/ notify_pipe_readable /\ DnsResult(1) /\ pipe[1].torrent = t
<1> USE DEF TypeInv
<1>1. k = active[t] /\ track[t][k] = "RESOLVING"
  BY DEF Waits
<1>2. CASE active'[t] = k /\ track'[t][k] = track[t][k]
  BY <1>1, <1>2 DEF Waits
<1>3. CASE \E r \in requests : r.torrent = t /\ r.tracker = k
  BY <1>1, <1>3 DEF OneRequest
<1>4. CASE notify_pipe_readable /\ pipe[1].torrent = t /\ pipe[1].tracker = k
  <2>1. Schema[t][k] # "http"
    BY <1>1 DEF TorrentsOK
  <2>2. pipe[1].type # "NOTIFY_HTTP_RESPONSE"
    BY <1>4, <2>1, PipeRead DEF TasksOK, SchemaOf
  <2>3. pipe[1] \in Results
    BY <1>4, PipeRead DEF TasksOK
  <2> QED
    BY <1>4, <2>2, <2>3 DEF DnsResult, Results
<1> QED
  BY <1>1, <1>2, <1>3, <1>4, TrackerSteps

(* A tracker that has a request waits for its answer, until it is answered   *)
(* or 5 seconds are over.                                                   *)
LEMMA AnnouncesOn ==
    ASSUME TypeInv, Resolutions, OneRequest, ~overwritten, Next, NEW r \in requests
    PROVE  \/ active'[r.torrent] = r.tracker /\ track'[r.torrent][r.tracker] = "ANNOUNCING"
           \/ tick_timeout(r.torrent)
           \/ UDP_readable(r)
<1> USE DEF TypeInv
<1> DEFINE t == r.torrent
           k == r.tracker
<1>1. t \in Torrents /\ k \in Trackers(t)
  BY DEF RequestsOK, IsSite
<1>2. k = active[t] /\ track[t][k] = "ANNOUNCING" /\ Schema[t][k] = "udp"
  BY DEF OneRequest
<1>3. ASSUME NEW s \in requests, s.torrent = t PROVE s = r
  BY <1>3 DEF OneRequest
<1>4. ASSUME notify_pipe_readable, pipe[1].torrent = t, pipe[1].tracker = k
      PROVE  FALSE
  <2>1. pipe[1].type # "NOTIFY_HTTP_RESPONSE"
    BY <1>2, <1>4, PipeRead DEF TasksOK, SchemaOf
  <2>2. pipe[1] \in Results /\ 1 \in DOMAIN pipe
    BY <1>4, PipeRead DEF TasksOK
  <2>3. Awaits(pipe[1])
    BY <2>1, <2>2 DEF Resolutions, ReportedOK, DnsResult, Results
  <2> QED
    BY <1>2, <1>4, <2>3 DEF Awaits, Waits
<1> HIDE DEF t, k
<1>5. \/ active'[t] = k /\ track'[t][k] = "ANNOUNCING"
      \/ tick_timeout(t)
      \/ \E s \in requests : UDP_readable(s) /\ s.torrent = t
  <2>1. CASE active'[t] = k /\ track'[t][k] = track[t][k]
    BY <1>2, <2>1
  <2>2. CASE ~(active'[t] = k /\ track'[t][k] = track[t][k])
    <3>1. \/ tick_resolve(t) /\ track[t][k] = "NOT_RESOLVED"
          \/ tick_announce(t) /\ track[t][k] \in {"IDLE", "ALIVE"}
          \/ tick_timeout(t) /\ track[t][k] = "ANNOUNCING"
          \/ tick_failed(t) /\ track[t][k] = "FAILED"
          \/ \E s \in requests : UDP_readable(s) /\ s.torrent = t /\ s.tracker = k
          \/ notify_pipe_readable /\ pipe[1].torrent = t /\ pipe[1].tracker = k
      BY <1>1, <1>2, <2>2, TrackerSteps
    <3> QED
      BY <1>2, <1>4, <3>1
  <2> QED
    BY <2>1, <2>2
<1> QED
  BY <1>3, <1>5 DEF t, k

LEMMA RequestSteps ==
    ASSUME Next
    PROVE  \/ UNCHANGED requests
           \/ \E t \in Torrents : tick_announce(t) \/ tick_timeout(t)
           \/ \E r \in requests : UDP_readable(r)
  BY DEF Next, TickStep, UDP_readable, WorkerStep, client_timer, five_seconds_pass, stack_reused,
         notify_pipe_readable,
         tick_resolve, tick_nothing, tick_failed, tick_restart, tick_past_end, take_task,
         take_garbage, task_resolve_DNS, task_HTTP_announce, http_peers_copied

LEMMA StepKeepsRequests ==
    ASSUME TypeInv, ResolutionsInv, OneRequest, [Next]_vars
    PROVE  OneRequest'
<1> SUFFICES ASSUME ~overwritten'
             PROVE  /\ \A r, s \in requests' : r.torrent = s.torrent => r = s
                    /\ \A r \in requests' :
                          /\ r.tracker = active'[r.torrent]
                          /\ track'[r.torrent][r.tracker] = "ANNOUNCING"
                          /\ Schema[r.torrent][r.tracker] = "udp"
  BY DEF OneRequest
<1> USE DEF TypeInv
<1>0. ~overwritten /\ Resolutions
  BY NotOverwrittenBefore DEF ResolutionsInv
<1>1. /\ \A r, s \in requests : r.torrent = s.torrent => r = s
      /\ \A r \in requests :
            /\ r.tracker = active[r.torrent]
            /\ track[r.torrent][r.tracker] = "ANNOUNCING"
            /\ Schema[r.torrent][r.tracker] = "udp"
            /\ IsSite(r)
  BY <1>0 DEF OneRequest, RequestsOK
<1>2. CASE UNCHANGED vars
  BY <1>1, <1>2 DEF vars, torrentVars
<1>3. ASSUME Next, NEW r \in requests
      PROVE  \/ active'[r.torrent] = r.tracker /\ track'[r.torrent][r.tracker] = "ANNOUNCING"
             \/ tick_timeout(r.torrent)
             \/ UDP_readable(r)
  BY <1>0, <1>3, AnnouncesOn
<1>4. ASSUME Next, UNCHANGED requests,
             \A t \in Torrents : ~tick_timeout(t), \A r \in requests : ~UDP_readable(r)
      PROVE  \A r \in requests :
                active'[r.torrent] = r.tracker /\ track'[r.torrent][r.tracker] = "ANNOUNCING"
  BY <1>1, <1>3, <1>4 DEF IsSite
<1>5. ASSUME NEW t \in Torrents, tick_announce(t)
      PROVE  /\ \A r, s \in requests' : r.torrent = s.torrent => r = s
             /\ \A r \in requests' :
                   /\ r.tracker = active'[r.torrent]
                   /\ track'[r.torrent][r.tracker] = "ANNOUNCING"
                   /\ Schema[r.torrent][r.tracker] = "udp"
  <2> DEFINE k == active[t]
  <2>1. /\ k \in Trackers(t) /\ track[t][k] \in {"IDLE", "ALIVE"}
        /\ SetTrack(t, k, "ANNOUNCING") /\ UNCHANGED active
    BY <1>5 DEF tick_announce, Tick
  <2>2. /\ track'[t][k] = "ANNOUNCING"
        /\ \A u \in Torrents : \A l \in Trackers(u) :
              u # t \/ l # k => track'[u][l] = track[u][l]
    BY <2>1, TrackSet DEF TrackStates
  <2>3. \A r \in requests : r.torrent # t
    BY <1>1, <2>1
  <2>4. \A r \in requests : track'[r.torrent][r.tracker] = "ANNOUNCING"
    BY <1>1, <2>2 DEF IsSite
  <2>5. CASE Schema[t][k] = "udp"
    <3>1. AddRequest(requests, t, k)
      BY <1>5, <2>5 DEF tick_announce
    <3>2. PICK new \in Requests : requests' = requests \cup {new} /\ new.torrent = t /\ new.tracker = k
      BY <2>1, <3>1, RequestAdded
    <3> HIDE DEF k
    <3>3. \A r, s \in requests' : r.torrent = s.torrent => r = s
      BY <1>1, <2>3, <3>2
    <3>4. ASSUME NEW r \in requests'
          PROVE  /\ r.tracker = active[r.torrent]
                 /\ track'[r.torrent][r.tracker] = "ANNOUNCING"
                 /\ Schema[r.torrent][r.tracker] = "udp"
      <4>1. CASE r = new
        BY <2>2, <2>5, <3>2, <4>1 DEF k
      <4>2. CASE r \in requests
        BY <1>1, <2>4, <4>2
      <4> QED
        BY <3>2, <4>1, <4>2
    <3> QED
      BY <2>1, <3>3, <3>4
  <2>6. CASE Schema[t][k] # "udp"
    <3>1. UNCHANGED requests
      BY <1>5, <2>6, <2>1, Schemas DEF tick_announce
    <3> QED
      BY <1>1, <2>1, <2>4, <3>1
  <2> QED
    BY <2>5, <2>6
<1>6. ASSUME NEW t \in Torrents, tick_timeout(t)
      PROVE  /\ \A r, s \in requests' : r.torrent = s.torrent => r = s
             /\ \A r \in requests' :
                   /\ r.tracker = active'[r.torrent]
                   /\ track'[r.torrent][r.tracker] = "ANNOUNCING"
                   /\ Schema[r.torrent][r.tracker] = "udp"
  <2> DEFINE k == active[t]
  <2>1. k \in Trackers(t) /\ SetTrack(t, k, "FAILED") /\ NextTracker(t) /\ requests' = Without(t, k)
    BY <1>6 DEF tick_timeout, Tick
  <2>2. \A r \in requests' : r \in requests /\ r.torrent # t
    BY <1>1, <2>1 DEF Without
  <2>3. \A u \in Torrents \ {t} : /\ active'[u] = active[u]
                                  /\ \A l \in Trackers(u) : track'[u][l] = track[u][l]
    BY <2>1, TrackSet, NextTrackerKeeps DEF TrackStates
  <2> QED
    BY <1>1, <2>2, <2>3 DEF IsSite
<1>7. ASSUME NEW q \in requests, UDP_readable(q)
      PROVE  /\ \A r, s \in requests' : r.torrent = s.torrent => r = s
             /\ \A r \in requests' :
                   /\ r.tracker = active'[r.torrent]
                   /\ track'[r.torrent][r.tracker] = "ANNOUNCING"
                   /\ Schema[r.torrent][r.tracker] = "udp"
  <2> DEFINE t == q.torrent
             k == q.tracker
  <2>1. t \in Torrents /\ k \in Trackers(t) /\ k = active[t] /\ Schema[t][k] = "udp"
    BY <1>1 DEF IsSite
  <2>2. UNCHANGED active
    BY <1>7 DEF UDP_readable, answer_connect, answer_connect_past_end, answer_announce,
                answer_error, answer_other, torrentVars
  <2>3. UNCHANGED track \/ \E s \in TrackStates : SetTrack(t, k, s)
    BY <1>7 DEF UDP_readable, answer_connect, answer_connect_past_end, answer_announce,
                answer_error, answer_other, torrentVars, TrackStates
  <2>4. \A r \in requests \ {q} : r.torrent # t
    BY <1>1
  <2>5. \A r \in requests \ {q} : track'[r.torrent][r.tracker] = "ANNOUNCING"
    BY <1>1, <2>1, <2>3, <2>4, TrackSet DEF IsSite
  <2>6. CASE answer_connect(q)
    <3>1. AddRequest(requests \ {q}, t, k) /\ SetTrack(t, k, "ANNOUNCING")
      BY <2>1, <2>6 DEF answer_connect
    <3>2. track'[t][k] = "ANNOUNCING"
      BY <2>1, <3>1, TrackSet DEF TrackStates
    <3>3. PICK new \in Requests :
             requests' = (requests \ {q}) \cup {new} /\ new.torrent = t /\ new.tracker = k
      BY <2>1, <3>1, RequestAdded
    <3> HIDE DEF t, k
    <3>4. \A r, s \in requests' : r.torrent = s.torrent => r = s
      BY <1>1, <2>4, <3>3
    <3>5. ASSUME NEW r \in requests'
          PROVE  /\ r.tracker = active[r.torrent]
                 /\ track'[r.torrent][r.tracker] = "ANNOUNCING"
                 /\ Schema[r.torrent][r.tracker] = "udp"
      <4>1. CASE r = new
        BY <2>1, <3>2, <3>3, <4>1
      <4>2. CASE r \in requests \ {q}
        BY <1>1, <2>5, <4>2
      <4> QED
        BY <3>3, <4>1, <4>2
    <3> QED
      BY <2>2, <3>4, <3>5
  <2>7. CASE answer_announce(q) \/ answer_error(q) \/ answer_other(q)
    <3>1. requests' = requests \ {q}
      BY <2>7 DEF answer_announce, answer_error, answer_other
    <3> QED
      BY <1>1, <2>2, <2>5, <3>1
  <2>8. CASE answer_connect_past_end(q)
    BY <2>1, <2>8 DEF answer_connect_past_end
  <2> QED
    BY <1>7, <2>6, <2>7, <2>8 DEF UDP_readable
<1>8. CASE Next
  <2>1. CASE \/ \E t \in Torrents : tick_announce(t) \/ tick_timeout(t)
             \/ \E r \in requests : UDP_readable(r)
    BY <1>5, <1>6, <1>7, <2>1
  <2>2. CASE ~(\/ \E t \in Torrents : tick_announce(t) \/ tick_timeout(t)
               \/ \E r \in requests : UDP_readable(r))
    <3>1. UNCHANGED requests
      BY <1>8, <2>2, RequestSteps
    <3>2. \A r \in requests :
             active'[r.torrent] = r.tracker /\ track'[r.torrent][r.tracker] = "ANNOUNCING"
      BY <1>4, <1>8, <2>2, <3>1
    <3> QED
      BY <1>1, <3>1, <3>2
  <2> QED
    BY <2>1, <2>2
<1> QED
  BY <1>2, <1>8

-----------------------------------------------------------------------------
(* One resolution of each torrent                                           *)

(* What the steps that leave the pipe unread do to those who wait.          *)
LEMMA AllWaitOn ==
    ASSUME TypeInv, OneRequest, ~overwritten, Next, ~notify_pipe_readable
    PROVE  \A s : Awaits(s) => IsSite(s) /\ Waits(s.torrent, s.tracker)'
  BY WaitsOn DEF Awaits, IsSite

(* No task, no result: the torrent is not waiting.                          *)
LEMMA NotWaiting ==
    ASSUME TypeInv, Resolutions, NEW t \in Torrents,
           \A k \in Trackers(t) : ~Waits(t, k)
    PROVE  /\ Awaited("dns") => dns_args.torrent # t
           /\ \A w \in Workers : DnsTask(w) => worker[w].torrent # t
           /\ \A j \in DOMAIN pipe : DnsResult(j) => pipe[j].torrent # t
  BY DEF Resolutions, QueuedOK, RunningOK, ReportedOK, Awaits, IsSite

LEMMA UntouchedKeepsResolutions ==
    ASSUME TypeInv, Resolutions, UNCHANGED taskVars,
           \A s : Awaits(s) => IsSite(s) /\ Waits(s.torrent, s.tracker)'
    PROVE  Resolutions'
<1> USE DEF taskVars, Resolutions
<1>1. \A s : Awaits(s) => Awaits(s)'
  BY DEF Awaits, IsSite
<1>2. QueuedOK'
  BY <1>1 DEF QueuedOK, Awaited, DnsTask, DnsResult, Awaits
<1>3. RunningOK'
  BY <1>1 DEF RunningOK, DnsTask, DnsResult, Awaits
<1>4. ReportedOK'
  BY <1>1 DEF ReportedOK, DnsResult, Awaits
<1> QED
  BY <1>2, <1>3, <1>4

LEMMA OthersKeepResolutions ==
    ASSUME TypeInv, Resolutions, UNCHANGED <<worker, pipe>>,
           \A s : Awaits(s) => IsSite(s) /\ Waits(s.torrent, s.tracker)'
    PROVE  RunningOK' /\ ReportedOK'
<1>1. \A s : Awaits(s) => Awaits(s)'
  BY DEF Awaits, IsSite
<1> QED
  BY <1>1 DEF Resolutions, RunningOK, ReportedOK, DnsTask, DnsResult, Awaits

LEMMA QueueGrows ==
    ASSUME TypeInv, QueuedOK, NEW fn \in {"dns", "http"}, ~Awaited(fn), queue' = Append(queue, fn)
    PROVE  /\ \A i, j \in DOMAIN queue' : queue'[i] = queue'[j] => i = j
           /\ \A gn \in {"dns", "http"} : Awaited(gn)' <=> Awaited(gn) \/ gn = fn
<1>1. queue \in Seq({"dns", "http"})
  BY DEF TypeInv, TasksOK
<1>2. /\ DOMAIN queue = 1 .. Len(queue) /\ Len(queue) \in Nat
      /\ DOMAIN queue' = 1 .. Len(queue) + 1
      /\ queue'[Len(queue) + 1] = fn
      /\ \A j \in 1 .. Len(queue) : queue'[j] = queue[j]
  BY <1>1
<1>3. \A j \in DOMAIN queue' : j \in DOMAIN queue \/ j = Len(queue) + 1
  BY <1>2
<1>4. DOMAIN queue \subseteq DOMAIN queue' /\ Len(queue) + 1 \in DOMAIN queue'
  BY <1>2
<1>5. \A i, j \in DOMAIN queue' : queue'[i] = queue'[j] => i = j
  BY <1>2, <1>3 DEF QueuedOK, Awaited
<1>6. \A gn \in {"dns", "http"} : Awaited(gn)' <=> Awaited(gn) \/ gn = fn
  BY <1>2, <1>3, <1>4 DEF Awaited
<1> QED
  BY <1>5, <1>6

LEMMA ResolveKeepsResolutions ==
    ASSUME TypeInv, Resolutions, NEW t \in Torrents, tick_resolve(t), ~overwritten',
           \A s : Awaits(s) => IsSite(s) /\ Waits(s.torrent, s.tracker)'
    PROVE  Resolutions'
<1> DEFINE k == active[t]
<1>1. /\ k \in Trackers(t) /\ track[t][k] = "NOT_RESOLVED" /\ ~Awaited("dns")
      /\ SetTrack(t, k, "RESOLVING") /\ UNCHANGED <<active, http_args, worker, pipe>>
      /\ dns_args' = [torrent |-> t, tracker |-> k] /\ queue' = Append(queue, "dns")
  BY DEF tick_resolve, Tick
<1>2. RunningOK' /\ ReportedOK'
  BY <1>1, OthersKeepResolutions
<1>3. /\ \A w \in Workers : DnsTask(w) => worker[w].torrent # t
      /\ \A j \in DOMAIN pipe : DnsResult(j) => pipe[j].torrent # t
  BY <1>1, NotWaiting DEF Waits
<1>4. Awaits(dns_args)'
  BY <1>1, TrackSet DEF Awaits, IsSite, Waits, TypeInv, TrackStates
<1>5. /\ \A i, j \in DOMAIN queue' : queue'[i] = queue'[j] => i = j
      /\ Awaited("http")' <=> Awaited("http")
  BY <1>1, QueueGrows DEF Resolutions
<1>6. dns_args'.torrent = t
  BY <1>1
<1>7. QueuedOK'
  BY <1>1, <1>3, <1>4, <1>5, <1>6 DEF Resolutions, QueuedOK, DnsTask, DnsResult
<1> QED
  BY <1>2, <1>7 DEF Resolutions

LEMMA AnnounceKeepsResolutions ==
    ASSUME TypeInv, Resolutions, NEW t \in Torrents, tick_announce(t), ~overwritten',
           \A s : Awaits(s) => IsSite(s) /\ Waits(s.torrent, s.tracker)'
    PROVE  Resolutions'
<1>1. active[t] \in Trackers(t) /\ UNCHANGED <<dns_args, worker, pipe>>
  BY DEF tick_announce, Tick
<1>2. RunningOK' /\ ReportedOK'
  BY <1>1, OthersKeepResolutions
<1>3. CASE UNCHANGED <<http_args, queue>>
  BY <1>1, <1>3, UntouchedKeepsResolutions DEF taskVars
<1>4. CASE ~UNCHANGED <<http_args, queue>>
  <2>1. /\ http_args' = [torrent |-> t, tracker |-> active[t]]
        /\ queue' = Append(queue, "http") /\ ~Awaited("http")
    BY <1>4 DEF tick_announce
  <2>2. http_args' # NoArgs
    BY <1>1, <2>1, SitesAre
  <2>3. /\ \A i, j \in DOMAIN queue' : queue'[i] = queue'[j] => i = j
        /\ Awaited("dns")' <=> Awaited("dns")
    BY <2>1, QueueGrows DEF Resolutions
  <2>4. Awaits(dns_args) => Awaits(dns_args)'
    BY <1>1 DEF Awaits, IsSite
  <2>5. QueuedOK'
    BY <1>1, <2>2, <2>3, <2>4 DEF Resolutions, QueuedOK, DnsTask, DnsResult
  <2> QED
    BY <1>2, <2>5 DEF Resolutions
<1> QED
  BY <1>3, <1>4

LEMMA TakeKeepsResolutions ==
    ASSUME TypeInv, Resolutions, NEW w \in Workers, take_task(w),
           \A s : Awaits(s) => IsSite(s) /\ Waits(s.torrent, s.tracker)'
    PROVE  Resolutions'
<1>1. UNCHANGED <<dns_args, http_args, pipe>> /\ TasksOK
  BY DEF take_task, TypeInv
<1>2. /\ worker[w] = Idle /\ Len(queue) \in Nat \ {0} /\ DOMAIN queue = 1 .. Len(queue)
      /\ DOMAIN queue' = 1 .. Len(queue) - 1
      /\ \A j \in DOMAIN queue' : queue'[j] = queue[j + 1] /\ j + 1 \in DOMAIN queue
      /\ worker'[w] = [fn |-> queue[1], torrent |-> Args(queue[1]).torrent,
                       tracker |-> Args(queue[1]).tracker]
      /\ \A v \in Workers \ {w} : worker'[v] = worker[v]
  BY <1>1, TakeTask
<1>3. \A i, j \in DOMAIN queue' : queue'[i] = queue'[j] => i = j
  <2> TAKE i, j \in DOMAIN queue'
  <2>1. queue'[i] = queue'[j] => i + 1 = j + 1
    BY <1>2 DEF Resolutions, QueuedOK
  <2>2. i \in Nat /\ j \in Nat
    BY <1>2
  <2> QED
    BY <2>1, <2>2
<1>4. \A fn : Awaited(fn)' => Awaited(fn)
  BY <1>2 DEF Awaited
<1>5. \A j \in DOMAIN queue' : queue'[j] # queue[1]
  <2>1. \A j \in DOMAIN queue' : j + 1 # 1 /\ 1 \in DOMAIN queue
    BY <1>2
  <2> QED
    BY <1>2, <2>1 DEF Resolutions, QueuedOK
<1>6. \A s : Awaits(s) => Awaits(s)'
  BY DEF Awaits, IsSite
<1>7. 1 \in DOMAIN queue /\ queue[1] \in {"dns", "http"}
  BY <1>1, <1>2 DEF TasksOK
<1>8. ReportedOK'
  BY <1>1, <1>6 DEF Resolutions, ReportedOK, DnsResult, Awaits
<1>9. CASE queue[1] = "dns"
  <2>1. Awaited("dns") /\ ~Awaited("dns")'
    BY <1>5, <1>7, <1>9 DEF Awaited
  <2>2. /\ worker'[w].torrent = dns_args.torrent /\ worker'[w].tracker = dns_args.tracker
    BY <1>2, <1>9 DEF Args
  <2>3. /\ Awaits(dns_args)
        /\ \A v \in Workers : DnsTask(v) => worker[v].torrent # dns_args.torrent
        /\ \A j \in DOMAIN pipe : DnsResult(j) => pipe[j].torrent # dns_args.torrent
    BY <2>1 DEF Resolutions, QueuedOK
  <2>4. QueuedOK'
    BY <1>1, <1>3, <1>4, <2>1 DEF Resolutions, QueuedOK
  <2>5. Awaits(worker[w])'
    BY <1>6, <2>2, <2>3 DEF Awaits, IsSite
  <2>6. \A v \in Workers : DnsTask(v)' => DnsTask(v) \/ v = w
    BY <1>2 DEF DnsTask
  <2>7. \A v \in Workers \ {w} : DnsTask(v)' =>
           Awaits(worker[v])' /\ worker'[v].torrent # dns_args.torrent /\ DnsTask(v)
    BY <1>2, <1>6, <2>3, <2>6 DEF Resolutions, RunningOK, Awaits
  <2>8. RunningOK'
    <3> SUFFICES ASSUME NEW v \in Workers, DnsTask(v)'
                 PROVE  /\ Awaits(worker[v])'
                        /\ \A u \in Workers :
                              DnsTask(u)' /\ worker'[u].torrent = worker'[v].torrent => u = v
                        /\ \A j \in DOMAIN pipe' :
                              DnsResult(j)' => pipe'[j].torrent # worker'[v].torrent
      BY DEF RunningOK
    <3>1. CASE v = w
      BY <1>1, <2>2, <2>3, <2>5, <2>7, <3>1 DEF DnsResult
    <3>2. CASE v # w
      <4>1. DnsTask(v) /\ worker'[v] = worker[v] /\ worker'[v].torrent # dns_args.torrent
        BY <1>2, <2>7, <3>2
      <4>2. \A u \in Workers :
               DnsTask(u)' /\ worker'[u].torrent = worker'[v].torrent => u = v
        BY <1>2, <2>2, <2>7, <4>1 DEF Resolutions, RunningOK
      <4> QED
        BY <1>1, <2>7, <3>2, <4>1, <4>2 DEF Resolutions, RunningOK, DnsResult
    <3> QED
      BY <3>1, <3>2
  <2> QED
    BY <1>8, <2>4, <2>8 DEF Resolutions
<1>10. CASE queue[1] = "http"
  <2>1. ~DnsTask(w)' /\ \A v \in Workers \ {w} : worker'[v] = worker[v]
    BY <1>2, <1>10 DEF DnsTask
  <2>2. \A v \in Workers : DnsTask(v)' => DnsTask(v) /\ worker'[v] = worker[v]
    BY <2>1 DEF DnsTask
  <2>3. RunningOK'
    BY <1>1, <1>6, <2>2 DEF Resolutions, RunningOK, DnsResult, Awaits
  <2>4. QueuedOK'
    BY <1>1, <1>3, <1>4, <1>6, <2>2 DEF Resolutions, QueuedOK, DnsResult, Awaits
  <2> QED
    BY <1>8, <2>3, <2>4 DEF Resolutions
<1> QED
  BY <1>7, <1>9, <1>10

LEMMA ReportKeepsResolutions ==
    ASSUME TypeInv, Resolutions, NEW w \in Workers, task_resolve_DNS(w) \/ task_HTTP_announce(w),
           \A s : Awaits(s) => IsSite(s) /\ Waits(s.torrent, s.tracker)'
    PROVE  Resolutions'
<1>1. UNCHANGED <<dns_args, http_args, queue>> /\ TasksOK
  BY DEF task_resolve_DNS, task_HTTP_announce, TypeInv
<1>2. PICK type, success :
         /\ Report(w, type, success)
         /\ type = "NOTIFY_DNS_RESOLVE" <=> DnsTask(w)
  BY DEF task_resolve_DNS, task_HTTP_announce, DnsTask
<1>n. PICK n : n = Len(pipe) + 1
  OBVIOUS
<1>3. /\ worker'[w] = Idle /\ \A v \in Workers \ {w} : worker'[v] = worker[v]
      /\ DOMAIN pipe' = DOMAIN pipe \cup {n} /\ n \notin DOMAIN pipe
      /\ \A j \in DOMAIN pipe : pipe'[j] = pipe[j]
      /\ pipe'[n] = [type |-> type, torrent |-> worker[w].torrent,
                     tracker |-> worker[w].tracker, success |-> success]
  <2>1. Report(w, type, success) /\ w \in Workers /\ TasksOK
    BY <1>1, <1>2
  <2>2. /\ worker'[w] = Idle /\ \A v \in Workers \ {w} : worker'[v] = worker[v]
        /\ Len(pipe) \in Nat /\ DOMAIN pipe = 1 .. Len(pipe)
        /\ DOMAIN pipe' = 1 .. Len(pipe) + 1
        /\ \A j \in DOMAIN pipe : pipe'[j] = pipe[j]
        /\ pipe'[Len(pipe) + 1] = [type |-> type, torrent |-> worker[w].torrent,
                                   tracker |-> worker[w].tracker, success |-> success]
    BY ONLY <2>1, Reported
  <2>3. DOMAIN pipe' = DOMAIN pipe \cup {n} /\ n \notin DOMAIN pipe
    BY ONLY <2>2, <1>n
  <2> QED
    BY ONLY <2>2, <2>3, <1>n
<1>4. /\ pipe'[n].torrent = worker[w].torrent /\ pipe'[n].tracker = worker[w].tracker
      /\ DnsResult(n)' <=> DnsTask(w)
  BY <1>2, <1>3 DEF DnsResult
<1>5. \A v \in Workers : DnsTask(v)' => DnsTask(v) /\ v # w /\ worker'[v] = worker[v]
  BY <1>3 DEF DnsTask, Idle
<1>6. \A j \in DOMAIN pipe : DnsResult(j)' <=> DnsResult(j)
  BY <1>3 DEF DnsResult
<1>7. \A s : Awaits(s) => Awaits(s)'
  BY DEF Awaits, IsSite
<1>8. QueuedOK'
  <2>1. Awaited("dns")' => Awaited("dns") /\ Awaits(dns_args)'
    BY <1>1, <1>7 DEF Awaited, Awaits, Resolutions, QueuedOK
  <2>2. ASSUME Awaited("dns"), NEW j \in DOMAIN pipe', DnsResult(j)'
        PROVE  pipe'[j].torrent # dns_args.torrent
    <3>1. CASE j = n
      BY <1>4, <2>2, <3>1 DEF Resolutions, QueuedOK
    <3>2. CASE j \in DOMAIN pipe
      BY <1>3, <1>6, <2>2, <3>2 DEF Resolutions, QueuedOK
    <3> QED
      BY <1>3, <3>1, <3>2
  <2> QED
    BY <1>1, <1>5, <2>1, <2>2 DEF Resolutions, QueuedOK, Awaited
<1>9. RunningOK'
  <2> SUFFICES ASSUME NEW v \in Workers, DnsTask(v)'
               PROVE  /\ Awaits(worker[v])'
                      /\ \A u \in Workers :
                            DnsTask(u)' /\ worker'[u].torrent = worker'[v].torrent => u = v
                      /\ \A j \in DOMAIN pipe' :
                            DnsResult(j)' => pipe'[j].torrent # worker'[v].torrent
    BY DEF RunningOK
  <2>1. DnsTask(v) /\ v # w /\ worker'[v] = worker[v]
    BY <1>5
  <2>2. Awaits(worker[v])'
    BY <1>7, <2>1 DEF Awaits, Resolutions, RunningOK
  <2>3. \A u \in Workers : DnsTask(u)' /\ worker'[u].torrent = worker'[v].torrent => u = v
    BY <1>5, <2>1 DEF Resolutions, RunningOK
  <2>4. ASSUME NEW j \in DOMAIN pipe', DnsResult(j)'
        PROVE  pipe'[j].torrent # worker'[v].torrent
    <3>1. CASE j = n
      BY <1>4, <2>1, <2>4, <3>1 DEF Resolutions, RunningOK
    <3>2. CASE j \in DOMAIN pipe
      BY <1>3, <1>6, <2>1, <2>4, <3>2 DEF Resolutions, RunningOK
    <3> QED
      BY <1>3, <3>1, <3>2
  <2> QED
    BY <2>2, <2>3, <2>4
<1>10. ReportedOK'
  <2>1. ASSUME DnsTask(w)
        PROVE  /\ Awaits(pipe[n])'
               /\ \A j \in DOMAIN pipe : DnsResult(j) => pipe[j].torrent # pipe'[n].torrent
    <3>1. Awaits(worker[w]) /\ \A j \in DOMAIN pipe : DnsResult(j) => pipe[j].torrent # worker[w].torrent
      BY <2>1 DEF Resolutions, RunningOK
    <3>2. Awaits(pipe[n])'
      BY <1>4, <1>7, <3>1 DEF Awaits, IsSite, Waits
    <3> QED
      BY <1>4, <3>1, <3>2
  <2> QED
    BY <1>3, <1>4, <1>6, <1>7, <2>1 DEF Resolutions, ReportedOK, Awaits
<1> QED
  BY <1>8, <1>9, <1>10 DEF Resolutions

LEMMA ReadKeepsResolutions ==
    ASSUME TypeInv, Resolutions, OneRequest, ~overwritten, notify_pipe_readable
    PROVE  Resolutions'
<1>1. UNCHANGED <<dns_args, http_args, queue, worker>> /\ TasksOK
  BY DEF notify_pipe_readable, TypeInv
<1>2. /\ DOMAIN pipe' \subseteq Nat /\ 1 \in DOMAIN pipe
      /\ \A j \in DOMAIN pipe' : pipe'[j] = pipe[j + 1] /\ j + 1 \in DOMAIN pipe /\ j + 1 # 1
  BY <1>1, PipeRead
<1>3. Next
  BY DEF Next
<1> DEFINE Read(s) == DnsResult(1) /\ s.torrent = pipe[1].torrent
<1>4. ASSUME NEW s, Awaits(s), ~Read(s) PROVE Awaits(s)'
  <2>1. s.torrent \in Torrents /\ s.tracker \in Trackers(s.torrent) /\ Waits(s.torrent, s.tracker)
    BY <1>4 DEF Awaits, IsSite
  <2>2. Waits(s.torrent, s.tracker)'
    BY <1>3, <1>4, <2>1, WaitsOn
  <2> QED
    BY <2>1, <2>2 DEF Awaits, IsSite
<1>5. \A j \in DOMAIN pipe' : DnsResult(j)' => DnsResult(j + 1)
  BY <1>2 DEF DnsResult
<1>6. /\ Awaited("dns") => ~Read(dns_args)
      /\ \A w \in Workers : DnsTask(w) => ~Read(worker[w])
      /\ \A j \in DOMAIN pipe : DnsResult(j) /\ j # 1 => ~Read(pipe[j])
  BY <1>2 DEF Resolutions, QueuedOK, RunningOK, ReportedOK
<1> HIDE DEF Read
<1>7. QueuedOK'
  <2>1. Awaited("dns")' => Awaited("dns") /\ Awaits(dns_args)'
    BY <1>1, <1>4, <1>6 DEF Awaited, Awaits, Resolutions, QueuedOK
  <2> QED
    BY <1>1, <1>2, <1>5, <2>1 DEF Resolutions, QueuedOK, Awaited, DnsTask
<1>8. RunningOK'
  <2>1. \A w \in Workers : DnsTask(w)' => DnsTask(w) /\ Awaits(worker[w])'
    BY <1>1, <1>4, <1>6 DEF DnsTask, Awaits, Resolutions, RunningOK
  <2> QED
    BY <1>1, <1>2, <1>5, <2>1 DEF Resolutions, RunningOK
<1>9. ReportedOK'
  <2> SUFFICES ASSUME NEW j \in DOMAIN pipe', DnsResult(j)'
               PROVE  /\ Awaits(pipe[j])'
                      /\ \A i \in DOMAIN pipe' :
                            DnsResult(i)' /\ pipe'[i].torrent = pipe'[j].torrent => i = j
    BY DEF ReportedOK
  <2>1. DnsResult(j + 1) /\ j + 1 \in DOMAIN pipe /\ pipe'[j] = pipe[j + 1] /\ ~Read(pipe[j + 1])
    BY <1>2, <1>5, <1>6
  <2>2. Awaits(pipe[j + 1])
    BY <2>1 DEF Resolutions, ReportedOK
  <2>3. Awaits(pipe[j])'
    <3>1. PICK s : s = pipe[j + 1]
      OBVIOUS
    <3>2. Awaits(s)'
      BY <1>4, <2>1, <2>2, <3>1
    <3> QED
      BY <2>1, <3>1, <3>2 DEF Awaits, IsSite, Waits
  <2>4. ASSUME NEW i \in DOMAIN pipe', DnsResult(i)', pipe'[i].torrent = pipe'[j].torrent
        PROVE  i = j
    <3>1. i + 1 = j + 1
      BY <1>2, <1>5, <2>1, <2>4 DEF Resolutions, ReportedOK
    <3>2. i \in Nat /\ j \in Nat
      BY <1>2
    <3> QED
      BY <3>1, <3>2
  <2> QED
    BY <2>3, <2>4
<1> QED
  BY <1>7, <1>8, <1>9 DEF Resolutions

(* The stack is reused where no task's arguments are.                       *)
LEMMA ReuseKeepsResolutions ==
    ASSUME TypeInv, Resolutions, stack_reused, ~overwritten'
    PROVE  Resolutions'
<1>1. /\ UNCHANGED <<queue, worker, pipe, active, track>>
      /\ Awaited("dns") => dns_args' = dns_args
      /\ Awaited("http") => http_args' = http_args
  BY DEF stack_reused, torrentVars
<1>2. QueuedOK'
  BY <1>1 DEF Resolutions, QueuedOK, Awaited, Awaits, IsSite, Waits, DnsTask, DnsResult
<1>3. RunningOK' /\ ReportedOK'
  BY <1>1 DEF Resolutions, RunningOK, ReportedOK, Awaits, IsSite, Waits, DnsTask, DnsResult
<1> QED
  BY <1>2, <1>3 DEF Resolutions

LEMMA TaskSteps ==
    ASSUME Next
    PROVE  \/ UNCHANGED taskVars
           \/ \E t \in Torrents : tick_resolve(t) \/ tick_announce(t)
           \/ \E w \in Workers : take_task(w) \/ task_resolve_DNS(w) \/ task_HTTP_announce(w)
           \/ notify_pipe_readable
           \/ stack_reused
  BY DEF Next, TickStep, UDP_readable, WorkerStep, client_timer, five_seconds_pass, tick_nothing, tick_timeout,
         tick_failed, tick_restart, tick_past_end, answer_connect, answer_connect_past_end,
         answer_announce, answer_error, answer_other, take_garbage, http_peers_copied

LEMMA StepKeepsResolutions ==
    ASSUME TypeInv, ResolutionsInv, OneRequest, [Next]_vars
    PROVE  ResolutionsInv'
<1> SUFFICES ASSUME ~overwritten' PROVE Resolutions'
  BY DEF ResolutionsInv
<1>1. ~overwritten /\ Resolutions
  BY NotOverwrittenBefore DEF ResolutionsInv
<1>2. CASE UNCHANGED vars
  <2>1. UNCHANGED <<taskVars, active, track>>
    BY <1>2 DEF vars, torrentVars
  <2>2. \A s : Awaits(s) => IsSite(s) /\ Waits(s.torrent, s.tracker)'
    BY <2>1 DEF Awaits, Waits
  <2> QED
    BY <1>1, <2>1, <2>2, UntouchedKeepsResolutions
<1>3. CASE notify_pipe_readable
  BY <1>1, <1>3, ReadKeepsResolutions
<1>4. CASE stack_reused
  BY <1>1, <1>4, ReuseKeepsResolutions
<1>5. CASE Next /\ ~notify_pipe_readable /\ ~stack_reused
  <2>1. \A s : Awaits(s) => IsSite(s) /\ Waits(s.torrent, s.tracker)'
    BY <1>1, <1>5, AllWaitOn
  <2> QED
    BY <1>1, <1>5, <2>1, TaskSteps, UntouchedKeepsResolutions, ResolveKeepsResolutions,
       AnnounceKeepsResolutions, TakeKeepsResolutions, ReportKeepsResolutions
<1> QED
  BY <1>2, <1>3, <1>4, <1>5

LEMMA Invariance == Spec => []IInv
<1>1. Init => IInv
  BY InitEstablishesTypes, InitEstablishesRequests DEF IInv
<1>2. IInv /\ [Next]_vars => IInv'
  BY StepKeepsTypes, StepKeepsRequests, StepKeepsResolutions DEF IInv
<1> QED
  BY <1>1, <1>2, PTL DEF Spec

(* Until arguments are overwritten, each torrent has one request at most,    *)
(* and that is for its active tracker, which waits for the answer.          *)
THEOREM OneRequestEach == Spec => []OneRequest
<1>1. IInv => OneRequest
  BY DEF IInv
<1> QED
  BY Invariance, <1>1, PTL

(* The track a step changes is the active one, or all of a torrent that has  *)
(* failed start anew, while nothing has been overwritten: a request and a    *)
(* resolution are for the active tracker, and only HTTP trackers have other  *)
(* results.                                                                 *)
LEMMA ActiveTrackChanges ==
    ASSUME IInv, ~overwritten, Next, NEW t \in Torrents, NEW k \in Trackers(t),
           k < active[t], Schema[t][k] = "udp", track'[t][k] # track[t][k]
    PROVE  tr_state[t] = "FAILED"
<1> USE DEF IInv, TypeInv
<1>1. ASSUME NEW u \in Torrents, NEW l \in Trackers(u), NEW s \in TrackStates, SetTrack(u, l, s)
      PROVE  u = t /\ l = k
  BY <1>1, TrackSet
<1>2. ASSUME NEW s \in TrackStates, SetTrack(t, k, s)
      PROVE  k # active[t]
  <2>1. k \in Nat /\ active[t] \in Nat
    BY Schemas DEF TorrentsOK, Trackers
  <2> QED
    BY <2>1
<1>3. ASSUME NEW u \in Torrents, NEW s \in TrackStates, active[u] \in Trackers(u),
             SetTrack(u, active[u], s)
      PROVE  FALSE
  BY <1>1, <1>2, <1>3
<1>4. ASSUME NEW u \in Torrents, TickStep(u)
      PROVE  tr_state[t] = "FAILED"
  <2>1. CASE tick_resolve(u) \/ tick_announce(u) \/ tick_timeout(u)
    BY <1>3, <2>1 DEF tick_resolve, tick_announce, tick_timeout, Tick, TrackStates
  <2>2. CASE tick_nothing(u) \/ tick_failed(u) \/ tick_past_end(u)
    BY <2>2 DEF tick_nothing, tick_failed, tick_past_end, torrentVars
  <2>3. CASE tick_restart(u)
    BY <2>3 DEF tick_restart, TorrentsOK
  <2> QED
    BY <1>4, <2>1, <2>2, <2>3 DEF TickStep
<1>5. ASSUME NEW r \in requests, UDP_readable(r)
      PROVE  FALSE
  <2>1. /\ r.torrent \in Torrents /\ r.tracker \in Trackers(r.torrent)
        /\ r.tracker = active[r.torrent]
    BY DEF RequestsOK, IsSite, OneRequest
  <2>2. \E s \in TrackStates : SetTrack(r.torrent, r.tracker, s)
    BY <1>5 DEF UDP_readable, answer_connect, answer_connect_past_end, answer_announce,
                answer_error, answer_other, torrentVars, TrackStates
  <2> QED
    BY <1>3, <2>1, <2>2
<1>6. ASSUME NEW w \in Workers, WorkerStep(w) PROVE FALSE
  BY <1>6 DEF WorkerStep, take_task, take_garbage, task_resolve_DNS, task_HTTP_announce,
     http_peers_copied, torrentVars
<1>7. ASSUME notify_pipe_readable PROVE FALSE
  <2>1. 1 \in DOMAIN pipe /\ pipe[1] \in Results /\ IsSite(pipe[1])
    BY <1>7, PipeRead DEF TasksOK
  <2>2. \E s \in TrackStates : SetTrack(pipe[1].torrent, pipe[1].tracker, s)
    BY <1>7, PipeRead
  <2>3. pipe[1].torrent = t /\ pipe[1].tracker = k
    BY <1>1, <2>1, <2>2 DEF IsSite
  <2>4. pipe[1].type # "NOTIFY_HTTP_RESPONSE"
    BY <2>1, <2>3 DEF TasksOK, SchemaOf
  <2>5. Awaits(pipe[1])
    BY <2>1, <2>4 DEF ResolutionsInv, Resolutions, ReportedOK, DnsResult, Results
  <2> QED
    BY <1>3, <2>2, <2>3, <2>5 DEF Awaits, IsSite, Waits
<1>8. CASE client_timer \/ stack_reused \/ \E u \in Torrents : five_seconds_pass(u)
  BY <1>8 DEF client_timer, stack_reused, five_seconds_pass, torrentVars
<1> QED
  BY <1>4, <1>5, <1>6, <1>7, <1>8 DEF Next

(* No late answer or result revives a UDP tracker that was given up, until   *)
(* arguments are overwritten: only the whole torrent starts anew.           *)
THEOREM LateAnswersAreLost == Spec => GivenUpStays
<1> DEFINE Kept == ~overwritten =>
          \A t \in Torrents : \A k \in Trackers(t) :
              k < active[t] /\ Schema[t][k] = "udp" /\ track'[t][k] # track[t][k]
                  => tr_state[t] = "FAILED"
<1>1. IInv /\ [Next]_vars => Kept
  <2> SUFFICES ASSUME IInv, [Next]_vars PROVE Kept
    OBVIOUS
  <2>1. CASE Next
    BY <2>1, ActiveTrackChanges
  <2>2. CASE UNCHANGED vars
    BY <2>2 DEF vars, torrentVars
  <2> QED
    BY <2>1, <2>2
<1> QED
  BY Invariance, <1>1, PTL DEF Spec, GivenUpStays

=============================================================================
