------------------------------ MODULE Session ------------------------------
(***************************************************************************)
(* The torrents of a session: the list that the commands add and delete    *)
(* edit (repl.c), the directory of .torrent files it is restored from      *)
(* (init_session.c), the arena each torrent lives in, and the work of the  *)
(* event loop and the pool threads that points into these arenas           *)
(* (main.c, announcer.c, tasks.c).                                         *)
(*                                                                         *)
(* An arena is an address range: arena_destroy unmaps it, and a later      *)
(* arena_create may map it again for another torrent.  To use one that is  *)
(* not mapped has no defined outcome.                                      *)
(***************************************************************************)
EXTENDS Integers, Sequences, FiniteSets

CONSTANTS
    Hashes,       \* info hashes of the .torrent files a user may add
    Names,        \* their names
    NameOf,       \* the names under which a hash may be added
    Arenas,       \* the address ranges
    MaxTorrents,  \* bound: entries of the list (128 in the code, unchecked)
    MaxWork,      \* bound: tasks of one arena, and pending events of one arena
    Faults        \* what may go wrong, see FaultKinds

(* "alloc": allocate_file fails.  "copy": copy_torrent_file fails.  "remove":*)
(* remove fails.  "busy": a torrent is deleted, or the program left, while  *)
(* work points into the arena.  "eof": standard input ends.                 *)
FaultKinds == {"alloc", "copy", "remove", "busy", "eof"}

(* What a name stands for without a file, or with one that does not parse.  *)
NoHash == "none"
Broken == "broken"

ASSUME SessionAssumption ==
    /\ NoHash \notin Hashes /\ Broken \notin Hashes
    /\ NameOf \in [Hashes -> SUBSET Names]
    /\ MaxTorrents \in Nat /\ MaxWork \in Nat
    /\ Faults \subseteq FaultKinds

VARIABLES
    process,   \* "init" in init_saved_torrents, "running", "spinning" after the
               \* end of the input, "leaving", "ended", "undefined"
    unread,    \* the names init_saved_torrents has still to read
    torrents,  \* session->torrents[0 .. torrents_count - 1]
    arena,     \* what is mapped at an address range
    tasks,     \* tasks of the pool, queued or running, that point into it
    pending,   \* UDP requests, connections and unread results that do
    saved,     \* the files of the torrent directory
    faultless  \* history: none of FaultKinds has happened, and no torrent was
               \* added under the name of another one's file

workVars == <<tasks, pending>>
vars == <<process, unread, torrents, arena, workVars, saved, faultless>>

Unmapped == [state |-> "unmapped"]
Torrent(h, n, s) == [state |-> s, hash |-> h, name |-> n]
Mapped == {a \in Arenas : arena[a] # Unmapped}
Listed == {torrents[k] : k \in DOMAIN torrents}

Init ==
    /\ process = "init"
    /\ unread = {}
    /\ torrents = <<>>
    /\ arena = [a \in Arenas |-> Unmapped]
    /\ tasks = [a \in Arenas |-> 0]
    /\ pending = [a \in Arenas |-> 0]
    /\ saved = [n \in Names |-> NoHash]
    /\ faultless = TRUE

(* A pointer into an address range that is not mapped is used.              *)
Undefined ==
    /\ process' = "undefined"
    /\ UNCHANGED <<unread, torrents, arena, workVars, saved, faultless>>

-----------------------------------------------------------------------------
(* main, init_saved_torrents                                               *)

(* CMD_add_init on a file that does not parse.                             *)
restore_broken(n) ==
    /\ process = "init" /\ n \in unread
    /\ saved[n] = Broken
    /\ unread' = unread \ {n}
    /\ UNCHANGED <<process, torrents, arena, workVars, saved, faultless>>

(* Definitions named X_... are the mistakes the properties are tried on; no *)
(* action uses them.  Here: what the parser says is not looked at.          *)
restore_unparsed(n) ==
    /\ process = "init" /\ n \in unread
    /\ Len(torrents) < MaxTorrents
    /\ unread' = unread \ {n}
    /\ \E a \in Arenas \ Mapped :
          /\ torrents' = Append(torrents, a)
          /\ arena' = [arena EXCEPT ![a] = Torrent(saved[n], n, "NEEDS_CHECK")]
    /\ UNCHANGED <<process, workVars, saved, faultless>>

(* CMD_add_init: is_duplicate_torrent is not asked.                        *)
restore(n) ==
    /\ process = "init" /\ n \in unread
    /\ saved[n] # Broken
    /\ Len(torrents) < MaxTorrents
    /\ unread' = unread \ {n}
    /\ \E a \in Arenas \ Mapped :
          /\ torrents' = Append(torrents, a)
          /\ arena' = [arena EXCEPT ![a] = Torrent(saved[n], n, "NEEDS_CHECK")]
    /\ UNCHANGED <<process, workVars, saved, faultless>>

(* allocate_file fails: the entry stays, its arena does not.               *)
restore_unallocated(n) ==
    /\ process = "init" /\ n \in unread
    /\ "alloc" \in Faults
    /\ saved[n] # Broken
    /\ Len(torrents) < MaxTorrents
    /\ unread' = unread \ {n}
    /\ \E a \in Arenas \ Mapped : torrents' = Append(torrents, a)
    /\ faultless' = FALSE
    /\ UNCHANGED <<process, arena, workVars, saved>>

(* The event loop starts.                                                  *)
restored ==
    /\ process = "init"
    /\ unread = {}
    /\ process' = "running"
    /\ UNCHANGED <<unread, torrents, arena, workVars, saved, faultless>>

-----------------------------------------------------------------------------
(* The commands                                                            *)

CanAdd(h, n) ==
    /\ process = "running"
    /\ n \in NameOf[h]
    /\ Len(torrents) < MaxTorrents

(* Restored torrents are not compared.                                      *)
IsDuplicate_new(h) == \E a \in Listed : arena[a].hash = h /\ arena[a].state = "DOWNLOADING"

(* is_duplicate_torrent                                                    *)
IsDuplicate(h) == \E a \in Listed : arena[a].hash = h

(* CMD_add                                                                 *)
CMD_add(h, n) ==
    /\ CanAdd(h, n)
    /\ Listed \subseteq Mapped
    /\ ~IsDuplicate(h)
    /\ \E a \in Arenas \ Mapped :
          /\ torrents' = Append(torrents, a)
          /\ arena' = [arena EXCEPT ![a] = Torrent(h, n, "DOWNLOADING")]
    /\ saved' = [saved EXCEPT ![n] = h]
    /\ faultless' = (faultless /\ saved[n] = NoHash)
    /\ UNCHANGED <<process, unread, workVars>>

(* copy_torrent_file fails: before it opens the destination, after a part   *)
(* of it is written, or when the source cannot be read to its end (the      *)
(* destination is removed).  The torrent stays.                             *)
add_unsaved(h, n) ==
    /\ CanAdd(h, n)
    /\ "copy" \in Faults
    /\ Listed \subseteq Mapped
    /\ ~IsDuplicate(h)
    /\ \E a \in Arenas \ Mapped :
          /\ torrents' = Append(torrents, a)
          /\ arena' = [arena EXCEPT ![a] = Torrent(h, n, "DOWNLOADING")]
    /\ \E left \in {saved[n], Broken, NoHash} : saved' = [saved EXCEPT ![n] = left]
    /\ faultless' = FALSE
    /\ UNCHANGED <<process, unread, workVars>>

(* allocate_file fails: the entry stays, its arena does not.               *)
add_unallocated(h, n) ==
    /\ CanAdd(h, n)
    /\ "alloc" \in Faults
    /\ Listed \subseteq Mapped
    /\ ~IsDuplicate(h)
    /\ \E a \in Arenas \ Mapped : torrents' = Append(torrents, a)
    /\ faultless' = FALSE
    /\ UNCHANGED <<process, unread, arena, workVars, saved>>

(* An entry of the list points nowhere when a command or a tick goes       *)
(* through the list: is_duplicate_torrent, CMD_list, CL_client_tick,        *)
(* ANN_refill_peers.  Or the input has ended: the list lies in the main     *)
(* arena, which is gone.  (Without torrents nothing of it is touched until a *)
(* terminal that had signalled its end is read on.)                         *)
list_undefined ==
    /\ \/ process = "running" /\ ~(Listed \subseteq Mapped)
       \/ process = "spinning"
    /\ Undefined

Work(a) == tasks[a] + pending[a]

(* The count stays; the last entry takes no place.                          *)
WithoutEntry_counted(k) == [torrents EXCEPT ![k] = torrents[Len(torrents)]]

(* torrents[k] gives its place to the last entry.                          *)
WithoutEntry(k) ==
    [j \in 1 .. Len(torrents) - 1 |-> IF j = k THEN torrents[Len(torrents)] ELSE torrents[j]]

(* The file of a torrent that is downloaded stays in the directory.        *)
CMD_delete_kept(k) ==
    /\ process = "running"
    /\ torrents[k] \in Mapped /\ Work(torrents[k]) = 0
    /\ LET t == arena[torrents[k]] IN
          saved' = IF t.state = "DOWNLOADING" THEN saved ELSE [saved EXCEPT ![t.name] = NoHash]
    /\ arena' = [arena EXCEPT ![torrents[k]] = Unmapped]
    /\ torrents' = WithoutEntry(k)
    /\ UNCHANGED <<process, unread, workVars, faultless>>

(* The file is removed after the list is mended, by the place k in it.      *)
CMD_delete_moved(k) ==
    /\ process = "running"
    /\ torrents[k] \in Mapped /\ Work(torrents[k]) = 0
    /\ torrents[Len(torrents)] \in Mapped
    /\ saved' = [saved EXCEPT ![arena[torrents[Len(torrents)]].name] = NoHash]
    /\ arena' = [arena EXCEPT ![torrents[k]] = Unmapped]
    /\ torrents' = WithoutEntry(k)
    /\ UNCHANGED <<process, unread, workVars, faultless>>

(* CMD_delete.  The file removed is the one of the torrent's name.         *)
CMD_delete(k) ==
    /\ process = "running"
    /\ torrents[k] \in Mapped
    /\ "busy" \in Faults \/ Work(torrents[k]) = 0
    /\ LET n == arena[torrents[k]].name IN
          \/ /\ saved' = [saved EXCEPT ![n] = NoHash]
             /\ faultless' = (faultless /\ Work(torrents[k]) = 0)
          \/ "remove" \in Faults /\ faultless' = FALSE /\ UNCHANGED saved
    /\ arena' = [arena EXCEPT ![torrents[k]] = Unmapped]
    /\ torrents' = WithoutEntry(k)
    /\ UNCHANGED <<process, unread, workVars>>

Distinct == \A j, k \in DOMAIN torrents : torrents[j] = torrents[k] => j = k

(* exit: the arenas are destroyed, then threadpool_destroy waits for the   *)
(* threads.                                                                *)
exit ==
    /\ process = "running"
    /\ Listed \subseteq Mapped /\ Distinct
    /\ "busy" \in Faults \/ \A a \in Arenas : tasks[a] = 0
    /\ process' = "leaving"
    /\ arena' = [a \in Arenas |-> IF a \in Listed THEN Unmapped ELSE arena[a]]
    /\ faultless' = (faultless /\ \A a \in Arenas : tasks[a] = 0)
    /\ UNCHANGED <<unread, torrents, workVars, saved>>

(* The same, or the end of the input, when two entries share an arena: it   *)
(* is read after the first of them has destroyed it.                        *)
exit_undefined ==
    /\ process = "running"
    /\ Listed \subseteq Mapped /\ ~Distinct
    /\ Undefined

(* threadpool_destroy has returned; tasks not started by then never are.   *)
joined ==
    /\ process = "leaving"
    /\ process' = "ended"
    /\ UNCHANGED <<unread, torrents, arena, workVars, saved, faultless>>

(* fgets fails: the arenas are destroyed, the main arena with the list in  *)
(* it too, and break leaves the inner loop only.  The outer one goes on:    *)
(* threads run, descriptors are served, and the next round finds the input  *)
(* at its end again and goes through the list that is gone.  (With an entry *)
(* whose arena is gone already, or two that share one: list_undefined,      *)
(* exit_undefined.)                                                         *)
stdin_eof ==
    /\ process = "running"
    /\ "eof" \in Faults
    /\ Listed \subseteq Mapped /\ Distinct
    /\ process' = "spinning"
    /\ arena' = [a \in Arenas |-> IF a \in Listed THEN Unmapped ELSE arena[a]]
    /\ faultless' = FALSE
    /\ UNCHANGED <<unread, torrents, workVars, saved>>

-----------------------------------------------------------------------------
(* Work that points into the arenas                                        *)

(* CL_client_tick and ANN_refill_peers, for entry k: a task, a request or a *)
(* connection.  A torrent that NEEDS_CHECK is passed over.                  *)
start_work(k) ==
    /\ process = "running"
    /\ Listed \subseteq Mapped
    /\ arena[torrents[k]].state = "DOWNLOADING"
    /\ LET a == torrents[k] IN
          \/ tasks[a] < MaxWork /\ tasks' = [tasks EXCEPT ![a] = @ + 1] /\ UNCHANGED pending
          \/ pending[a] < MaxWork /\ pending' = [pending EXCEPT ![a] = @ + 1] /\ UNCHANGED tasks
    /\ UNCHANGED <<process, unread, torrents, arena, saved, faultless>>

(* A thread runs a task and writes its result to the pipe.                 *)
run_task(a) ==
    /\ process = "running"
    /\ tasks[a] > 0
    /\ a \in Mapped
    /\ pending[a] < MaxWork
    /\ tasks' = [tasks EXCEPT ![a] = @ - 1]
    /\ pending' = [pending EXCEPT ![a] = @ + 1]
    /\ UNCHANGED <<process, unread, torrents, arena, saved, faultless>>

(* notify_pipe_readable, UDP_readable, on_peer_readable: one event less, and *)
(* a handler may push the next task of the same torrent.                     *)
handle_event(a) ==
    /\ process = "running"
    /\ pending[a] > 0
    /\ a \in Mapped
    /\ pending' = [pending EXCEPT ![a] = @ - 1]
    /\ \/ UNCHANGED tasks
       \/ tasks[a] < MaxWork /\ tasks' = [tasks EXCEPT ![a] = @ + 1]
    /\ UNCHANGED <<process, unread, torrents, arena, saved, faultless>>

work_undefined(a) ==
    /\ \/ process \in {"running", "spinning", "leaving"} /\ tasks[a] > 0
       \/ process \in {"running", "spinning"} /\ pending[a] > 0
    /\ a \notin Mapped
    /\ Undefined

-----------------------------------------------------------------------------
(* The process is killed, or has ended, and is started again.              *)
Started(files) ==
    /\ process' = "init"
    /\ unread' = {n \in Names : files[n] # NoHash}
    /\ torrents' = <<>>
    /\ arena' = [a \in Arenas |-> Unmapped]
    /\ tasks' = [a \in Arenas |-> 0]
    /\ pending' = [a \in Arenas |-> 0]
    /\ saved' = files
    /\ UNCHANGED faultless

start_again == Started(saved)

(* It is killed in copy_torrent_file, the destination not complete.         *)
killed_copying(h, n) ==
    /\ CanAdd(h, n)
    /\ Listed \subseteq Mapped
    /\ ~IsDuplicate(h)
    /\ Started([saved EXCEPT ![n] = Broken])

Command ==
    \/ \E h \in Hashes, n \in Names :
          CMD_add(h, n) \/ add_unsaved(h, n) \/ add_unallocated(h, n)
    \/ \E k \in DOMAIN torrents : CMD_delete(k)
    \/ exit \/ exit_undefined
    \/ stdin_eof

Restoring == \E n \in Names : restore_broken(n) \/ restore(n) \/ restore_unallocated(n)

Working ==
    \/ \E k \in DOMAIN torrents : start_work(k)
    \/ \E a \in Arenas : run_task(a) \/ handle_event(a) \/ work_undefined(a)

Next ==
    \/ Restoring
    \/ restored
    \/ Command
    \/ list_undefined
    \/ joined
    \/ Working
    \/ start_again
    \/ \E h \in Hashes, n \in Names : killed_copying(h, n)

Spec == Init /\ [][Next]_vars

(* The program, once started, gets to its event loop and goes on with it.   *)
Fairness ==
    /\ WF_vars(Restoring)
    /\ WF_vars(restored)
    /\ \A a \in Arenas : WF_vars(run_task(a)) /\ WF_vars(handle_event(a))
    /\ \A k \in 1 .. MaxTorrents : WF_vars(k \in DOMAIN torrents /\ start_work(k))

FairSpec == Spec /\ Fairness

-----------------------------------------------------------------------------
(* Properties                                                              *)

(* Types of all variables.                                                 *)
TypeOK ==
    /\ process \in {"init", "running", "spinning", "leaving", "ended", "undefined"}
    /\ unread \subseteq Names
    /\ torrents \in Seq(Arenas) /\ Len(torrents) <= MaxTorrents
    /\ arena \in [Arenas -> {Unmapped} \cup
           [state : {"NEEDS_CHECK", "DOWNLOADING"}, hash : Hashes, name : Names]]
    /\ tasks \in [Arenas -> 0 .. MaxWork]
    /\ pending \in [Arenas -> 0 .. MaxWork]
    /\ saved \in [Names -> Hashes \cup {NoHash, Broken}]
    /\ faultless \in BOOLEAN

(* Pointers into unmapped ranges: an entry of the list, a task, an event.   *)
Dangling ==
    {a \in Arenas : a \notin Mapped /\ (a \in Listed \/ Work(a) > 0)}

(* A pointer to a torrent outlives the torrent in five ways and no other:   *)
(* allocate_file failed and the entry stayed; a torrent was deleted whose   *)
(* work goes on; or it was deleted and shares its arena with an entry that  *)
(* such a failure had left; the program is left; the input has ended.       *)
DanglingOnlyThus ==
    [][\A a \in Arenas : a \notin Dangling /\ a \in Dangling' =>
          \/ a \notin Mapped /\ Len(torrents') > Len(torrents) /\ a = torrents'[Len(torrents')]
          \/ Work(a) > 0 /\ Len(torrents') < Len(torrents)
          \/ ~Distinct /\ Len(torrents') < Len(torrents)
          \/ process = "running" /\ process' \in {"leaving", "spinning"}]_vars

(* The saved file of a torrent in the list is lost when that torrent or     *)
(* another one of the same name is deleted, when another one of that name   *)
(* is added, and to a kill while a file of that name is copied.  Nothing    *)
(* else loses it, whatever fails: no other deletion, entry moved in the     *)
(* list, restore, or way to end.                                            *)
LostOnlyThus ==
    [][\A a \in Listed \cap Mapped : LET n == arena[a].name IN
          saved[n] = arena[a].hash /\ saved'[n] # saved[n] =>
             \/ process' = "running" /\ \E b \in Mapped \ Mapped' : arena[b].name = n
             \/ \E b \in Mapped' \ Mapped : arena'[b].name = n
             \/ process' = "init" /\ saved'[n] = Broken]_vars

(* While nothing has gone wrong, every pointer is to the arena of a torrent *)
(* and no two entries share one.                                            *)
MemorySafe ==
    faultless =>
        /\ process # "undefined"
        /\ process \in {"init", "running"} => Dangling = {} /\ Distinct

(* No torrent is in the list twice.  init_saved_torrents relies on the      *)
(* directory for that and does not look at the list.                        *)
NoDuplicates ==
    faultless /\ process \in {"init", "running"} =>
        \A j, k \in DOMAIN torrents :
            arena[torrents[j]].hash = arena[torrents[k]].hash => j = k

(* The directory holds the torrents of the list and no others, so that a    *)
(* process killed at any time starts again with what it had.                *)
ListedIsSaved ==
    faultless /\ process = "running" =>
        {arena[a].hash : a \in Listed} = {saved[n] : n \in Names} \ {NoHash, Broken}

(* A torrent restored at the start is downloaded or seeded some day.        *)
RestoredGoesOn ==
    \A a \in Arenas :
        arena[a].state = "NEEDS_CHECK" ~> arena[a].state # "NEEDS_CHECK"

=============================================================================
