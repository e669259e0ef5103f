---------------------------- MODULE SessionProofs ----------------------------
(***************************************************************************)
(* Proofs about Session, for any torrents, names, arenas and faults.       *)
(*                                                                         *)
(* The types need that only names with a file are still to be read.  That  *)
(* no torrent is listed twice needs, on top of MemorySafe, that listed     *)
(* torrents have names of their own under which the directory holds them,  *)
(* that no torrent is saved under two names, and that a saved torrent is   *)
(* in the list or still to be read (FilesInv).                             *)
(***************************************************************************)
EXTENDS Session, SequenceTheorems, TLAPS

UnreadInv ==
    /\ \A n \in unread : saved[n] # NoHash
    /\ unread # {} => process = "init"

TypeInv == TypeOK /\ UnreadInv

(* Every pointer is to an arena that is mapped; leaving, no thread works.   *)
PointersInv ==
    faultless =>
        /\ process \notin {"undefined", "spinning"}
        /\ process = "leaving" => \A a \in Arenas : tasks[a] = 0
        /\ process \in {"init", "running"} =>
              /\ Listed \subseteq Mapped
              /\ \A a \in Arenas \ Mapped : tasks[a] = 0 /\ pending[a] = 0
              /\ Distinct

SavedOnce ==
    \A m, n \in Names : saved[m] \in Hashes /\ saved[m] = saved[n] => m = n

OwnFiles ==
    /\ \A a \in Listed : arena[a].name \notin unread /\ saved[arena[a].name] = arena[a].hash
    /\ \A a, b \in Listed : arena[a].name = arena[b].name => a = b

ReadOrListed ==
    \A n \in Names : saved[n] \in Hashes =>
        n \in unread \/ \E a \in Listed : arena[a].name = n

FilesInv ==
    faultless =>
        /\ SavedOnce
        /\ process \in {"init", "running"} => OwnFiles /\ ReadOrListed

IInv == TypeInv /\ PointersInv /\ FilesInv

-----------------------------------------------------------------------------
(* The list                                                                 *)

LEMMA ListedArenas == TypeOK => Listed \subseteq Arenas /\ Mapped \subseteq Arenas
  BY DEF TypeOK, Listed, Mapped

LEMMA Record ==
    ASSUME TypeOK, NEW a \in Mapped
    PROVE  /\ a \in Arenas
           /\ arena[a].hash \in Hashes
           /\ arena[a].name \in Names
           /\ arena[a].state \in {"NEEDS_CHECK", "DOWNLOADING"}
  BY DEF TypeOK, Mapped, Unmapped

LEMMA NewRecord ==
    ASSUME NEW h \in Hashes, NEW n \in Names, NEW s \in {"NEEDS_CHECK", "DOWNLOADING"}
    PROVE  /\ Torrent(h, n, s) \in [state : {"NEEDS_CHECK", "DOWNLOADING"}, hash : Hashes, name : Names]
           /\ Torrent(h, n, s) # Unmapped
           /\ Torrent(h, n, s).hash = h
           /\ Torrent(h, n, s).name = n
<1>1. Torrent(h, n, s).state # Unmapped.state
  BY DEF Torrent, Unmapped
<1> QED
  BY <1>1 DEF Torrent

(* What a torrent added at the end of the list changes.                     *)
LEMMA EntryAdded ==
    ASSUME TypeOK, NEW a \in Arenas, torrents' = Append(torrents, a)
    PROVE  /\ torrents' \in Seq(Arenas)
           /\ Len(torrents') = Len(torrents) + 1
           /\ torrents'[Len(torrents')] = a
           /\ Listed' = Listed \cup {a}
           /\ Distinct /\ a \notin Listed => Distinct'
<1>1. torrents \in Seq(Arenas) /\ Len(torrents) \in Nat /\ DOMAIN torrents = 1 .. Len(torrents)
  BY DEF TypeOK
<1>2. /\ torrents' \in Seq(Arenas)
      /\ Len(torrents') = Len(torrents) + 1
      /\ DOMAIN torrents' = 1 .. Len(torrents) + 1
      /\ torrents'[Len(torrents) + 1] = a
      /\ \A j \in 1 .. Len(torrents) : torrents'[j] = torrents[j]
  BY <1>1
<1>3. DOMAIN torrents' = DOMAIN torrents \cup {Len(torrents) + 1}
  BY <1>1, <1>2
<1>4. Listed' = Listed \cup {a}
  BY <1>1, <1>2, <1>3 DEF Listed
<1>5. Distinct /\ a \notin Listed => Distinct'
  BY <1>1, <1>2, <1>3 DEF Distinct, Listed
<1> QED
  BY <1>2, <1>4, <1>5

(* What the removal of entry k changes.                                     *)
LEMMA EntryRemoved ==
    ASSUME TypeOK, NEW k \in DOMAIN torrents, torrents' = WithoutEntry(k)
    PROVE  /\ torrents[k] \in Arenas /\ torrents[k] \in Listed
           /\ torrents' \in Seq(Arenas)
           /\ Len(torrents') = Len(torrents) - 1
           /\ Listed' \subseteq Listed
           /\ Distinct => Distinct' /\ Listed' = Listed \ {torrents[k]}
<1> DEFINE n == Len(torrents)
<1>1. torrents \in Seq(Arenas) /\ n \in Nat /\ DOMAIN torrents = 1 .. n
  BY DEF TypeOK
<1>2. n \in 1 .. n /\ k \in 1 .. n /\ n - 1 \in Nat
  BY <1>1
<1>3. torrents' = [j \in 1 .. n - 1 |-> IF j = k THEN torrents[n] ELSE torrents[j]]
  BY DEF WithoutEntry
<1>4. \A j \in 1 .. n : torrents[j] \in Arenas
  BY <1>1
<1>5. \A j \in 1 .. n - 1 : (IF j = k THEN torrents[n] ELSE torrents[j]) \in Arenas
  BY <1>2, <1>4
<1>6. torrents' \in Seq(Arenas)
  BY <1>2, <1>3, <1>5, IsASeq
<1>7. Len(torrents') = n - 1 /\ DOMAIN torrents' = 1 .. n - 1
  BY <1>2, <1>3, <1>6
<1>8. Listed' \subseteq Listed
  BY <1>1, <1>2, <1>3, <1>7 DEF Listed
<1>9. ASSUME Distinct
      PROVE  Distinct' /\ Listed' = Listed \ {torrents[k]}
  <2>1. Distinct'
    BY <1>1, <1>2, <1>3, <1>7, <1>9 DEF Distinct
  <2>2. \A j \in 1 .. n - 1 : torrents'[j] # torrents[k]
    BY <1>1, <1>2, <1>3, <1>9 DEF Distinct
  <2>3. ASSUME NEW j \in 1 .. n, torrents[j] # torrents[k]
        PROVE  \E i \in 1 .. n - 1 : torrents'[i] = torrents[j]
    <3>1. CASE j = n
      <4>1. k \in 1 .. n - 1
        BY <1>1, <1>2, <2>3, <3>1
      <4> QED
        BY <1>3, <3>1, <4>1
    <3>2. CASE j # n
      <4>1. j # k
        BY <2>3
      <4>2. j \in 1 .. n - 1
        BY <1>2, <3>2
      <4> QED
        BY <1>3, <4>1, <4>2
    <3> QED
      BY <3>1, <3>2
  <2>4. Listed' = {torrents'[i] : i \in 1 .. n - 1} /\ Listed = {torrents[i] : i \in 1 .. n}
    BY <1>1, <1>7 DEF Listed
  <2>5. torrents[k] \notin Listed'
    BY <2>2, <2>4
  <2>6. Listed \ {torrents[k]} \subseteq Listed'
    BY <2>3, <2>4
  <2> QED
    BY <1>8, <2>1, <2>5, <2>6
<1> QED
  BY <1>1, <1>2, <1>4, <1>6, <1>7, <1>8, <1>9 DEF Listed

-----------------------------------------------------------------------------
(* Types                                                                    *)

LEMMA InitEstablishesTypes == Init => TypeInv
<1> SUFFICES ASSUME Init PROVE TypeInv
  OBVIOUS
<1>1. <<>> \in Seq(Arenas) /\ Len(<<>>) = 0
  OBVIOUS
<1> QED
  BY <1>1, SessionAssumption DEF Init, TypeInv, TypeOK, UnreadInv

(* A torrent is restored or added in an arena that was not mapped.           *)
LEMMA MappingKeepsTypes ==
    ASSUME TypeOK, NEW a \in Arenas, NEW h \in Hashes, NEW n \in Names,
           NEW s \in {"NEEDS_CHECK", "DOWNLOADING"},
           arena' = [arena EXCEPT ![a] = Torrent(h, n, s)]
    PROVE  /\ arena' \in [Arenas -> {Unmapped} \cup
                  [state : {"NEEDS_CHECK", "DOWNLOADING"}, hash : Hashes, name : Names]]
           /\ arena'[a].hash = h /\ arena'[a].name = n
           /\ \A b \in Arenas \ {a} : arena'[b] = arena[b]
           /\ Mapped' = Mapped \cup {a}
<1>1. arena' \in [Arenas -> {Unmapped} \cup
         [state : {"NEEDS_CHECK", "DOWNLOADING"}, hash : Hashes, name : Names]]
  BY NewRecord DEF TypeOK
<1>2. arena'[a] = Torrent(h, n, s) /\ \A b \in Arenas \ {a} : arena'[b] = arena[b]
  BY DEF TypeOK
<1>3. Mapped' = Mapped \cup {a}
  BY <1>2, NewRecord DEF Mapped
<1> QED
  BY <1>1, <1>2, <1>3, NewRecord

LEMMA StepKeepsTypes ==
    ASSUME TypeInv, [Next]_vars
    PROVE  TypeInv'
<1> USE DEF TypeInv, UnreadInv
<1>1. ASSUME NEW n \in Names, restore_broken(n) PROVE TypeInv'
  BY <1>1 DEF restore_broken, TypeOK, workVars
<1>2. ASSUME NEW n \in Names, restore(n) PROVE TypeInv'
  <2>1. saved[n] \in Hashes
    BY <1>2 DEF restore, TypeOK
  <2>2. PICK a \in Arenas \ Mapped :
           /\ torrents' = Append(torrents, a)
           /\ arena' = [arena EXCEPT ![a] = Torrent(saved[n], n, "NEEDS_CHECK")]
    BY <1>2 DEF restore
  <2>3. torrents' \in Seq(Arenas) /\ Len(torrents') <= MaxTorrents
    BY <1>2, <2>2, EntryAdded, SessionAssumption DEF restore, TypeOK
  <2>4. arena' \in [Arenas -> {Unmapped} \cup
           [state : {"NEEDS_CHECK", "DOWNLOADING"}, hash : Hashes, name : Names]]
    BY <2>1, <2>2, MappingKeepsTypes
  <2> QED
    BY <1>2, <2>3, <2>4 DEF restore, TypeOK, workVars
<1>3. ASSUME NEW n \in Names, restore_unallocated(n) PROVE TypeInv'
  <2>1. PICK a \in Arenas \ Mapped : torrents' = Append(torrents, a)
    BY <1>3 DEF restore_unallocated
  <2>2. torrents' \in Seq(Arenas) /\ Len(torrents') <= MaxTorrents
    BY <1>3, <2>1, EntryAdded, SessionAssumption DEF restore_unallocated, TypeOK
  <2> QED
    BY <1>3, <2>2 DEF restore_unallocated, TypeOK, workVars
<1>4. CASE restored
  BY <1>4 DEF restored, TypeOK, workVars
<1>5. ASSUME NEW h \in Hashes, NEW n \in Names, CMD_add(h, n) PROVE TypeInv'
  <2>1. PICK a \in Arenas \ Mapped :
           /\ torrents' = Append(torrents, a)
           /\ arena' = [arena EXCEPT ![a] = Torrent(h, n, "DOWNLOADING")]
    BY <1>5 DEF CMD_add
  <2>2. torrents' \in Seq(Arenas) /\ Len(torrents') <= MaxTorrents
    BY <1>5, <2>1, EntryAdded, SessionAssumption DEF CMD_add, CanAdd, TypeOK
  <2>3. arena' \in [Arenas -> {Unmapped} \cup
           [state : {"NEEDS_CHECK", "DOWNLOADING"}, hash : Hashes, name : Names]]
    BY <2>1, MappingKeepsTypes
  <2>4. saved' \in [Names -> Hashes \cup {NoHash, Broken}] /\ faultless' \in BOOLEAN
    BY <1>5 DEF CMD_add, TypeOK
  <2> QED
    BY <1>5, <2>2, <2>3, <2>4 DEF CMD_add, CanAdd, TypeOK, workVars
<1>6. ASSUME NEW h \in Hashes, NEW n \in Names, add_unsaved(h, n) PROVE TypeInv'
  <2>1. PICK a \in Arenas \ Mapped :
           /\ torrents' = Append(torrents, a)
           /\ arena' = [arena EXCEPT ![a] = Torrent(h, n, "DOWNLOADING")]
    BY <1>6 DEF add_unsaved
  <2>2. torrents' \in Seq(Arenas) /\ Len(torrents') <= MaxTorrents
    BY <1>6, <2>1, EntryAdded, SessionAssumption DEF add_unsaved, CanAdd, TypeOK
  <2>3. arena' \in [Arenas -> {Unmapped} \cup
           [state : {"NEEDS_CHECK", "DOWNLOADING"}, hash : Hashes, name : Names]]
    BY <2>1, MappingKeepsTypes
  <2>4. saved' \in [Names -> Hashes \cup {NoHash, Broken}]
    BY <1>6 DEF add_unsaved, TypeOK
  <2> QED
    BY <1>6, <2>2, <2>3, <2>4 DEF add_unsaved, CanAdd, TypeOK, workVars
<1>7. ASSUME NEW h \in Hashes, NEW n \in Names, add_unallocated(h, n) PROVE TypeInv'
  <2>1. PICK a \in Arenas \ Mapped : torrents' = Append(torrents, a)
    BY <1>7 DEF add_unallocated
  <2>2. torrents' \in Seq(Arenas) /\ Len(torrents') <= MaxTorrents
    BY <1>7, <2>1, EntryAdded, SessionAssumption DEF add_unallocated, CanAdd, TypeOK
  <2> QED
    BY <1>7, <2>2 DEF add_unallocated, CanAdd, TypeOK, workVars
<1>8. ASSUME NEW k \in DOMAIN torrents, CMD_delete(k) PROVE TypeInv'
  <2>1. torrents' \in Seq(Arenas) /\ Len(torrents') <= MaxTorrents
    <3>1. torrents' = WithoutEntry(k)
      BY <1>8 DEF CMD_delete
    <3> QED
      BY <3>1, EntryRemoved, SessionAssumption DEF TypeOK
  <2>2. arena' \in [Arenas -> {Unmapped} \cup
           [state : {"NEEDS_CHECK", "DOWNLOADING"}, hash : Hashes, name : Names]]
    BY <1>8 DEF CMD_delete, TypeOK
  <2>3. saved' \in [Names -> Hashes \cup {NoHash, Broken}] /\ faultless' \in BOOLEAN
    BY <1>8 DEF CMD_delete, TypeOK
  <2> QED
    BY <1>8, <2>1, <2>2, <2>3 DEF CMD_delete, TypeOK, workVars
<1>9. CASE exit
  BY <1>9 DEF exit, TypeOK, workVars
<1>10. CASE exit_undefined \/ list_undefined \/ \E a \in Arenas : work_undefined(a)
  BY <1>10 DEF exit_undefined, list_undefined, work_undefined, Undefined, TypeOK, workVars
<1>11. CASE stdin_eof
  BY <1>11 DEF stdin_eof, TypeOK, workVars
<1>12. ASSUME NEW k \in DOMAIN torrents, start_work(k) PROVE TypeInv'
  <2>1. PICK a \in Arenas : a = torrents[k]
    BY DEF TypeOK
  <2>2. \/ tasks[a] < MaxWork /\ tasks' = [tasks EXCEPT ![a] = @ + 1] /\ UNCHANGED pending
        \/ pending[a] < MaxWork /\ pending' = [pending EXCEPT ![a] = @ + 1] /\ UNCHANGED tasks
    BY <1>12, <2>1 DEF start_work
  <2>3. tasks' \in [Arenas -> 0 .. MaxWork] /\ pending' \in [Arenas -> 0 .. MaxWork]
    <3>1. CASE tasks[a] < MaxWork /\ tasks' = [tasks EXCEPT ![a] = @ + 1] /\ UNCHANGED pending
      BY <3>1, SessionAssumption DEF TypeOK
    <3>2. CASE pending[a] < MaxWork /\ pending' = [pending EXCEPT ![a] = @ + 1] /\ UNCHANGED tasks
      BY <3>2, SessionAssumption DEF TypeOK
    <3> QED
      BY <2>2, <3>1, <3>2
  <2> QED
    BY <1>12, <2>3 DEF start_work, TypeOK
<1>13. ASSUME NEW a \in Arenas, run_task(a) PROVE TypeInv'
  <2>1. tasks' \in [Arenas -> 0 .. MaxWork] /\ pending' \in [Arenas -> 0 .. MaxWork]
    BY <1>13, SessionAssumption DEF run_task, TypeOK
  <2> QED
    BY <1>13, <2>1 DEF run_task, TypeOK
<1>14. ASSUME NEW a \in Arenas, handle_event(a) PROVE TypeInv'
  <2>1. tasks' \in [Arenas -> 0 .. MaxWork] /\ pending' \in [Arenas -> 0 .. MaxWork]
    BY <1>14, SessionAssumption DEF handle_event, TypeOK
  <2> QED
    BY <1>14, <2>1 DEF handle_event, TypeOK
<1>15. CASE joined
  BY <1>15 DEF joined, TypeOK, workVars
<1>16. ASSUME NEW files \in [Names -> Hashes \cup {NoHash, Broken}], Started(files)
       PROVE  TypeInv'
  <2>1. <<>> \in Seq(Arenas) /\ Len(<<>>) = 0
    OBVIOUS
  <2> QED
    BY <1>16, <2>1, SessionAssumption DEF Started, TypeOK
<1>17. CASE start_again
  BY <1>16, <1>17 DEF start_again, TypeOK
<1>18. ASSUME NEW h \in Hashes, NEW n \in Names, killed_copying(h, n) PROVE TypeInv'
  <2>1. [saved EXCEPT ![n] = Broken] \in [Names -> Hashes \cup {NoHash, Broken}]
    BY DEF TypeOK
  <2> QED
    BY <1>16, <1>18, <2>1 DEF killed_copying
<1>19. CASE UNCHANGED vars
  BY <1>19 DEF vars, workVars, TypeOK
<1> QED
  BY <1>1, <1>2, <1>3, <1>4, <1>5, <1>6, <1>7, <1>8, <1>9, <1>10, <1>11, <1>12, <1>13, <1>14,
     <1>15, <1>17, <1>18, <1>19 DEF Next, Restoring, Command, Working

(* The variables keep their types.                                          *)
THEOREM SessionTypeCorrect == Spec => []TypeOK
<1>1. TypeInv /\ [Next]_vars => TypeInv'
  BY StepKeepsTypes
<1>2. TypeInv => TypeOK
  BY DEF TypeInv
<1> QED
  BY InitEstablishesTypes, <1>1, <1>2, PTL DEF Spec

-----------------------------------------------------------------------------
(* Pointers                                                                 *)

LEMMA FaultlessBefore ==
    ASSUME TypeInv, [Next]_vars, faultless'
    PROVE  faultless
  BY DEF TypeInv, TypeOK, Next, Restoring, Command, Working, vars, restore_broken, restore,
         restore_unallocated, restored, CMD_add, add_unsaved, add_unallocated, CMD_delete, exit,
         exit_undefined, stdin_eof, list_undefined, joined, start_work, run_task, handle_event,
         work_undefined, Undefined, start_again, killed_copying, Started

LEMMA InitEstablishesPointers == Init => PointersInv
<1> SUFFICES ASSUME Init PROVE PointersInv
  OBVIOUS
<1>1. DOMAIN torrents = {}
  BY DEF Init
<1> QED
  BY <1>1 DEF Init, PointersInv, Listed, Distinct, Mapped

(* Without faults no step uses a pointer to where nothing is mapped.         *)
LEMMA NothingUndefined ==
    ASSUME TypeInv, PointersInv, faultless
    PROVE  /\ ~exit_undefined
           /\ ~list_undefined
           /\ \A a \in Arenas : ~work_undefined(a)
<1>1. ~exit_undefined /\ ~list_undefined
  BY DEF PointersInv, exit_undefined, list_undefined
<1>2. ASSUME NEW a \in Arenas, work_undefined(a) PROVE FALSE
  <2>1. a \in Arenas \ Mapped
    BY <1>2 DEF work_undefined
  <2>2. CASE process = "leaving"
    BY <1>2, <2>2 DEF PointersInv, work_undefined
  <2>3. CASE process # "leaving"
    BY <1>2, <2>1, <2>3 DEF PointersInv, work_undefined
  <2> QED
    BY <2>2, <2>3
<1> QED
  BY <1>1, <1>2

LEMMA StepKeepsPointers ==
    ASSUME TypeInv, PointersInv, [Next]_vars
    PROVE  PointersInv'
<1> SUFFICES ASSUME faultless'
             PROVE  PointersInv'
  BY DEF PointersInv
<1> USE DEF TypeInv
<1>0. faultless
  BY FaultlessBefore
<1>1. ASSUME NEW n \in Names, restore_broken(n) PROVE PointersInv'
  BY <1>0, <1>1 DEF restore_broken, PointersInv, Listed, Mapped, Distinct, workVars
<1>2. ASSUME NEW a \in Arenas \ Mapped, NEW h \in Hashes, NEW n \in Names,
             NEW s \in {"NEEDS_CHECK", "DOWNLOADING"},
             process \in {"init", "running"}, process' = process, UNCHANGED workVars,
             torrents' = Append(torrents, a),
             arena' = [arena EXCEPT ![a] = Torrent(h, n, s)]
      PROVE  PointersInv'
  <2>1. Listed' = Listed \cup {a} /\ (Distinct /\ a \notin Listed => Distinct')
    BY <1>2, EntryAdded
  <2>2. Mapped' = Mapped \cup {a}
    BY <1>2, MappingKeepsTypes
  <2> QED
    BY <1>0, <1>2, <2>1, <2>2 DEF PointersInv, workVars
<1>3. ASSUME NEW n \in Names, restore(n) PROVE PointersInv'
  <2>1. saved[n] \in Hashes
    BY <1>3 DEF restore, TypeOK, UnreadInv
  <2> QED
    BY <1>2, <1>3, <2>1 DEF restore
<1>4. CASE restored
  BY <1>0, <1>4 DEF restored, PointersInv, Listed, Mapped, Distinct, workVars
<1>5. ASSUME NEW h \in Hashes, NEW n \in Names, CMD_add(h, n) PROVE PointersInv'
  BY <1>2, <1>5 DEF CMD_add, CanAdd
<1>6. ASSUME NEW k \in DOMAIN torrents, CMD_delete(k) PROVE PointersInv'
  <2> DEFINE a == torrents[k]
  <2>1. a \in Arenas /\ a \in Listed /\ torrents' = WithoutEntry(k)
    BY <1>6, EntryRemoved DEF CMD_delete
  <2>2. process = "running" /\ process' = "running" /\ UNCHANGED workVars
    BY <1>6 DEF CMD_delete, workVars
  <2>3. Work(a) = 0
    BY <1>6 DEF CMD_delete
  <2>4. tasks[a] = 0 /\ pending[a] = 0
    BY <2>1, <2>3, SessionAssumption DEF Work, TypeOK
  <2>5. Distinct /\ Listed \subseteq Mapped
    BY <1>0, <2>2 DEF PointersInv
  <2>6. Listed' = Listed \ {a} /\ Distinct'
    BY <2>1, <2>5, EntryRemoved
  <2>7. Mapped' = Mapped \ {a}
    BY <1>6, <2>1 DEF CMD_delete, Mapped, TypeOK
  <2> HIDE DEF a
  <2> QED
    BY <1>0, <2>1, <2>2, <2>4, <2>5, <2>6, <2>7 DEF PointersInv, workVars
<1>7. CASE exit
  BY <1>7 DEF exit, PointersInv, workVars
<1>8. CASE joined
  BY <1>8 DEF joined, PointersInv
<1>9. ASSUME NEW k \in DOMAIN torrents, start_work(k) PROVE PointersInv'
  <2>1. PICK a \in Arenas : a = torrents[k] /\ a \in Listed
    BY DEF TypeOK, Listed
  <2>2. a \in Mapped /\ process = "running"
    BY <1>9, <2>1 DEF start_work
  <2>3. \A b \in Arenas \ {a} : tasks'[b] = tasks[b] /\ pending'[b] = pending[b]
    BY <1>9, <2>1 DEF start_work, TypeOK
  <2>4. UNCHANGED <<process, torrents, arena>>
    BY <1>9 DEF start_work
  <2> QED
    BY <1>0, <2>2, <2>3, <2>4 DEF PointersInv, Listed, Mapped, Distinct
<1>10. ASSUME NEW a \in Arenas, run_task(a) \/ handle_event(a) PROVE PointersInv'
  <2>1. a \in Mapped /\ process = "running"
    BY <1>10 DEF run_task, handle_event
  <2>2. \A b \in Arenas \ {a} : tasks'[b] = tasks[b] /\ pending'[b] = pending[b]
    BY <1>10 DEF run_task, handle_event, TypeOK
  <2>3. UNCHANGED <<process, torrents, arena>>
    BY <1>10 DEF run_task, handle_event
  <2> QED
    BY <1>0, <2>1, <2>2, <2>3 DEF PointersInv, Listed, Mapped, Distinct
<1>11. ASSUME NEW files, Started(files) PROVE PointersInv'
  <2>1. Listed' = {} /\ Distinct' /\ Mapped' = {}
    BY <1>11 DEF Started, Listed, Distinct, Mapped
  <2> QED
    BY <1>11, <2>1 DEF Started, PointersInv
<1>12. CASE start_again \/ \E h \in Hashes, n \in Names : killed_copying(h, n)
  BY <1>11, <1>12 DEF start_again, killed_copying
<1>13. CASE UNCHANGED vars
  BY <1>0, <1>13 DEF vars, workVars, PointersInv, Listed, Mapped, Distinct
<1>14. /\ \A n \in Names : ~restore_unallocated(n)
       /\ \A h \in Hashes, n \in Names : ~add_unsaved(h, n) /\ ~add_unallocated(h, n)
       /\ ~stdin_eof
  BY DEF restore_unallocated, add_unsaved, add_unallocated, stdin_eof
<1> QED
  BY <1>0, <1>1, <1>3, <1>4, <1>5, <1>6, <1>7, <1>8, <1>9, <1>10, <1>12, <1>13, <1>14,
     NothingUndefined DEF Next, Restoring, Command, Working

(* While nothing has gone wrong, every pointer is to the arena of a torrent  *)
(* and no two entries share one.                                            *)
THEOREM PointersAreSafe == Spec => []MemorySafe
<1>1. TypeInv /\ PointersInv /\ [Next]_vars => (TypeInv /\ PointersInv)'
  BY StepKeepsTypes, StepKeepsPointers
<1>2. TypeInv /\ PointersInv => MemorySafe
  <2> SUFFICES ASSUME TypeInv, PointersInv, faultless
               PROVE  /\ process # "undefined"
                      /\ process \in {"init", "running"} => Dangling = {} /\ Distinct
    BY DEF MemorySafe
  <2>1. \A a \in Arenas : tasks[a] = 0 /\ pending[a] = 0 => ~(Work(a) > 0)
    BY DEF Work
  <2> QED
    BY <2>1 DEF PointersInv, Dangling
<1> QED
  BY InitEstablishesTypes, InitEstablishesPointers, <1>1, <1>2, PTL DEF Spec

-----------------------------------------------------------------------------
(* The list and the directory                                               *)

LEMMA InitEstablishesFiles == Init => FilesInv
<1> SUFFICES ASSUME Init PROVE FilesInv
  OBVIOUS
<1>1. Listed = {} /\ \A n \in Names : saved[n] = NoHash
  BY DEF Init, Listed
<1> QED
  BY <1>1, SessionAssumption DEF FilesInv, SavedOnce, OwnFiles, ReadOrListed

(* What is read into an arena and listed under the name of its file.        *)
LEMMA ReadingKeepsFiles ==
    ASSUME TypeOK, OwnFiles, ReadOrListed, Listed \subseteq Mapped,
           NEW a \in Arenas \ Mapped, NEW h \in Hashes, NEW n \in Names,
           NEW s \in {"NEEDS_CHECK", "DOWNLOADING"},
           torrents' = Append(torrents, a),
           arena' = [arena EXCEPT ![a] = Torrent(h, n, s)],
           \A b \in Listed : arena[b].name # n,
           \A m \in Names \ {n} : saved'[m] = saved[m],
           saved'[n] = h,
           unread' = unread \ {n}
    PROVE  OwnFiles' /\ ReadOrListed'
<1>1. Listed' = Listed \cup {a}
  BY EntryAdded
<1>2. arena'[a].hash = h /\ arena'[a].name = n /\ \A b \in Arenas \ {a} : arena'[b] = arena[b]
  <2>1. a \in Arenas
    OBVIOUS
  <2> QED
    BY ONLY <2>1, MappingKeepsTypes, TypeOK, h \in Hashes, n \in Names,
       s \in {"NEEDS_CHECK", "DOWNLOADING"}, arena' = [arena EXCEPT ![a] = Torrent(h, n, s)]
<1>3. \A b \in Listed : /\ b \in Arenas \ {a} /\ arena'[b] = arena[b]
                        /\ arena[b].name \in Names \ {n}
  BY <1>2, Record, ListedArenas
<1>4. OwnFiles'
  BY <1>1, <1>2, <1>3 DEF OwnFiles
<1>5. ASSUME NEW m \in Names, saved'[m] \in Hashes
      PROVE  m \in unread' \/ \E b \in Listed' : arena'[b].name = m
  <2>1. CASE m = n
    BY <1>1, <1>2, <2>1
  <2>2. CASE m # n
    BY <1>1, <1>3, <1>5, <2>2 DEF ReadOrListed
  <2> QED
    BY <2>1, <2>2
<1> QED
  BY <1>4, <1>5 DEF ReadOrListed

LEMMA StepKeepsFiles ==
    ASSUME TypeInv, PointersInv, FilesInv, [Next]_vars
    PROVE  FilesInv'
<1> SUFFICES ASSUME faultless'
             PROVE  FilesInv'
  BY DEF FilesInv
<1> USE DEF TypeInv
<1>0. faultless /\ SavedOnce
  BY FaultlessBefore DEF FilesInv
<1>1. ASSUME process \in {"init", "running"}
      PROVE  /\ OwnFiles /\ ReadOrListed
             /\ Listed \subseteq Mapped /\ Distinct
  BY <1>0, <1>1 DEF FilesInv, PointersInv
<1>2. ASSUME NEW n \in Names, restore_broken(n) PROVE FilesInv'
  <2>1. process = "init" /\ saved[n] = Broken /\ unread' = unread \ {n}
    BY <1>2 DEF restore_broken
  <2>2. UNCHANGED <<process, torrents, arena, saved>>
    BY <1>2 DEF restore_broken
  <2>3. OwnFiles' /\ SavedOnce'
    BY <1>0, <1>1, <2>1, <2>2 DEF OwnFiles, SavedOnce, Listed
  <2>4. ReadOrListed'
    BY <1>1, <2>1, <2>2, SessionAssumption DEF ReadOrListed, Listed
  <2> QED
    BY <2>3, <2>4 DEF FilesInv
<1>3. ASSUME NEW n \in Names, restore(n) PROVE FilesInv'
  <2>1. process = "init" /\ n \in unread /\ unread' = unread \ {n} /\ UNCHANGED saved
    BY <1>3 DEF restore
  <2>2. saved[n] \in Hashes
    BY <1>3 DEF restore, TypeOK, UnreadInv
  <2>3. PICK a \in Arenas \ Mapped :
           /\ torrents' = Append(torrents, a)
           /\ arena' = [arena EXCEPT ![a] = Torrent(saved[n], n, "NEEDS_CHECK")]
    BY <1>3 DEF restore
  <2>4. \A b \in Listed : arena[b].name # n
    BY <1>1, <2>1 DEF OwnFiles
  <2>5. OwnFiles' /\ ReadOrListed'
    BY <1>1, <2>1, <2>2, <2>3, <2>4, ReadingKeepsFiles
  <2>6. SavedOnce'
    BY <1>0, <2>1 DEF SavedOnce
  <2> QED
    BY <2>5, <2>6 DEF FilesInv
<1>4. CASE restored
  <2>1. process = "init" /\ UNCHANGED <<unread, torrents, arena, saved>>
    BY <1>4 DEF restored
  <2> QED
    BY <1>0, <1>1, <2>1 DEF FilesInv, SavedOnce, OwnFiles, ReadOrListed, Listed
<1>5. ASSUME NEW h \in Hashes, NEW n \in Names, CMD_add(h, n) PROVE FilesInv'
  <2>1. process = "running" /\ saved[n] = NoHash /\ unread = {} /\ UNCHANGED unread
    BY <1>0, <1>5 DEF CMD_add, CanAdd, UnreadInv
  <2>2. ~IsDuplicate(h) /\ saved' = [saved EXCEPT ![n] = h]
    BY <1>5 DEF CMD_add
  <2>3. PICK a \in Arenas \ Mapped :
           /\ torrents' = Append(torrents, a)
           /\ arena' = [arena EXCEPT ![a] = Torrent(h, n, "DOWNLOADING")]
    BY <1>5 DEF CMD_add
  <2>4. saved'[n] = h /\ \A m \in Names \ {n} : saved'[m] = saved[m]
    BY <2>2 DEF TypeOK
  <2>5. \A b \in Listed : arena[b].name # n
    BY <1>1, <2>1, Record, SessionAssumption DEF OwnFiles
  <2>6. OwnFiles' /\ ReadOrListed'
    BY <1>1, <2>1, <2>3, <2>4, <2>5, ReadingKeepsFiles
  <2>7. \A m \in Names : saved[m] # h
    BY <1>1, <2>1, <2>2 DEF ReadOrListed, OwnFiles, IsDuplicate
  <2>8. SavedOnce'
    BY <1>0, <2>4, <2>7 DEF SavedOnce
  <2> QED
    BY <2>6, <2>8 DEF FilesInv
<1>6. ASSUME NEW k \in DOMAIN torrents, CMD_delete(k) PROVE FilesInv'
  <2> DEFINE a == torrents[k]
             n == arena[a].name
  <2>1. process = "running" /\ unread = {} /\ UNCHANGED unread
    BY <1>6 DEF CMD_delete, UnreadInv
  <2>2. a \in Arenas /\ a \in Listed /\ Listed' = Listed \ {a}
    BY <1>1, <1>6, <2>1, EntryRemoved DEF CMD_delete
  <2>3. n \in Names
    BY <1>1, <2>1, <2>2, Record
  <2>4. saved' = [saved EXCEPT ![n] = NoHash] /\ arena' = [arena EXCEPT ![a] = Unmapped]
    BY <1>6 DEF CMD_delete
  <2> HIDE DEF n, a
  <2>5. saved'[n] = NoHash /\ \A m \in Names \ {n} : saved'[m] = saved[m]
    BY <2>3, <2>4 DEF TypeOK
  <2>6. \A b \in Listed' : arena'[b] = arena[b] /\ arena[b].name \in Names \ {n}
    <3> SUFFICES ASSUME NEW b \in Listed'
                 PROVE  arena'[b] = arena[b] /\ arena[b].name \in Names \ {n}
      OBVIOUS
    <3>1. b \in Listed /\ b \in Arenas /\ b # a
      BY <2>2, ListedArenas
    <3>2. arena'[b] = arena[b]
      BY <2>4, <3>1 DEF TypeOK
    <3>3. arena[b].name \in Names
      BY <1>1, <2>1, <3>1, Record
    <3>4. arena[b].name # n
      BY <1>1, <2>1, <2>2, <3>1 DEF OwnFiles, n
    <3> QED
      BY <3>2, <3>3, <3>4
  <2>7. OwnFiles'
    BY <1>1, <2>1, <2>2, <2>5, <2>6 DEF OwnFiles
  <2>8. ASSUME NEW m \in Names, saved'[m] \in Hashes
        PROVE  \E b \in Listed' : arena'[b].name = m
    <3>1. m # n /\ saved[m] \in Hashes
      BY <2>5, <2>8, SessionAssumption
    <3>2. PICK b \in Listed : arena[b].name = m
      BY <1>1, <2>1, <3>1 DEF ReadOrListed
    <3>3. b \in Listed'
      BY <2>2, <3>1, <3>2 DEF n
    <3> QED
      BY <2>6, <3>2, <3>3
  <2>9. SavedOnce'
    BY <1>0, <2>5, SessionAssumption DEF SavedOnce
  <2> QED
    BY <2>7, <2>8, <2>9 DEF FilesInv, ReadOrListed
<1>7. CASE exit \/ joined
  BY <1>0, <1>7 DEF exit, joined, FilesInv, SavedOnce
<1>8. ASSUME UNCHANGED <<process, unread, torrents, arena, saved>> PROVE FilesInv'
  BY <1>0, <1>1, <1>8 DEF FilesInv, SavedOnce, OwnFiles, ReadOrListed, Listed
<1>9. CASE \/ \E k \in DOMAIN torrents : start_work(k)
           \/ \E a \in Arenas : run_task(a) \/ handle_event(a)
           \/ UNCHANGED vars
  BY <1>8, <1>9 DEF start_work, run_task, handle_event, vars
<1>10. ASSUME NEW files \in [Names -> Hashes \cup {NoHash, Broken}], Started(files),
              \A m, n \in Names : files[m] \in Hashes /\ files[m] = files[n] => m = n
       PROVE  FilesInv'
  <2>1. Listed' = {} /\ saved' = files /\ unread' = {n \in Names : files[n] # NoHash}
    BY <1>10 DEF Started, Listed
  <2> QED
    BY <1>10, <2>1, SessionAssumption DEF FilesInv, SavedOnce, OwnFiles, ReadOrListed
<1>11. CASE start_again
  BY <1>0, <1>10, <1>11 DEF start_again, SavedOnce, TypeOK
<1>12. ASSUME NEW h \in Hashes, NEW n \in Names, killed_copying(h, n) PROVE FilesInv'
  <2> DEFINE files == [saved EXCEPT ![n] = Broken]
  <2>1. files \in [Names -> Hashes \cup {NoHash, Broken}]
    BY DEF TypeOK
  <2>2. files[n] = Broken /\ \A m \in Names \ {n} : files[m] = saved[m]
    BY DEF TypeOK
  <2>3. \A l, m \in Names : files[l] \in Hashes /\ files[l] = files[m] => l = m
    BY <1>0, <2>2, SessionAssumption DEF SavedOnce
  <2> QED
    BY <1>10, <1>12, <2>1, <2>3 DEF killed_copying
<1>13. /\ \A n \in Names : ~restore_unallocated(n)
       /\ \A h \in Hashes, n \in Names : ~add_unsaved(h, n) /\ ~add_unallocated(h, n)
       /\ ~stdin_eof
  BY DEF restore_unallocated, add_unsaved, add_unallocated, stdin_eof
<1> QED
  BY <1>0, <1>2, <1>3, <1>4, <1>5, <1>6, <1>7, <1>9, <1>11, <1>12, <1>13,
     NothingUndefined DEF Next, Restoring, Command, Working

LEMMA Invariance == Spec => []IInv
<1>1. Init => IInv
  BY InitEstablishesTypes, InitEstablishesPointers, InitEstablishesFiles DEF IInv
<1>2. IInv /\ [Next]_vars => IInv'
  BY StepKeepsTypes, StepKeepsPointers, StepKeepsFiles DEF IInv
<1> QED
  BY <1>1, <1>2, PTL DEF Spec

(* While nothing has gone wrong no torrent is in the list twice, though      *)
(* init_saved_torrents does not look: the directory never holds one twice.   *)
THEOREM ListedOnce == Spec => []NoDuplicates
<1>1. IInv => NoDuplicates
  <2> SUFFICES ASSUME IInv, faultless, process \in {"init", "running"},
                      NEW j \in DOMAIN torrents, NEW k \in DOMAIN torrents,
                      arena[torrents[j]].hash = arena[torrents[k]].hash
               PROVE  j = k
    BY DEF NoDuplicates
  <2> DEFINE a == torrents[j]
             b == torrents[k]
  <2>1. a \in Listed /\ b \in Listed /\ a \in Mapped /\ b \in Mapped
    BY DEF Listed, IInv, PointersInv
  <2>2. SavedOnce /\ OwnFiles /\ Distinct
    BY DEF IInv, FilesInv, PointersInv
  <2>3. /\ arena[a].name \in Names /\ arena[b].name \in Names
        /\ arena[a].hash \in Hashes
    BY <2>1, Record DEF IInv, TypeInv
  <2>4. saved[arena[a].name] = arena[a].hash /\ saved[arena[b].name] = arena[b].hash
    BY <2>1, <2>2 DEF OwnFiles
  <2>5. arena[a].name = arena[b].name
    BY <2>2, <2>3, <2>4 DEF SavedOnce
  <2>6. a = b
    BY <2>1, <2>2, <2>5 DEF OwnFiles
  <2> QED
    BY <2>2, <2>6 DEF Distinct
<1> QED
  BY Invariance, <1>1, PTL

(* While nothing has gone wrong the directory holds the torrents of the      *)
(* list: a process killed at any time starts again with what it had.         *)
THEOREM DirectoryIsTheList == Spec => []ListedIsSaved
<1>1. IInv => ListedIsSaved
  <2> SUFFICES ASSUME IInv, faultless, process = "running"
               PROVE  {arena[a].hash : a \in Listed} = {saved[n] : n \in Names} \ {NoHash, Broken}
    BY DEF ListedIsSaved
  <2>1. unread = {} /\ OwnFiles /\ ReadOrListed /\ Listed \subseteq Mapped
    BY DEF IInv, TypeInv, UnreadInv, FilesInv, PointersInv
  <2>2. ASSUME NEW a \in Listed
        PROVE  arena[a].hash \in {saved[n] : n \in Names} \ {NoHash, Broken}
    <3>1. arena[a].name \in Names /\ arena[a].hash \in Hashes
      BY <2>1, Record DEF IInv, TypeInv
    <3>2. saved[arena[a].name] = arena[a].hash
      BY <2>1 DEF OwnFiles
    <3> QED
      BY <3>1, <3>2, SessionAssumption
  <2>3. ASSUME NEW n \in Names, saved[n] \notin {NoHash, Broken}
        PROVE  \E a \in Listed : arena[a].hash = saved[n]
    <3>1. saved[n] \in Hashes
      BY <2>3 DEF IInv, TypeInv, TypeOK
    <3> QED
      BY <2>1, <3>1 DEF ReadOrListed, OwnFiles
  <2> QED
    BY <2>2, <2>3
<1> QED
  BY Invariance, <1>1, PTL

-----------------------------------------------------------------------------
(* Pointers that outlive their torrent                                      *)

(* An arena to which nothing new points, and that stays mapped if it was,   *)
(* does not come to dangle.                                                 *)
LEMMA DoesNotDangle ==
    ASSUME NEW a \in Arenas, a \notin Dangling,
           a \in Mapped => a \in Mapped',
           a \in Listed' => a \in Listed \/ a \in Mapped',
           (tasks'[a] = tasks[a] /\ pending'[a] = pending[a]) \/ a \in Mapped'
    PROVE  a \notin Dangling'
  BY DEF Dangling, Work

(* With every fault: a pointer outlives its torrent only after allocate_file *)
(* failed, by a deletion with work going on or of a shared arena, when the  *)
(* program is left, and when the input ends.                                *)
THEOREM DanglesOnlyThus == Spec => DanglingOnlyThus
<1> DEFINE OnlyThus(a) ==
              \/ a \notin Mapped /\ Len(torrents') > Len(torrents) /\ a = torrents'[Len(torrents')]
              \/ Work(a) > 0 /\ Len(torrents') < Len(torrents)
              \/ ~Distinct /\ Len(torrents') < Len(torrents)
              \/ process = "running" /\ process' \in {"leaving", "spinning"}
<1>1. ASSUME TypeInv, Next, NEW a \in Arenas, a \notin Dangling, a \in Dangling'
      PROVE  OnlyThus(a)
  <2> USE <1>1 DEF TypeInv
  <2>1. ASSUME UNCHANGED <<torrents, arena, tasks, pending>> PROVE FALSE
    BY <2>1, DoesNotDangle DEF Listed, Mapped
  <2>2. ASSUME NEW b \in Arenas \ Mapped, NEW h \in Hashes, NEW n \in Names,
               NEW s \in {"NEEDS_CHECK", "DOWNLOADING"}, UNCHANGED workVars,
               torrents' = Append(torrents, b),
               arena' = [arena EXCEPT ![b] = Torrent(h, n, s)]
        PROVE  FALSE
    <3>1. Listed' = Listed \cup {b}
      BY <2>2, EntryAdded
    <3>2. Mapped' = Mapped \cup {b}
      BY <2>2, MappingKeepsTypes
    <3> QED
      BY <2>2, <3>1, <3>2, DoesNotDangle DEF workVars
  <2>3. ASSUME NEW b \in Arenas \ Mapped, UNCHANGED <<arena, workVars>>,
               torrents' = Append(torrents, b)
        PROVE  OnlyThus(a)
    <3>1. /\ Listed' = Listed \cup {b}
          /\ Len(torrents') = Len(torrents) + 1
          /\ torrents'[Len(torrents')] = b
      BY <2>3, EntryAdded
    <3>2. Mapped' = Mapped
      BY <2>3 DEF Mapped
    <3>3. a = b
      BY <2>3, <3>1, <3>2, DoesNotDangle DEF workVars
    <3>4. Len(torrents') > Len(torrents)
      BY <3>1 DEF TypeOK
    <3> QED
      BY <2>3, <3>1, <3>3, <3>4
  <2>4. CASE \E n \in Names : restore_broken(n) \/ restore(n) \/ restore_unallocated(n)
    <3>1. ASSUME NEW n \in Names, restore(n) PROVE FALSE
      <4>1. saved[n] \in Hashes
        BY <3>1 DEF restore, TypeOK, UnreadInv
      <4> QED
        BY <2>2, <3>1, <4>1 DEF restore
    <3>2. ASSUME NEW n \in Names, restore_unallocated(n) PROVE OnlyThus(a)
      BY <2>3, <3>2 DEF restore_unallocated
    <3>3. ASSUME NEW n \in Names, restore_broken(n) PROVE FALSE
      BY <2>1, <3>3 DEF restore_broken, workVars
    <3> QED
      BY <2>4, <3>1, <3>2, <3>3
  <2>5. ASSUME NEW h \in Hashes, NEW n \in Names, CMD_add(h, n) \/ add_unsaved(h, n)
        PROVE  FALSE
    BY <2>2, <2>5 DEF CMD_add, add_unsaved
  <2>6. ASSUME NEW h \in Hashes, NEW n \in Names, add_unallocated(h, n) PROVE OnlyThus(a)
    BY <2>3, <2>6 DEF add_unallocated
  <2>7. ASSUME NEW k \in DOMAIN torrents, CMD_delete(k) PROVE OnlyThus(a)
    <3>1. /\ torrents[k] \in Arenas
          /\ Len(torrents') = Len(torrents) - 1
          /\ Listed' \subseteq Listed
          /\ Distinct => Listed' = Listed \ {torrents[k]}
      BY <2>7, EntryRemoved DEF CMD_delete
    <3>2. Len(torrents') < Len(torrents)
      BY <3>1 DEF TypeOK
    <3>3. Mapped' = Mapped \ {torrents[k]}
      BY <2>7, <3>1 DEF CMD_delete, Mapped, TypeOK
    <3>4. UNCHANGED workVars
      BY <2>7 DEF CMD_delete
    <3>5. a = torrents[k]
      BY <3>1, <3>3, <3>4, DoesNotDangle DEF workVars
    <3>6. CASE a \in Listed'
      BY <3>1, <3>2, <3>5, <3>6
    <3>7. CASE a \notin Listed'
      <4>1. Work(a)' > 0
        BY <3>7 DEF Dangling
      <4>2. Work(a) > 0
        BY <3>4, <4>1 DEF Work, workVars
      <4> QED
        BY <3>2, <4>2
    <3> QED
      BY <3>6, <3>7
  <2>8. CASE exit \/ stdin_eof
    BY <2>8 DEF exit, stdin_eof
  <2>9. ASSUME \/ restored \/ joined \/ list_undefined \/ exit_undefined
               \/ \E b \in Arenas : work_undefined(b)
        PROVE  FALSE
    BY <2>1, <2>9 DEF restored, joined, list_undefined, exit_undefined, work_undefined,
       Undefined, workVars
  <2>10. ASSUME NEW b \in Mapped, UNCHANGED <<torrents, arena>>,
                \A c \in Arenas \ {b} : tasks'[c] = tasks[c] /\ pending'[c] = pending[c]
         PROVE  FALSE
    BY <2>10, DoesNotDangle DEF Listed, Mapped
  <2>11. ASSUME NEW k \in DOMAIN torrents, start_work(k) PROVE FALSE
    <3>1. PICK b \in Arenas : b = torrents[k] /\ b \in Listed
      BY DEF TypeOK, Listed
    <3>2. b \in Mapped
      BY <2>11, <3>1 DEF start_work
    <3>3. \A c \in Arenas \ {b} : tasks'[c] = tasks[c] /\ pending'[c] = pending[c]
      BY <2>11, <3>1 DEF start_work, TypeOK
    <3> QED
      BY <2>10, <2>11, <3>2, <3>3 DEF start_work
  <2>12. ASSUME NEW b \in Arenas, run_task(b) \/ handle_event(b) PROVE FALSE
    <3>1. b \in Mapped /\ UNCHANGED <<torrents, arena>>
      BY <2>12 DEF run_task, handle_event
    <3>2. \A c \in Arenas \ {b} : tasks'[c] = tasks[c] /\ pending'[c] = pending[c]
      BY <2>12 DEF run_task, handle_event, TypeOK
    <3> QED
      BY <2>10, <3>1, <3>2
  <2>13. ASSUME NEW files, Started(files) PROVE FALSE
    <3>1. tasks'[a] = 0 /\ pending'[a] = 0 /\ Listed' = {}
      BY <2>13 DEF Started, Listed
    <3> QED
      BY <3>1 DEF Dangling, Work
  <2>14. CASE start_again \/ \E h \in Hashes, n \in Names : killed_copying(h, n)
    BY <2>13, <2>14 DEF start_again, killed_copying
  <2> QED
    BY <2>4, <2>5, <2>6, <2>7, <2>8, <2>9, <2>11, <2>12, <2>14 DEF Next, Restoring, Command, Working
<1>2. TypeInv /\ [Next]_vars =>
         [\A a \in Arenas : a \notin Dangling /\ a \in Dangling' => OnlyThus(a)]_vars
  BY <1>1
<1>3. TypeInv /\ [Next]_vars => TypeInv'
  BY StepKeepsTypes
<1> QED
  BY InitEstablishesTypes, <1>2, <1>3, PTL DEF Spec, DanglingOnlyThus

-----------------------------------------------------------------------------
(* The saved files                                                          *)

(* With every fault: the file a torrent of the list was saved in is lost to  *)
(* no command on a torrent of another name, and to no end of the program but *)
(* a kill during a copy.                                                     *)
THEOREM FilesLostOnlyThus == Spec => LostOnlyThus
<1> DEFINE OnlyThus(n) ==
              \/ process' = "running" /\ \E b \in Mapped \ Mapped' : arena[b].name = n
              \/ \E b \in Mapped' \ Mapped : arena'[b].name = n
              \/ process' = "init" /\ saved'[n] = Broken
<1>1. ASSUME TypeInv, Next, NEW n \in Names, saved'[n] # saved[n]
      PROVE  OnlyThus(n)
  <2> USE <1>1 DEF TypeInv
  <2>1. ASSUME saved' = saved PROVE FALSE
    BY <2>1
  <2>2. ASSUME NEW h \in Hashes, NEW m \in Names, CMD_add(h, m) \/ add_unsaved(h, m)
        PROVE  OnlyThus(n)
    <3>1. PICK b \in Arenas \ Mapped :
             arena' = [arena EXCEPT ![b] = Torrent(h, m, "DOWNLOADING")]
      BY <2>2 DEF CMD_add, add_unsaved
    <3>2. PICK f : saved' = [saved EXCEPT ![m] = f]
      BY <2>2 DEF CMD_add, add_unsaved
    <3>3. n = m
      BY <3>2 DEF TypeOK
    <3>4. arena'[b].name = m /\ Mapped' = Mapped \cup {b}
      BY <3>1, MappingKeepsTypes
    <3> QED
      BY <3>1, <3>3, <3>4
  <2>3. ASSUME NEW k \in DOMAIN torrents, CMD_delete(k) PROVE OnlyThus(n)
    <3> DEFINE b == torrents[k]
    <3>1. b \in Arenas /\ b \in Mapped /\ process' = "running"
      BY <2>3 DEF CMD_delete, TypeOK
    <3>2. Mapped' = Mapped \ {b}
      BY <2>3, <3>1 DEF CMD_delete, Mapped, TypeOK
    <3>3. saved' = [saved EXCEPT ![arena[b].name] = NoHash]
      BY <2>1, <2>3 DEF CMD_delete
    <3>4. n = arena[b].name
      BY <3>3 DEF TypeOK
    <3> QED
      BY <3>1, <3>2, <3>4
  <2>4. ASSUME NEW h \in Hashes, NEW m \in Names, killed_copying(h, m) PROVE OnlyThus(n)
    <3>1. saved' = [saved EXCEPT ![m] = Broken] /\ process' = "init"
      BY <2>4 DEF killed_copying, Started
    <3>2. n = m /\ saved'[n] = Broken
      BY <3>1 DEF TypeOK
    <3> QED
      BY <3>1, <3>2
  <2>5. CASE start_again
    BY <2>1, <2>5 DEF start_again, Started
  <2>6. CASE Restoring
    BY <2>1, <2>6 DEF Restoring, restore_broken, restore, restore_unallocated
  <2>7. ASSUME NEW h \in Hashes, NEW m \in Names, add_unallocated(h, m) PROVE FALSE
    BY <2>1, <2>7 DEF add_unallocated
  <2>8. CASE restored \/ joined \/ list_undefined \/ exit \/ exit_undefined \/ stdin_eof
    BY <2>1, <2>8 DEF restored, joined, list_undefined, exit, exit_undefined, stdin_eof, Undefined
  <2>9. CASE Working
    BY <2>1, <2>9 DEF Working, start_work, run_task, handle_event, work_undefined, Undefined
  <2> QED
    BY <2>2, <2>3, <2>4, <2>5, <2>6, <2>7, <2>8, <2>9 DEF Next, Command
<1>2. TypeInv /\ [Next]_vars =>
         [\A a \in Listed \cap Mapped :
             saved[arena[a].name] = arena[a].hash /\ saved'[arena[a].name] # saved[arena[a].name]
                => OnlyThus(arena[a].name)]_vars
  BY <1>1, Record DEF TypeInv
<1>3. TypeInv /\ [Next]_vars => TypeInv'
  BY StepKeepsTypes
<1> QED
  BY InitEstablishesTypes, <1>2, <1>3, PTL DEF Spec, LostOnlyThus

=============================================================================
