--------------------------- MODULE ServersProofs ---------------------------
(***************************************************************************)
(* Servers, for every number of servers, machines, processes, requests,    *)
(* changes, reinstallations and restarts, and every set of faults.         *)
(***************************************************************************)
EXTENDS Servers, SequenceTheorems, TLAPS

HolderPCs  == {"saveKey", "update"}
ContactPCs == {"get", "mark", "connect", "work", "report"}

\* A row's pinned key is one of the machine at its address.
Matches(r) == r.hostKey # None => r.hostKey.host = r.host

\* What is true of the tables at any time.
RowsOK ==
  /\ KeyMatchesHost
  /\ KeyFileKept
  /\ NoOrphanApps
  /\ \A s \in Servers : Exists(s) => row[s].host \in Hosts

\* What is true of a process: a handler holds a sound row of a server that was
\* inserted, Delete removes the files of a deleted server only, and a contact
\* has something to do and an address to do it at.
Attends(p) ==
  /\ pc[p] # "idle" =>
       job[p].server \in Servers /\ row[job[p].server].status # "unused"
  /\ pc[p] \in HolderPCs =>
       /\ job[p].row.status \in Statuses
       /\ job[p].row.host \in Hosts
       /\ Matches(job[p].row)
       /\ job[p].row.saved /\ Exists(job[p].server) => pem[job[p].server] # "none"
  /\ pc[p] = "deleteFiles" => row[job[p].server].status = "gone"
  /\ pc[p] \in ContactPCs => job[p].todo # <<>>
  /\ pc[p] \in {"mark", "connect", "work"} => job[p].row.host \in Hosts

ServersInv == TypeOK /\ RowsOK /\ \A p \in Procs : Attends(p)

---------------------------------------------------------------------------
\* What no step does to the tables and the key files: a deleted server stays
\* deleted, only an unused id comes to life, only a deleted server loses its
\* key file.
Frame ==
  \A s \in Servers :
    /\ row[s].status = "gone" => row'[s].status = "gone"
    /\ row[s].status # "unused" =>
         /\ row'[s].status # "unused"
         /\ row'[s].status \in Statuses => row[s].status \in Statuses
    /\ pem[s] # "none" => pem'[s] # "none" \/ row[s].status = "gone"

Others(p) == \A q \in Procs \ {p} : pc'[q] = pc[q] /\ job'[q] = job[q]

\* A step that keeps Frame and leaves a process alone keeps what is true of it.
LEMMA AttendsKept ==
  ASSUME TypeOK, Frame, NEW q \in Procs, Attends(q),
         pc'[q] = pc[q], job'[q] = job[q]
  PROVE  Attends(q)'
<1>1. CASE pc[q] = "idle"
  BY <1>1 DEF Attends, HolderPCs, ContactPCs
<1>2. CASE pc[q] # "idle"
  <2> DEFINE s == job[q].server
  <2>1. s \in Servers /\ row[s].status # "unused"
    BY <1>2 DEF Attends
  <2>2. row'[s].status # "unused" /\ (Exists(s)' => Exists(s))
    BY <2>1 DEF Frame, Exists
  <2>3. Exists(s) => row[s].status # "gone"
    BY DEF Exists, Statuses
  <2>4. pem[s] # "none" /\ Exists(s) => pem'[s] # "none"
    BY <2>1, <2>3 DEF Frame
  <2>5. row[s].status = "gone" => row'[s].status = "gone"
    BY <2>1 DEF Frame
  <2> QED BY <1>2, <2>1, <2>2, <2>4, <2>5 DEF Attends, Matches
<1> QED BY <1>1, <1>2


\* What a step of p establishes.
Kept(p) == TypeOK' /\ RowsOK' /\ Frame /\ Attends(p)' /\ Others(p)

\* What a job is made of, and what the handlers and goroutines make of one.
LEMMA Jobs ==
  /\ NoJob \in Job /\ Unused \in Row
  /\ \A j \in Job : /\ j.server \in Servers \cup {None}
                    /\ j.row \in Row
                    /\ j.todo \in Seq(Contacts)
                    /\ j.verdict \in Statuses
  /\ \A r \in Row : /\ r.status \in Statuses \cup {"unused", "gone"}
                    /\ r.host \in Hosts \cup {None}
                    /\ r.saved \in BOOLEAN
                    /\ r.hostKey \in Keys \cup {None}
<1>1. Unused \in Row
  BY DEF Unused, Row
<1>2. <<>> \in Seq(Contacts)
  OBVIOUS
<1>3. NoJob \in Job
  BY <1>1, <1>2 DEF NoJob, Job, AllKinds, Statuses
<1> QED BY <1>1, <1>3 DEF Job, Row

\* Return leaves nothing behind.
LEMMA Returns ==
  ASSUME ServersInv, NEW p \in Procs, Return(p)
  PROVE  /\ pc' \in [Procs -> PCs] /\ job' \in [Procs -> Job]
         /\ Attends(p)' /\ Others(p)
<1>1. pc'[p] = "idle"
  BY DEF Return, ServersInv, TypeOK
<1>2. Attends(p)'
  BY <1>1 DEF Attends, HolderPCs, ContactPCs
<1> QED BY <1>2, Jobs DEF Return, ServersInv, TypeOK, PCs, Others

\* Continue returns or has a next contact with the same server.
LEMMA Continues ==
  ASSUME ServersInv, NEW p \in Procs, NEW todo \in Seq(Contacts),
         Continue(p, todo), job[p].server \in Servers,
         row'[job[p].server].status # "unused"
  PROVE  /\ pc' \in [Procs -> PCs] /\ job' \in [Procs -> Job]
         /\ Attends(p)' /\ Others(p)
<1>1. CASE todo = <<>>
  BY <1>1, Returns DEF Continue
<1>2. CASE todo # <<>>
  <2> DEFINE next == [NoJob EXCEPT !.kind = "contact",
                        !.server = job[p].server, !.todo = todo]
  <2>1. next \in Job /\ next.server = job[p].server /\ next.todo = todo
    BY Jobs DEF Job, NoJob
  <2>2. pc' = [pc EXCEPT ![p] = "get"] /\ job' = [job EXCEPT ![p] = next]
    BY <1>2 DEF Continue, Goto
  <2> HIDE DEF next
  <2>3. pc'[p] = "get" /\ job'[p] = next
    BY <2>2 DEF ServersInv, TypeOK
  <2>4. Attends(p)'
    BY <1>2, <2>1, <2>3 DEF Attends, HolderPCs
  <2> QED BY <2>1, <2>2, <2>4 DEF ServersInv, TypeOK, PCs, Others
<1> QED BY <1>1, <1>2

---------------------------------------------------------------------------
\* Statements that change existing rows to sound ones keep the tables sound.
LEMMA RowsStep ==
  ASSUME ServersInv, pem' = pem, apps' = apps,
         \A s \in Servers :
           \/ row'[s] = row[s]
           \/ /\ Exists(s)
              /\ row'[s].status \in Statuses
              /\ row'[s].host \in Hosts
              /\ Matches(row'[s])
              /\ row'[s].saved => pem[s] # "none"
  PROVE  RowsOK' /\ Frame
<1>1. \A s \in Servers : Exists(s)' <=> Exists(s)
  BY DEF Exists
<1>2. KeyMatchesHost'
  BY DEF ServersInv, RowsOK, KeyMatchesHost, Matches
<1>3. KeyFileKept'
  BY <1>1 DEF ServersInv, RowsOK, KeyFileKept
<1>4. NoOrphanApps'
  BY <1>1 DEF ServersInv, TypeOK, RowsOK, NoOrphanApps
<1>5. \A s \in Servers : Exists(s)' => row'[s].host \in Hosts
  BY <1>1 DEF ServersInv, RowsOK
<1>6. Frame
  BY DEF Frame, Exists, Statuses
<1> QED BY <1>2, <1>3, <1>4, <1>5, <1>6 DEF RowsOK

\* Nothing written.
LEMMA RowsUnchanged ==
  ASSUME ServersInv, UNCHANGED <<db, pem>>
  PROVE  RowsOK' /\ Frame
BY RowsStep DEF db

\* Writing a known status keeps the tables sound.
LEMMA UpdateStatusStep ==
  ASSUME ServersInv, NEW s \in Servers, NEW status \in Statuses,
         UpdateStatus(s, status), UNCHANGED <<apps, pem>>
  PROVE  /\ row' \in [Servers -> Row]
         /\ RowsOK' /\ Frame
<1>1. CASE ~Exists(s)
  <2>1. row' = row
    BY <1>1 DEF UpdateStatus
  <2> QED BY <2>1, RowsUnchanged DEF db, ServersInv, TypeOK
<1>2. CASE Exists(s)
  <2>1. row' = [row EXCEPT ![s].status = status]
    BY <1>2 DEF UpdateStatus
  <2>2. row \in [Servers -> Row]
    BY DEF ServersInv, TypeOK
  <2>3. row' \in [Servers -> Row]
    BY <2>1, <2>2 DEF Row
  <2>4. /\ row'[s].status = status
        /\ row'[s].host = row[s].host /\ row'[s].hostKey = row[s].hostKey
        /\ row'[s].saved = row[s].saved
    BY <2>1, <2>2 DEF Row
  <2>5. \A t \in Servers \ {s} : row'[t] = row[t]
    BY <2>1, <2>2
  <2>6. row[s].host \in Hosts /\ Matches(row'[s]) /\ (row'[s].saved => pem[s] # "none")
    BY <1>2, <2>4 DEF ServersInv, RowsOK, KeyMatchesHost, KeyFileKept, Matches
  <2> QED BY <1>2, <2>3, <2>4, <2>5, <2>6, RowsStep
<1> QED BY <1>1, <1>2

\* Saving a whole row does, if the row is sound.
LEMMA UpdateStep ==
  ASSUME ServersInv, NEW s \in Servers, NEW r \in Row, Update(s, r),
         r.status \in Statuses, r.host \in Hosts, Matches(r),
         r.saved /\ Exists(s) => pem[s] # "none", UNCHANGED <<apps, pem>>
  PROVE  /\ row' \in [Servers -> Row]
         /\ RowsOK' /\ Frame
<1>1. CASE ~Exists(s)
  <2>1. row' = row
    BY <1>1 DEF Update
  <2> QED BY <2>1, RowsUnchanged DEF db, ServersInv, TypeOK
<1>2. CASE Exists(s)
  <2>1. row' = [row EXCEPT ![s] = r]
    BY <1>2 DEF Update
  <2>2. row' \in [Servers -> Row] /\ row'[s] = r
    BY <2>1 DEF ServersInv, TypeOK
  <2>3. \A t \in Servers \ {s} : row'[t] = row[t]
    BY <2>1 DEF ServersInv, TypeOK
  <2> QED BY <1>2, <2>2, <2>3, RowsStep
<1> QED BY <1>1, <1>2

\* SaveHostKey pins by address: the key of the machine at h goes to the rows
\* with address h and to no other.
LEMMA SaveHostKeyStep ==
  ASSUME ServersInv, NEW h \in Hosts, NEW key \in Keys, key.host = h,
         SaveHostKey(h, key), UNCHANGED <<apps, pem>>
  PROVE  /\ row' \in [Servers -> Row]
         /\ RowsOK' /\ Frame
<1>1. row \in [Servers -> Row]
  BY DEF ServersInv, TypeOK
<1>2. \A s \in Servers :
        \/ row'[s] = row[s]
        \/ /\ Exists(s) /\ row[s].host = h
           /\ row'[s] = [row[s] EXCEPT !.hostKey = key]
  BY DEF SaveHostKey
<1>3. \A s \in Servers : row'[s] \in Row
  BY <1>1, <1>2 DEF Row
<1>4. row' \in [Servers -> Row]
  BY <1>3 DEF SaveHostKey
<1>5. ASSUME NEW s \in Servers, row'[s] # row[s]
      PROVE  /\ Exists(s)
             /\ row'[s].status \in Statuses
             /\ row'[s].host \in Hosts
             /\ Matches(row'[s])
             /\ row'[s].saved => pem[s] # "none"
  <2>1. Exists(s) /\ row[s].host = h /\ row'[s] = [row[s] EXCEPT !.hostKey = key]
    BY <1>2, <1>5
  <2>2. /\ row'[s].status = row[s].status /\ row'[s].host = h
        /\ row'[s].hostKey = key /\ row'[s].saved = row[s].saved
    BY <1>1, <2>1 DEF Row
  <2> QED BY <2>1, <2>2 DEF Matches, Exists, ServersInv, RowsOK, KeyFileKept
<1> QED BY <1>4, <1>5, RowsStep

---------------------------------------------------------------------------
(* One lemma per group of actions.                                         *)

\* A request starts with a sound job: what it needs to be Kept.
LEMMA Starts ==
  ASSUME ServersInv, NEW p \in Procs, NEW j \in Job, NEW label \in PCs,
         pc' = [pc EXCEPT ![p] = label], job' = [job EXCEPT ![p] = j]
  PROVE  /\ pc' \in [Procs -> PCs] /\ job' \in [Procs -> Job]
         /\ pc'[p] = label /\ job'[p] = j /\ Others(p)
BY DEF ServersInv, TypeOK, Others

\* The requests: a new server is sound, an edited row is.
LEMMA RequestKept ==
  ASSUME ServersInv, NEW p \in Procs, Request(p)
  PROVE  Kept(p)
<1>1. ASSUME Create(p) PROVE Kept(p)
  <2>1. PICK s \in Servers, h \in Hosts, supplied \in BOOLEAN :
          LET new == [status |-> "pending", host |-> h, saved |-> FALSE,
                      hostKey |-> None]
          IN  /\ row[s].status = "unused"
              /\ row' = [row EXCEPT ![s] = new]
              /\ job' = [job EXCEPT ![p] =
                   [NoJob EXCEPT !.kind = "create", !.server = s, !.row = new,
                                 !.supplied = supplied]]
              /\ Goto(p, "saveKey")
    BY <1>1 DEF Create
  <2> DEFINE new == [status |-> "pending", host |-> h, saved |-> FALSE,
                     hostKey |-> None]
             j == [NoJob EXCEPT !.kind = "create", !.server = s, !.row = new,
                                !.supplied = supplied]
  <2>2. new \in Row
    BY DEF Row, Statuses
  <2>3. j \in Job /\ j.server = s /\ j.row = new
    BY <2>2, Jobs DEF Job, NoJob
  <2>4. /\ pc' \in [Procs -> PCs] /\ job' \in [Procs -> Job]
        /\ pc'[p] = "saveKey" /\ job'[p] = j /\ Others(p)
    BY <2>1, <2>3, Starts DEF Goto, PCs
  <2>5. /\ row' \in [Servers -> Row] /\ row'[s] = new
        /\ \A t \in Servers \ {s} : row'[t] = row[t]
    BY <2>1, <2>2 DEF ServersInv, TypeOK
  <2>6. TypeOK'
    BY <1>1, <2>4, <2>5 DEF Create, NewRequest, machine, ServersInv, TypeOK
  <2>7. pem' = pem /\ apps' = apps
    BY <1>1 DEF Create
  <2>8. RowsOK'
    <3>1. \A t \in Servers : Exists(t)' <=> Exists(t) \/ t = s
      BY <2>5 DEF Exists, Statuses
    <3> QED BY <2>5, <2>7, <3>1
            DEF ServersInv, TypeOK, RowsOK, KeyMatchesHost, KeyFileKept,
                NoOrphanApps
  <2>9. Frame
    BY <2>1, <2>5, <2>7 DEF Frame
  <2>10. Attends(p)'
    BY <2>3, <2>4, <2>5 DEF Attends, HolderPCs, ContactPCs, Matches, Statuses
  <2> QED BY <2>4, <2>6, <2>8, <2>9, <2>10 DEF Kept
<1>2. ASSUME Edit(p) PROVE Kept(p)
  <2>1. PICK s \in Servers, h \in Hosts, clear \in BOOLEAN,
             newKey \in BOOLEAN, kind \in {"patch", "edit"} :
          /\ NewRequest(p, kind)
          /\ Exists(s)
          /\ job' = [job EXCEPT ![p] =
               [NoJob EXCEPT !.kind = kind, !.server = s,
                             !.row = Edited(row[s], h, clear)]]
          /\ Goto(p, IF newKey THEN "saveKey" ELSE "update")
    BY <1>2 DEF Edit
  <2> DEFINE r == Edited(row[s], h, clear)
             j == [NoJob EXCEPT !.kind = kind, !.server = s, !.row = r]
             label == IF newKey THEN "saveKey" ELSE "update"
  <2>2. row[s] \in Row
    BY DEF ServersInv, TypeOK
  <2>3. /\ r \in Row /\ r.status = row[s].status /\ r.host = h
        /\ r.saved = row[s].saved
        /\ r.hostKey # None => r.hostKey = row[s].hostKey /\ h = row[s].host
    BY <2>2 DEF Edited, Row
  <2>4. Matches(r)
    BY <2>3 DEF Matches, ServersInv, RowsOK, KeyMatchesHost
  <2>5. r.saved => pem[s] # "none"
    BY <2>1, <2>3 DEF ServersInv, RowsOK, KeyFileKept
  <2> HIDE DEF r
  <2>6. j \in Job /\ j.server = s /\ j.row = r
    BY <2>3, Jobs DEF Job, NoJob, AllKinds
  <2>7. label \in PCs /\ label \in HolderPCs
    BY DEF PCs, HolderPCs
  <2>8. /\ pc' \in [Procs -> PCs] /\ job' \in [Procs -> Job]
        /\ pc'[p] = label /\ job'[p] = j /\ Others(p)
    <3> HIDE DEF j, label
    <3>1. pc' = [pc EXCEPT ![p] = label] /\ job' = [job EXCEPT ![p] = j]
      BY <2>1 DEF Goto, j, label, r
    <3> QED BY <2>6, <2>7, <3>1, Starts
  <2>9. RowsOK' /\ Frame
    BY <1>2, RowsUnchanged DEF Edit
  <2>10. TypeOK'
    BY <1>2, <2>1, <2>8 DEF Edit, NewRequest, db, machine, ServersInv, TypeOK
  <2>11. Attends(p)'
    <3>1. row' = row /\ pem' = pem
      BY <1>2 DEF Edit, db
    <3>2. row[s].status \in Statuses /\ row[s].status # "unused"
      BY <2>1 DEF Exists, Statuses
    <3>3. pc'[p] \in HolderPCs /\ job'[p].server = s /\ job'[p].row = r
      BY <2>6, <2>7, <2>8
    <3> QED BY <2>3, <2>4, <2>5, <3>1, <3>2, <3>3
            DEF Attends, HolderPCs, ContactPCs
  <2> QED BY <2>8, <2>9, <2>10, <2>11 DEF Kept
<1>3. ASSUME Contact(p) PROVE Kept(p)
  <2>1. PICK s \in Servers, kind \in {"init", "refresh"} :
          /\ NewRequest(p, kind)
          /\ row[s].status # "unused"
          /\ job' = [job EXCEPT ![p] = [NoJob EXCEPT !.kind = "contact",
                                          !.server = s, !.todo = <<kind>>]]
    BY <1>3 DEF Contact
  <2> DEFINE j == [NoJob EXCEPT !.kind = "contact", !.server = s,
                                !.todo = <<kind>>]
  <2>2. <<kind>> \in Seq(Contacts) /\ <<kind>> # <<>>
    BY DEF Contacts
  <2>3. j \in Job /\ j.server = s /\ j.todo = <<kind>>
    BY <2>2, Jobs DEF Job, NoJob
  <2>4. /\ pc' \in [Procs -> PCs] /\ job' \in [Procs -> Job]
        /\ pc'[p] = "get" /\ job'[p] = j /\ Others(p)
    BY <1>3, <2>1, <2>3, Starts DEF Contact, Goto, PCs
  <2>5. RowsOK' /\ Frame
    BY <1>3, RowsUnchanged DEF Contact
  <2>6. TypeOK'
    BY <1>3, <2>1, <2>4 DEF Contact, NewRequest, db, machine, ServersInv, TypeOK
  <2>7. Attends(p)'
    BY <1>3, <2>1, <2>2, <2>3, <2>4
    DEF Attends, HolderPCs, ContactPCs, Contact, db
  <2> QED BY <2>4, <2>5, <2>6, <2>7 DEF Kept
<1>4. ASSUME Delete(p) PROVE Kept(p)
  <2>1. PICK s \in Servers :
          /\ Exists(s)
          /\ job' = [job EXCEPT ![p] = [NoJob EXCEPT !.kind = "delete",
                                                     !.server = s]]
    BY <1>4 DEF Delete
  <2> DEFINE j == [NoJob EXCEPT !.kind = "delete", !.server = s]
  <2>2. j \in Job /\ j.server = s
    BY Jobs DEF Job, NoJob, AllKinds
  <2>3. /\ pc' \in [Procs -> PCs] /\ job' \in [Procs -> Job]
        /\ pc'[p] = "deleteRow" /\ job'[p] = j /\ Others(p)
    BY <1>4, <2>1, <2>2, Starts DEF Delete, Goto, PCs
  <2>4. RowsOK' /\ Frame
    BY <1>4, RowsUnchanged DEF Delete
  <2>5. TypeOK'
    BY <1>4, <2>3 DEF Delete, NewRequest, db, machine, ServersInv, TypeOK
  <2>6. Attends(p)'
    BY <1>4, <2>1, <2>2, <2>3
    DEF Attends, HolderPCs, ContactPCs, Delete, db, Exists, Statuses
  <2> QED BY <2>3, <2>4, <2>5, <2>6 DEF Kept
<1> QED BY <1>1, <1>2, <1>3, <1>4 DEF Request

\* The handlers after their first statement.
LEMMA HandlerKept ==
  ASSUME ServersInv, NEW p \in Procs,
         SaveKey(p) \/ UpdateRow(p) \/ DeleteRow(p) \/ DeleteFiles(p)
  PROVE  Kept(p)
<1> DEFINE s == job[p].server
<1>0. job[p] \in Job /\ Attends(p) /\ TypeOK
  BY DEF ServersInv, TypeOK
<1>1. ASSUME SaveKey(p) PROVE Kept(p)
  <2>1. s \in Servers /\ pc[p] \in HolderPCs
    BY <1>0, <1>1 DEF SaveKey, Attends, HolderPCs
  <2>2. CASE /\ pem' = [pem EXCEPT ![s] = "whole"]
             /\ job' = [job EXCEPT ![p].row.saved = TRUE]
             /\ Goto(p, "update")
    <3>1. /\ pem' \in [Servers -> KeyFile] /\ pem'[s] # "none"
          /\ \A t \in Servers : pem[t] # "none" => pem'[t] # "none"
      BY <2>1, <2>2, <1>0 DEF TypeOK, KeyFile
    <3>2. /\ job'[p] \in Job /\ job'[p].server = s
          /\ job'[p].row.status = job[p].row.status
          /\ job'[p].row.host = job[p].row.host
          /\ job'[p].row.hostKey = job[p].row.hostKey
      BY <2>2, <1>0 DEF TypeOK, Job, Row
    <3>3. /\ pc' \in [Procs -> PCs] /\ job' \in [Procs -> Job]
          /\ pc'[p] = "update" /\ Others(p)
      BY <2>2, <3>2, <1>0 DEF TypeOK, Goto, PCs, Others
    <3>4. TypeOK'
      BY <1>1, <3>1, <3>3, <1>0 DEF SaveKey, TypeOK, db, machine, bound
    <3>5. row' = row /\ apps' = apps
      BY <1>1 DEF SaveKey, db
    <3>6. RowsOK' /\ Frame
      BY <3>1, <3>5 DEF ServersInv, RowsOK, KeyMatchesHost, KeyFileKept,
                        NoOrphanApps, Exists, Frame
    <3>7. Attends(p)'
      BY <1>0, <2>1, <3>1, <3>2, <3>3, <3>5
      DEF Attends, HolderPCs, ContactPCs, Matches, Exists
    <3> QED BY <3>3, <3>4, <3>6, <3>7 DEF Kept
  <2>3. CASE pem' \in {pem, [pem EXCEPT ![s] = "cut"]} /\ Return(p)
    <3>1. /\ pem' \in [Servers -> KeyFile]
          /\ \A t \in Servers : pem[t] # "none" => pem'[t] # "none"
      BY <2>1, <2>3, <1>0 DEF TypeOK, KeyFile
    <3>2. row' = row /\ apps' = apps
      BY <1>1 DEF SaveKey, db
    <3>3. TypeOK'
      BY <1>1, <2>3, <3>1, <1>0, Returns DEF SaveKey, TypeOK, db, machine, bound
    <3>4. RowsOK' /\ Frame
      BY <3>1, <3>2 DEF ServersInv, RowsOK, KeyMatchesHost, KeyFileKept,
                        NoOrphanApps, Exists, Frame
    <3> QED BY <2>3, <3>3, <3>4, Returns DEF Kept
  <2> QED BY <1>1, <2>2, <2>3 DEF SaveKey
<1>2. ASSUME UpdateRow(p) PROVE Kept(p)
  <2> DEFINE todo == IF job[p].kind = "create" /\ job[p].supplied
                       THEN <<"test", "init", "refresh">>
                     ELSE IF job[p].kind = "edit" THEN <<"test">> ELSE <<>>
  <2>1. /\ s \in Servers /\ row[s].status # "unused" /\ job[p].row \in Row
        /\ job[p].row.status \in Statuses /\ job[p].row.host \in Hosts
        /\ Matches(job[p].row)
        /\ job[p].row.saved /\ Exists(s) => pem[s] # "none"
    BY <1>0, <1>2, Jobs DEF UpdateRow, Attends, HolderPCs
  <2>2. /\ row' \in [Servers -> Row]
        /\ RowsOK' /\ Frame
    BY <1>2, <2>1, UpdateStep DEF UpdateRow
  <2>3. row'[s].status # "unused"
    BY <2>1, <2>2 DEF Frame
  <2>4. todo \in Seq(Contacts)
    <3>1. <<"test", "init", "refresh">> \in Seq(Contacts)
      BY DEF Contacts
    <3>2. <<"test">> \in Seq(Contacts) /\ <<>> \in Seq(Contacts)
      BY DEF Contacts
    <3> QED BY <3>1, <3>2
  <2>5. /\ pc' \in [Procs -> PCs] /\ job' \in [Procs -> Job]
        /\ Attends(p)' /\ Others(p)
    <3>1. Continue(p, todo)
      BY <1>2 DEF UpdateRow
    <3> HIDE DEF todo
    <3> QED BY <2>1, <2>3, <2>4, <3>1, Continues
  <2>6. TypeOK'
    BY <1>0, <1>2, <2>2, <2>5 DEF UpdateRow, TypeOK, machine, bound
  <2> QED BY <2>2, <2>5, <2>6 DEF Kept
<1>3. ASSUME DeleteRow(p) PROVE Kept(p)
  <2>1. s \in Servers /\ row[s].status # "unused"
    BY <1>0, <1>3 DEF DeleteRow, Attends
  <2>2. CASE s \in apps
    <3>1. Return(p) /\ UNCHANGED <<db, pem>>
      BY <1>3, <2>2 DEF DeleteRow, db
    <3>2. TypeOK'
      BY <1>3, <3>1, <1>0, Returns DEF DeleteRow, TypeOK, db, machine, bound
    <3> QED BY <3>1, <3>2, Returns, RowsUnchanged DEF Kept
  <2>3. CASE s \notin apps
    <3> DEFINE gone == [Unused EXCEPT !.status = "gone"]
    <3>1. gone \in Row /\ gone.status = "gone" /\ gone.hostKey = None
      BY DEF Unused, Row
    <3>2. /\ row' = [row EXCEPT ![s] = gone]
          /\ Goto(p, "deleteFiles") /\ UNCHANGED <<job, apps, pem>>
      BY <1>3, <2>3 DEF DeleteRow
    <3> HIDE DEF gone
    <3>3. /\ row' \in [Servers -> Row] /\ row'[s] = gone
          /\ \A t \in Servers \ {s} : row'[t] = row[t]
      BY <1>0, <2>1, <3>1, <3>2 DEF TypeOK
    <3>4. /\ pc' \in [Procs -> PCs] /\ pc'[p] = "deleteFiles" /\ Others(p)
      BY <1>0, <3>2 DEF TypeOK, Goto, PCs, Others
    <3>5. TypeOK'
      BY <1>0, <1>3, <3>2, <3>3, <3>4 DEF DeleteRow, TypeOK, machine, bound
    <3>6. \A t \in Servers : Exists(t)' <=> Exists(t) /\ t # s
      BY <3>1, <3>3 DEF Exists, Statuses
    <3>7. RowsOK'
      BY <2>3, <3>1, <3>2, <3>3, <3>6, <1>0
      DEF ServersInv, TypeOK, RowsOK, KeyMatchesHost, KeyFileKept, NoOrphanApps
    <3>8. Frame
      BY <2>1, <3>1, <3>2, <3>3 DEF Frame, Statuses
    <3>9. Attends(p)'
      BY <2>1, <3>1, <3>2, <3>3, <3>4 DEF Attends, HolderPCs, ContactPCs
    <3> QED BY <3>4, <3>5, <3>7, <3>8, <3>9 DEF Kept
  <2> QED BY <2>2, <2>3
<1>4. ASSUME DeleteFiles(p) PROVE Kept(p)
  <2>1. s \in Servers /\ row[s].status = "gone"
    BY <1>0, <1>4 DEF DeleteFiles, Attends
  <2>2. /\ pem' \in [Servers -> KeyFile]
        /\ \A t \in Servers : pem[t] # "none" => pem'[t] # "none" \/ t = s
    BY <1>0, <1>4, <2>1 DEF DeleteFiles, TypeOK, KeyFile
  <2>3. row' = row /\ apps' = apps /\ Return(p)
    BY <1>4 DEF DeleteFiles, db
  <2>4. TypeOK'
    BY <1>0, <1>4, <2>2, <2>3, Returns DEF DeleteFiles, TypeOK, machine, bound
  <2>5. RowsOK' /\ Frame
    BY <2>1, <2>2, <2>3 DEF ServersInv, RowsOK, KeyMatchesHost, KeyFileKept,
                            NoOrphanApps, Exists, Statuses, Frame
  <2> QED BY <2>3, <2>4, <2>5, Returns DEF Kept
<1> QED BY <1>1, <1>2, <1>3, <1>4

\* InitWorker ends with "online" or "error" and one of the three kinds of caddy.
LEMMA Outcomes ==
  ASSUME NEW h \in Hosts, proxy[h] \in {"none", "ours", "foreign"}
  PROVE  InitOutcomes(h) \subseteq
           {"online", "error"} \X {"none", "ours", "foreign"}
<1> DEFINE All == {"online", "error"} \X {"none", "ours", "foreign"}
           kept      == {<<"error", proxy[h]>>}
           noCaddy   == IF "caddy" \in Faults THEN {"none"} ELSE {}
           deployed  == {<<"online", "ours">>} \cup ({"error"} \X noCaddy)
           recreated == {"online"} \X ({proxy[h], "ours"} \cup noCaddy)
           lostHalfWay == CASE proxy[h] = "none" -> {<<"error", "ours">>}
                            [] proxy[h] = "ours" -> recreated
                            [] proxy[h] = "foreign" -> {}
<1>1. kept \subseteq All
  OBVIOUS
<1>2. deployed \subseteq All
  OBVIOUS
<1>3. recreated \subseteq All
  OBVIOUS
<1>4. lostHalfWay \subseteq All
  <2> HIDE DEF recreated, All
  <2>1. {<<"error", "ours">>} \subseteq All
    BY DEF All
  <2>2. CASE proxy[h] = "none"
    BY <2>1, <2>2
  <2>3. CASE proxy[h] = "ours"
    BY <1>3, <2>3
  <2>4. CASE proxy[h] = "foreign"
    BY <2>4
  <2> QED BY <2>2, <2>3, <2>4
<1>5. InitOutcomes(h) \subseteq
        ((kept \cup deployed) \cup recreated) \cup lostHalfWay
  <2> SUFFICES ASSUME NEW o \in InitOutcomes(h)
               PROVE  \/ o \in kept \/ o \in deployed
                      \/ o \in recreated \/ o \in lostHalfWay
    OBVIOUS
  <2>1. CASE worker[h] # "up"
    <3>1. InitOutcomes(h) = kept \cup lostHalfWay
      BY <2>1 DEF InitOutcomes
    <3> HIDE DEF kept, lostHalfWay
    <3> QED BY <3>1
  <2>2. CASE worker[h] = "up"
    <3>1. InitOutcomes(h) = UNION {
            IF "docker" \in Faults \/ proxy[h] = "foreign" THEN kept ELSE {},
            IF proxy[h] # "foreign" \/ "inspect" \in Faults
              THEN deployed ELSE {},
            IF \/ proxy[h] = "ours"
               \/ proxy[h] = "foreign" /\ "inspect" \in Faults
              THEN recreated ELSE {}}
      BY <2>2 DEF InitOutcomes
    <3> HIDE DEF kept, deployed, recreated, lostHalfWay
    <3> QED BY <3>1
  <2> QED BY <2>1, <2>2
<1> HIDE DEF All, kept, deployed, recreated, lostHalfWay
<1>6. InitOutcomes(h) \subseteq All
  BY <1>1, <1>2, <1>3, <1>4, <1>5
<1> QED BY <1>6 DEF All

\* The contacts with a worker, and the goroutines of the monitor.
LEMMA ContactKept ==
  ASSUME ServersInv, NEW p \in Procs,
         \/ Get(p) \/ Mark(p) \/ Connect(p)
         \/ RunUptime(p) \/ Install(p) \/ Measure(p)
         \/ Report(p) \/ RefreshAll(p)
  PROVE  Kept(p)
<1> DEFINE s == job[p].server
           h == job[p].row.host
<1>0. job[p] \in Job /\ Attends(p) /\ TypeOK
  BY DEF ServersInv, TypeOK
<1>a. ASSUME pc[p] \in ContactPCs
      PROVE  /\ s \in Servers /\ row[s].status # "unused"
             /\ job[p].todo \in Seq(Contacts) /\ job[p].todo # <<>>
             /\ Tail(job[p].todo) \in Seq(Contacts)
  <2>1. /\ s \in Servers /\ row[s].status # "unused"
        /\ job[p].todo \in Seq(Contacts) /\ job[p].todo # <<>>
    BY <1>0, <1>a, Jobs DEF Attends, ContactPCs
  <2> QED BY <2>1
<1>1. ASSUME Get(p) PROVE Kept(p)
  <2>1. /\ pc[p] \in ContactPCs /\ UNCHANGED <<db, pem>> /\ row' = row
    BY <1>1 DEF Get, ContactPCs, db
  <2>2. RowsOK' /\ Frame
    BY <2>1, RowsUnchanged
  <2>3. CASE Exists(s)
    <3> DEFINE label == IF Head(job[p].todo) = "init" THEN "mark" ELSE "connect"
    <3>1. /\ job' = [job EXCEPT ![p].row.host = row[s].host,
                                ![p].row.saved = row[s].saved]
          /\ pc' = [pc EXCEPT ![p] = label]
      BY <1>1, <2>3 DEF Get, Goto
    <3>2. label \in {"mark", "connect"}
      OBVIOUS
    <3> HIDE DEF label
    <3>3. row[s].host \in Hosts /\ row[s].saved \in BOOLEAN
      BY <1>0, <1>a, <2>1, <2>3, Jobs DEF ServersInv, RowsOK, TypeOK
    <3>4. /\ job'[p] \in Job /\ job'[p].server = s
          /\ job'[p].todo = job[p].todo /\ job'[p].row.host = row[s].host
      BY <1>0, <3>1, <3>3 DEF TypeOK, Job, Row
    <3>5. /\ pc' \in [Procs -> PCs] /\ job' \in [Procs -> Job]
          /\ pc'[p] = label /\ Others(p)
      BY <1>0, <3>1, <3>2, <3>4 DEF TypeOK, PCs, Others
    <3>6. Attends(p)'
      BY <1>a, <2>1, <3>2, <3>3, <3>4, <3>5 DEF Attends, HolderPCs, ContactPCs
    <3>7. TypeOK'
      BY <1>0, <1>1, <3>5 DEF Get, TypeOK, db, machine, bound
    <3> QED BY <2>2, <3>5, <3>6, <3>7 DEF Kept
  <2>4. CASE ~Exists(s)
    <3>1. Continue(p, Tail(job[p].todo))
      BY <1>1, <2>4 DEF Get
    <3>2. /\ pc' \in [Procs -> PCs] /\ job' \in [Procs -> Job]
          /\ Attends(p)' /\ Others(p)
      BY <1>a, <2>1, <3>1, Continues
    <3>3. TypeOK'
      BY <1>0, <1>1, <3>2 DEF Get, TypeOK, db, machine, bound
    <3> QED BY <2>2, <3>2, <3>3 DEF Kept
  <2> QED BY <2>3, <2>4
<1>2. ASSUME Mark(p) PROVE Kept(p)
  <2>1. /\ pc[p] \in ContactPCs /\ UNCHANGED <<apps, pem>> /\ job' = job
        /\ pc' = [pc EXCEPT ![p] = "connect"]
        /\ UpdateStatus(s, "initializing")
    BY <1>2 DEF Mark, ContactPCs, Goto
  <2>2. row' \in [Servers -> Row] /\ RowsOK' /\ Frame
    BY <1>a, <2>1, UpdateStatusStep DEF Statuses
  <2>3. h \in Hosts
    BY <1>0, <1>2 DEF Attends, Mark
  <2>4. /\ pc' \in [Procs -> PCs] /\ pc'[p] = "connect" /\ Others(p)
    BY <1>0, <2>1 DEF TypeOK, PCs, Others
  <2>5. TypeOK'
    BY <1>0, <1>2, <2>1, <2>2, <2>4 DEF Mark, TypeOK, machine, bound
  <2>6. Attends(p)'
    BY <1>a, <2>1, <2>2, <2>3, <2>4 DEF Attends, HolderPCs, ContactPCs, Frame
  <2> QED BY <2>2, <2>4, <2>5, <2>6 DEF Kept
<1>3. ASSUME Connect(p) PROVE Kept(p)
  <2>1. pc[p] \in ContactPCs /\ h \in Hosts /\ UNCHANGED <<apps, pem>>
    BY <1>0, <1>3 DEF Connect, ContactPCs, Attends
  <2>2. PresentedKey(h) \in Keys /\ PresentedKey(h).host = h
    BY <1>0, <2>1 DEF PresentedKey, Keys, TypeOK
  <2>3. SaveHostKey(h, PresentedKey(h)) \/ UNCHANGED row
    BY <1>3 DEF Connect, PinHostKey
  <2>4. row' \in [Servers -> Row] /\ RowsOK' /\ Frame
    <3>1. CASE SaveHostKey(h, PresentedKey(h))
      BY <2>1, <2>2, <3>1, SaveHostKeyStep
    <3>2. CASE UNCHANGED row
      BY <1>0, <2>1, <3>2, RowsUnchanged DEF db, TypeOK
    <3> QED BY <2>3, <3>1, <3>2
  <2>5. \/ Goto(p, "work") /\ UNCHANGED job
        \/ /\ Goto(p, "report")
           /\ job' = [job EXCEPT ![p].verdict = Unreached(Head(job[p].todo))]
    BY <1>3 DEF Connect, Concludes
  <2>6. Unreached(Head(job[p].todo)) \in Statuses
    BY DEF Unreached, Statuses
  <2>7. /\ pc' \in [Procs -> PCs] /\ job' \in [Procs -> Job] /\ Others(p)
        /\ pc'[p] \in {"work", "report"}
        /\ job'[p].server = s /\ job'[p].todo = job[p].todo
        /\ job'[p].row = job[p].row
    <3>1. CASE Goto(p, "work") /\ UNCHANGED job
      BY <1>0, <3>1 DEF TypeOK, Goto, PCs, Others
    <3>2. CASE /\ Goto(p, "report")
               /\ job' = [job EXCEPT ![p].verdict =
                            Unreached(Head(job[p].todo))]
      <4>1. /\ job'[p] \in Job /\ job'[p].server = s
            /\ job'[p].todo = job[p].todo /\ job'[p].row = job[p].row
        BY <1>0, <2>6, <3>2 DEF TypeOK, Job
      <4> QED BY <1>0, <3>2, <4>1 DEF TypeOK, Goto, PCs, Others
    <3> QED BY <2>5, <3>1, <3>2
  <2>8. TypeOK'
    BY <1>0, <1>3, <2>4, <2>7 DEF Connect, TypeOK, machine, bound
  <2>9. Attends(p)'
    BY <1>a, <2>1, <2>4, <2>7 DEF Attends, HolderPCs, ContactPCs, Frame
  <2> QED BY <2>4, <2>7, <2>8, <2>9 DEF Kept
<1>4. ASSUME RunUptime(p) \/ Install(p) \/ Measure(p) PROVE Kept(p)
  <2>1. pc[p] \in ContactPCs /\ UNCHANGED <<db, pem>> /\ row' = row
    BY <1>4 DEF RunUptime, Install, Measure, ContactPCs, db
  <2>2. h \in Hosts /\ proxy[h] \in {"none", "ours", "foreign"}
    BY <1>0, <1>4 DEF RunUptime, Install, Measure, Attends, TypeOK
  <2>3. \E v \in Statuses : Concludes(p, v)
    <3>1. CASE Install(p)
      BY <2>2, <3>1, Outcomes DEF Install, Statuses
    <3>2. CASE RunUptime(p) \/ Measure(p)
      BY <3>2 DEF RunUptime, Measure, Statuses
    <3> QED BY <1>4, <3>1, <3>2
  <2>4. PICK v \in Statuses : /\ pc' = [pc EXCEPT ![p] = "report"]
                              /\ job' = [job EXCEPT ![p].verdict = v]
    BY <2>3 DEF Concludes, Goto
  <2>5. /\ pc' \in [Procs -> PCs] /\ job' \in [Procs -> Job] /\ Others(p)
        /\ pc'[p] = "report"
        /\ job'[p].server = s /\ job'[p].todo = job[p].todo
    <3>1. /\ job'[p] \in Job /\ job'[p].server = s
          /\ job'[p].todo = job[p].todo
      BY <1>0, <2>4 DEF TypeOK, Job
    <3> QED BY <1>0, <2>4, <3>1 DEF TypeOK, PCs, Others
  <2>6. proxy' \in [Hosts -> {"none", "ours", "foreign"}]
    <3>1. CASE Install(p)
      BY <1>0, <2>2, <3>1, Outcomes DEF Install, TypeOK
    <3>2. CASE RunUptime(p) \/ Measure(p)
      BY <1>0, <3>2 DEF RunUptime, Measure, machine, TypeOK
    <3> QED BY <1>4, <3>1, <3>2
  <2>7. TypeOK'
    BY <1>0, <1>4, <2>5, <2>6
    DEF RunUptime, Install, Measure, TypeOK, db, machine, bound
  <2>8. RowsOK' /\ Frame
    BY <2>1, RowsUnchanged
  <2>9. Attends(p)'
    BY <1>a, <2>1, <2>5 DEF Attends, HolderPCs, ContactPCs
  <2> QED BY <2>5, <2>7, <2>8, <2>9 DEF Kept
<1>5. ASSUME Report(p) PROVE Kept(p)
  <2> DEFINE todo == IF Head(job[p].todo) = "init" /\ job[p].verdict = "online"
                       THEN <<"refresh">> \o Tail(job[p].todo)
                       ELSE Tail(job[p].todo)
  <2>1. /\ pc[p] \in ContactPCs /\ UNCHANGED <<apps, pem>>
        /\ UpdateStatus(s, job[p].verdict)
        /\ Continue(p, todo)
    BY <1>5 DEF Report, ContactPCs
  <2>2. todo \in Seq(Contacts)
    <3>1. <<"refresh">> \in Seq(Contacts)
      BY DEF Contacts
    <3>2. <<"refresh">> \o Tail(job[p].todo) \in Seq(Contacts)
      BY <1>a, <2>1, <3>1
    <3> QED BY <1>a, <2>1, <3>2
  <2> HIDE DEF todo
  <2>3. row' \in [Servers -> Row] /\ RowsOK' /\ Frame
    BY <1>0, <1>a, <2>1, UpdateStatusStep, Jobs
  <2>4. /\ pc' \in [Procs -> PCs] /\ job' \in [Procs -> Job]
        /\ Attends(p)' /\ Others(p)
    BY <1>a, <2>1, <2>2, <2>3, Continues DEF Frame
  <2>5. TypeOK'
    BY <1>0, <1>5, <2>3, <2>4 DEF Report, TypeOK, machine, bound
  <2> QED BY <2>3, <2>4, <2>5 DEF Kept
<1>6. ASSUME RefreshAll(p) PROVE Kept(p)
  <2>1. PICK t \in Servers :
          /\ row[t].status \in {"online", "offline"}
          /\ job' = [job EXCEPT ![p] = [NoJob EXCEPT !.kind = "contact",
                                          !.server = t, !.todo = <<"refresh">>]]
    BY <1>6 DEF RefreshAll
  <2> DEFINE j == [NoJob EXCEPT !.kind = "contact", !.server = t,
                                !.todo = <<"refresh">>]
  <2>2. <<"refresh">> \in Seq(Contacts) /\ <<"refresh">> # <<>>
    BY DEF Contacts
  <2>3. j \in Job /\ j.server = t /\ j.todo = <<"refresh">>
    BY <2>2, Jobs DEF Job, NoJob
  <2>4. /\ pc' \in [Procs -> PCs] /\ job' \in [Procs -> Job]
        /\ pc'[p] = "get" /\ job'[p] = j /\ Others(p)
    BY <1>6, <2>1, <2>3, Starts DEF RefreshAll, Goto, PCs
  <2>5. RowsOK' /\ Frame
    BY <1>6, RowsUnchanged DEF RefreshAll
  <2>6. TypeOK'
    BY <1>0, <1>6, <2>4 DEF RefreshAll, TypeOK, db, machine, bound
  <2>7. Attends(p)'
    BY <1>6, <2>1, <2>2, <2>3, <2>4
    DEF Attends, HolderPCs, ContactPCs, RefreshAll, db
  <2> QED BY <2>4, <2>5, <2>6, <2>7 DEF Kept
<1> QED BY <1>1, <1>2, <1>3, <1>4, <1>5, <1>6

\* Steps of no process: apps, machines, and the restart.
LEMMA WorldKept ==
  ASSUME ServersInv,
         \/ \E s \in Servers : AppArrives(s) \/ AppLeaves(s)
         \/ \E h \in Hosts : WorkerChanges(h) \/ Reinstall(h)
         \/ Restart
  PROVE  ServersInv'
<1>0. TypeOK /\ RowsOK /\ \A p \in Procs : Attends(p)
  BY DEF ServersInv
<1>1. ASSUME NEW s \in Servers, AppArrives(s) \/ AppLeaves(s)
      PROVE  ServersInv'
  <2>1. UNCHANGED <<row, pem, worker, install, proxy, pc, job, requests, changes,
                    crashes>>
    BY <1>1 DEF AppArrives, AppLeaves, machine, proc, bound
  <2>2. apps' \subseteq Servers /\ NoOrphanApps'
    BY <1>0, <1>1, <2>1
    DEF AppArrives, AppLeaves, TypeOK, RowsOK, NoOrphanApps, Exists
  <2>3. TypeOK'
    BY <1>0, <2>1, <2>2 DEF TypeOK
  <2>4. RowsOK'
    BY <1>0, <2>1, <2>2 DEF RowsOK, KeyMatchesHost, KeyFileKept, Exists
  <2>5. \A p \in Procs : Attends(p)'
    BY <1>0, <2>1 DEF Attends, Exists
  <2> QED BY <2>3, <2>4, <2>5 DEF ServersInv
<1>2. ASSUME NEW h \in Hosts, WorkerChanges(h) \/ Reinstall(h)
      PROVE  ServersInv'
  <2>1. UNCHANGED <<row, pem, apps, pc, job>>
    BY <1>2 DEF WorkerChanges, Reinstall, db, proc
  <2>2. TypeOK'
    BY <1>0, <1>2, <2>1 DEF WorkerChanges, Reinstall, TypeOK, bound
  <2>3. RowsOK'
    BY <1>0, <2>1 DEF RowsOK, KeyMatchesHost, KeyFileKept, NoOrphanApps, Exists
  <2>4. \A p \in Procs : Attends(p)'
    BY <1>0, <2>1 DEF Attends, Exists
  <2> QED BY <2>2, <2>3, <2>4 DEF ServersInv
<1>3. ASSUME Restart PROVE ServersInv'
  <2>1. /\ UNCHANGED <<row, pem, apps>>
        /\ pc' = [p \in Procs |-> "idle"] /\ job' = [p \in Procs |-> NoJob]
    BY <1>3 DEF Restart, db
  <2>2. TypeOK'
    BY <1>0, <1>3, <2>1, Jobs DEF Restart, TypeOK, machine, PCs
  <2>3. RowsOK'
    BY <1>0, <2>1 DEF RowsOK, KeyMatchesHost, KeyFileKept, NoOrphanApps, Exists
  <2>4. \A p \in Procs : Attends(p)'
    BY <2>1 DEF Attends, HolderPCs, ContactPCs
  <2> QED BY <2>2, <2>3, <2>4 DEF ServersInv
<1> QED BY <1>1, <1>2, <1>3

\* The invariant is inductive.
LEMMA ServersStep == ServersInv /\ [Next]_vars => ServersInv'
<1> SUFFICES ASSUME ServersInv, [Next]_vars PROVE ServersInv'
  OBVIOUS
<1>1. ASSUME NEW p \in Procs, Request(p) \/ Step(p) \/ RefreshAll(p)
      PROVE  ServersInv'
  <2>1. Kept(p)
    BY <1>1, RequestKept, HandlerKept, ContactKept DEF Step
  <2>2. ASSUME NEW q \in Procs PROVE Attends(q)'
    <3>1. CASE q = p
      BY <2>1, <3>1 DEF Kept
    <3>2. CASE q # p
      BY <2>1, <3>2, AttendsKept DEF Kept, Others, ServersInv
    <3> QED BY <3>1, <3>2
  <2> QED BY <2>1, <2>2 DEF Kept, ServersInv
<1>2. CASE UNCHANGED vars
  <2>1. UNCHANGED <<row, pem, apps, worker, install, proxy, pc, job, requests,
                    changes, crashes>>
    BY <1>2 DEF vars, db, machine, proc, bound
  <2>2. TypeOK'
    BY <2>1 DEF ServersInv, TypeOK
  <2>3. RowsOK'
    BY <2>1 DEF ServersInv, RowsOK, KeyMatchesHost, KeyFileKept, NoOrphanApps,
                Exists
  <2>4. \A p \in Procs : Attends(p)'
    BY <2>1 DEF ServersInv, Attends, Exists
  <2> QED BY <2>2, <2>3, <2>4 DEF ServersInv
<1> QED BY <1>1, <1>2, WorldKept DEF Next

\* The invariant holds at the start.
LEMMA ServersStart == Init => ServersInv
<1> SUFFICES ASSUME Init PROVE ServersInv
  OBVIOUS
<1>1. TypeOK
  BY Jobs DEF Init, TypeOK, PCs, KeyFile, Reach
<1>2. \A s \in Servers : row[s] = Unused /\ ~Exists(s)
  BY DEF Init, Unused, Exists, Statuses
<1>3. RowsOK
  BY <1>2 DEF Init, RowsOK, KeyMatchesHost, KeyFileKept, NoOrphanApps, Unused
<1>4. \A p \in Procs : Attends(p)
  BY DEF Init, Attends, HolderPCs, ContactPCs
<1> QED BY <1>1, <1>3, <1>4 DEF ServersInv

---------------------------------------------------------------------------
\* Every variable keeps its type: no goroutine runs out of contacts and no
\* status is written that the rest of the program does not know.
THEOREM ServersTyped == Spec => []TypeOK
<1>1. ServersInv => TypeOK
  BY DEF ServersInv
<1> QED BY <1>1, ServersStart, ServersStep, PTL DEF Spec

\* Whatever handlers save rows they read earlier while connections pin keys,
\* a row never holds the key of a machine at another address.
THEOREM PinnedKeyIsOurs == Spec => []KeyMatchesHost
<1>1. ServersInv => KeyMatchesHost
  BY DEF ServersInv, RowsOK
<1> QED BY <1>1, ServersStart, ServersStep, PTL DEF Spec

\* Whatever Delete and the handlers that save a key do at the same time, a row
\* that names a key file has one.
THEOREM KeyFileStays == Spec => []KeyFileKept
<1>1. ServersInv => KeyFileKept
  BY DEF ServersInv, RowsOK
<1> QED BY <1>1, ServersStart, ServersStep, PTL DEF Spec

\* No server is deleted under an app, although Delete counts the apps first and
\* an app may be created on the server after that.
THEOREM AppsKeepServers == Spec => []NoOrphanApps
<1>1. ServersInv => NoOrphanApps
  BY DEF ServersInv, RowsOK
<1> QED BY <1>1, ServersStart, ServersStep, PTL DEF Spec

=============================================================================
