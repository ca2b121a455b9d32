----------------------- MODULE FileDescriptors_proofs -----------------------
(***************************************************************************)
(* For any number of terminals, processes and descriptors, any disk and    *)
(* any requests: the descriptors of a process are its own, reads through   *)
(* one of them are contiguous, and a lone listing is complete.             *)
(***************************************************************************)
EXTENDS FileDescriptors, SequenceTheorems, WellFoundedInduction, TLAPS

USE ProcessesAssumption
USE DEF Terminals, Pids

-----------------------------------------------------------------------------
(***************************************************************************)
(* The sessions: the one being served has a program, and no program is in  *)
(* two of them.                                                            *)
(***************************************************************************)
Apart ==
  \A t, u \in Terminals : t # u =>
    \A i \in DOMAIN session[t], j \in DOMAIN session[u] : session[t][i] # session[u][j]

SessionInv ==
  /\ session \in [Terminals -> Seq(Pids)] /\ served \in Terminals /\ running \in Pids
  /\ session[served] # <<>>
  /\ Apart

LEMMA SessionSame ==
  ASSUME SessionInv, session' = session, served' = served, running' = running
  PROVE  SessionInv'
BY DEF SessionInv, Apart

\* The youngest program of a session belongs to no other session and is live.
LEMMA YoungestIsOwn ==
  ASSUME SessionInv
  PROVE  /\ \A t \in Terminals : session[t] # <<>> =>
              Last(session[t]) \in Pids /\ Last(session[t]) \in S!Live
         /\ \A t, u \in Terminals :
              t # u /\ session[t] # <<>> /\ session[u] # <<>> => Last(session[t]) # Last(session[u])
<1>1. ASSUME NEW t \in Terminals, session[t] # <<>>
      PROVE  /\ Len(session[t]) \in DOMAIN session[t]
             /\ Last(session[t]) = session[t][Len(session[t])]
             /\ Last(session[t]) \in Pids
      <2>1. session[t] \in Seq(Pids)
        BY DEF SessionInv
      <2> QED
        BY <1>1, <2>1 DEF Last
<1>2. ASSUME NEW t \in Terminals, session[t] # <<>>
      PROVE  Last(session[t]) \in S!Live
  BY <1>1, <1>2 DEF S!Live, S!Terminals, S!ToSet
<1> QED
  BY <1>1, <1>2 DEF SessionInv, Apart

LEMMA SessionInit == Init => SessionInv
<1> SUFFICES ASSUME Init PROVE SessionInv
  OBVIOUS
<1>1. session = [t \in Terminals |-> IF t = 0 THEN <<0>> ELSE <<>>]
  BY DEF Init, S!Init, S!Terminals, Terminals
<1>2. served = 0 /\ running = 0
  BY DEF Init, S!Init
<1>3. <<0>> \in Seq(Pids) /\ <<>> \in Seq(Pids) /\ <<0>> # <<>> /\ 0 \in Terminals /\ 0 \in Pids
  OBVIOUS
<1>4. session \in [Terminals -> Seq(Pids)] /\ session[served] # <<>>
  BY <1>1, <1>2, <1>3
<1>5. \A t \in Terminals : t # 0 => DOMAIN session[t] = {}
  BY <1>1
<1> QED
  BY <1>2, <1>3, <1>4, <1>5 DEF SessionInv, Apart

\* A program is put on top of the served session.
LEMMA BeginKeeps ==
  ASSUME SessionInv, NEW p \in Pids, S!Begin(p)
  PROVE  /\ SessionInv' /\ S!Live' \subseteq S!Live \cup {p}
         /\ \A t \in Terminals : t # served => session'[t] = session[t]
<1>1. /\ session' = [session EXCEPT ![served] = Append(@, p)]
      /\ served' = served /\ running' = p /\ p \notin S!Live
  BY DEF S!Begin, S!Last
<1>2. ASSUME NEW t \in Terminals, NEW i \in DOMAIN session[t]
      PROVE  session[t][i] # p
  BY <1>1 DEF S!Live, S!Terminals, S!ToSet
<1>3. /\ session' \in [Terminals -> Seq(Pids)]
      /\ session'[served] = Append(session[served], p)
      /\ session'[served'] # <<>>
  <2>1. session \in [Terminals -> Seq(Pids)] /\ served \in Terminals /\ session[served] \in Seq(Pids)
    BY DEF SessionInv
  <2>2. Append(session[served], p) \in Seq(Pids) /\ Append(session[served], p) # <<>>
    <3>1. /\ Append(session[served], p) \in Seq(Pids)
          /\ Len(Append(session[served], p)) = Len(session[served]) + 1
      BY <2>1, AppendProperties
    <3>2. Len(session[served]) \in Nat /\ Len(<<>>) = 0
      BY <2>1
    <3> QED
      BY <3>1, <3>2
  <2> QED
    BY <1>1, <2>1, <2>2
<1>4. ASSUME NEW i \in DOMAIN session'[served]
      PROVE  session'[served][i] = p \/ (i \in DOMAIN session[served] /\ session'[served][i] = session[served][i])
  <2>1. session[served] \in Seq(Pids)
    BY DEF SessionInv
  <2> QED
    BY <1>3, <1>4, <2>1
<1>5. Apart'
  <2> SUFFICES ASSUME NEW t \in Terminals, NEW u \in Terminals, t # u,
                      NEW i \in DOMAIN session'[t], NEW j \in DOMAIN session'[u]
               PROVE  session'[t][i] # session'[u][j]
    BY DEF Apart
  <2>1. \A v \in Terminals \ {served} : session'[v] = session[v]
    BY <1>1 DEF SessionInv
  <2> Apart
    BY DEF SessionInv
  <2>2. CASE t = served
    <3>1. j \in DOMAIN session[u] /\ session'[u][j] = session[u][j] /\ session[u][j] # p
      BY <1>2, <2>1, <2>2
    <3>2. i \in DOMAIN session[t] => session[t][i] # session[u][j]
      BY <3>1 DEF Apart
    <3> QED
      BY <1>4, <2>2, <3>1, <3>2
  <2>3. CASE u = served
    <3>1. i \in DOMAIN session[t] /\ session'[t][i] = session[t][i] /\ session[t][i] # p
      BY <1>2, <2>1, <2>3
    <3>2. j \in DOMAIN session[u] => session[t][i] # session[u][j]
      BY <3>1 DEF Apart
    <3> QED
      BY <1>4, <2>3, <3>1, <3>2
  <2>4. CASE t # served /\ u # served
    <3>1. session'[t] = session[t] /\ session'[u] = session[u]
      BY <2>1, <2>4
    <3> QED
      BY <3>1 DEF Apart
  <2> QED
    BY <2>2, <2>3, <2>4
<1>6. S!Live' \subseteq S!Live \cup {p}
  <2> SUFFICES ASSUME NEW t \in Terminals, NEW i \in DOMAIN session'[t]
               PROVE  session'[t][i] \in S!Live \cup {p}
    BY DEF S!Live, S!Terminals, S!ToSet
  <2>1. session'[t][i] = p \/ (i \in DOMAIN session[t] /\ session'[t][i] = session[t][i])
    BY <1>1, <1>4 DEF SessionInv
  <2> QED
    BY <2>1 DEF S!Live, S!Terminals, S!ToSet
<1> QED
  BY <1>1, <1>3, <1>5, <1>6 DEF SessionInv

\* The youngest program leaves; the one below it is the youngest then.
LEMMA LeaveKeeps ==
  ASSUME SessionInv, S!Leave
  PROVE  /\ SessionInv' /\ served' = served
         /\ Last(session'[served]) \in {session[served][i] : i \in DOMAIN session[served]}
         /\ S!Live' \subseteq S!Live
         /\ \A t \in Terminals : t # served => session'[t] = session[t]
<1> DEFINE s == session[served]
<1>1. /\ session' = [session EXCEPT ![served] = Front(s)]
      /\ running' = Last(session'[served]) /\ served' = served /\ Len(s) > 1
  BY DEF S!Leave, S!Front, S!Last, Front, Last
<1>2. s \in Seq(Pids)
  BY DEF SessionInv
<1>3. /\ Front(s) \in Seq(Pids) /\ Len(Front(s)) = Len(s) - 1 /\ Front(s) # <<>>
      /\ \A i \in DOMAIN Front(s) : i \in DOMAIN s /\ Front(s)[i] = s[i]
  <2>1. Front(s) = SubSeq(s, 1, Len(s) - 1)
    BY DEF Front
  <2>2. Len(s) \in Nat /\ DOMAIN s = 1 .. Len(s) /\ \A i \in 1 .. Len(s) : s[i] \in Pids
    BY <1>2
  <2>3. SubSeq(s, 1, Len(s) - 1) = [i \in 1 .. Len(s) - 1 |-> s[i]]
    BY <1>1, <1>2, <2>2
  <2>4. [i \in 1 .. Len(s) - 1 |-> s[i]] \in Seq(Pids)
    BY <1>1, <2>2
  <2>5. Front(s) = [i \in 1 .. Len(s) - 1 |-> s[i]]
    BY <2>1, <2>3
  <2>6. Len(Front(s)) = Len(s) - 1 /\ DOMAIN Front(s) = 1 .. Len(s) - 1
    BY <1>1, <2>2, <2>5
  <2>7. Front(s) # <<>>
    BY <1>1, <2>2, <2>6
  <2>8. \A i \in DOMAIN Front(s) : i \in DOMAIN s /\ Front(s)[i] = s[i]
    BY <1>1, <2>2, <2>5, <2>6
  <2> QED
    BY <2>4, <2>5, <2>6, <2>7, <2>8
<1>4. session'[served] = Front(s) /\ session' \in [Terminals -> Seq(Pids)]
  BY <1>1, <1>3 DEF SessionInv
<1>5. Len(Front(s)) \in DOMAIN Front(s)
  BY <1>1, <1>2, <1>3
<1>6. Last(session'[served]) = s[Len(Front(s))] /\ Len(Front(s)) \in DOMAIN s
  BY <1>3, <1>4, <1>5 DEF Last
<1>7. running' \in Pids
  BY <1>1, <1>2, <1>6
<1>8. Apart'
  <2> SUFFICES ASSUME NEW t \in Terminals, NEW u \in Terminals, t # u,
                      NEW i \in DOMAIN session'[t], NEW j \in DOMAIN session'[u]
               PROVE  session'[t][i] # session'[u][j]
    BY DEF Apart
  <2>1. \A v \in Terminals : v # served => session'[v] = session[v]
    BY <1>1 DEF SessionInv
  <2>2. \A v \in Terminals : \A k \in DOMAIN session'[v] :
          k \in DOMAIN session[v] /\ session'[v][k] = session[v][k]
    BY <1>3, <1>4, <2>1
  <2>3. /\ i \in DOMAIN session[t] /\ session'[t][i] = session[t][i]
        /\ j \in DOMAIN session[u] /\ session'[u][j] = session[u][j]
    BY <2>2
  <2>4. Apart
    BY DEF SessionInv
  <2> QED
    BY <2>3, <2>4 DEF Apart
<1>9. S!Live' \subseteq S!Live
  BY <1>1, <1>3, <1>4 DEF S!Live, S!Terminals, S!ToSet, SessionInv
<1>10. \A t \in Terminals : t # served => session'[t] = session[t]
  BY <1>1 DEF SessionInv
<1> QED
  BY <1>1, <1>3, <1>4, <1>6, <1>7, <1>8, <1>9, <1>10 DEF SessionInv

LEMMA ServeKeeps ==
  ASSUME SessionInv, S!Serve
  PROVE  SessionInv' /\ session' = session
<1>1. /\ served' = (served + 1) % NumTerminals /\ session[served'] # <<>>
      /\ running' = Last(session[served']) /\ session' = session
  BY DEF S!Serve, S!Last, Last
<1>2. served' \in Terminals
  BY <1>1 DEF SessionInv
<1>3. running' \in Pids
  BY <1>1, <1>2, YoungestIsOwn
<1> QED
  BY <1>1, <1>2, <1>3 DEF SessionInv, Apart

LEMMA ServeNewKeeps ==
  ASSUME SessionInv, NEW p \in Pids, S!ServeNew(p)
  PROVE  /\ SessionInv'
         /\ served' \in Terminals /\ served' # served
         /\ session[served'] = <<>> /\ S!Live' \subseteq S!Live \cup {p}
         /\ \A t \in Terminals : t # served' => session'[t] = session[t]
<1>1. /\ served' = (served + 1) % NumTerminals /\ session[served'] = <<>>
      /\ running' = p /\ session' = [session EXCEPT ![served'] = <<p>>] /\ p \notin S!Live
  BY DEF S!ServeNew
<1>2. served' \in Terminals /\ served' # served
  <2>1. served' \in Terminals
    BY <1>1 DEF SessionInv
  <2> QED
    BY <1>1, <2>1 DEF SessionInv
<1>3. ASSUME NEW t \in Terminals, NEW i \in DOMAIN session[t]
      PROVE  session[t][i] # p
  BY <1>1 DEF S!Live, S!Terminals, S!ToSet
<1>4. session' \in [Terminals -> Seq(Pids)] /\ session'[served'] = <<p>>
  BY <1>1, <1>2 DEF SessionInv
<1>5. Apart'
  <2> SUFFICES ASSUME NEW t \in Terminals, NEW u \in Terminals, t # u,
                      NEW i \in DOMAIN session'[t], NEW j \in DOMAIN session'[u]
               PROVE  session'[t][i] # session'[u][j]
    BY DEF Apart
  <2>1. \A v \in Terminals : v # served' => session'[v] = session[v]
    BY <1>1 DEF SessionInv
  <2>2. \A k \in DOMAIN session'[served'] : session'[served'][k] = p
    BY <1>4
  <2>3. CASE t = served'
    BY <1>3, <2>1, <2>2, <2>3
  <2>4. CASE u = served'
    BY <1>3, <2>1, <2>2, <2>4
  <2>5. CASE t # served' /\ u # served'
    BY <2>1, <2>5 DEF SessionInv, Apart
  <2> QED
    BY <2>3, <2>4, <2>5
<1>6. \A t \in Terminals : t # served' => session'[t] = session[t]
  BY <1>1 DEF SessionInv
<1>7. S!Live' \subseteq S!Live \cup {p}
  <2> SUFFICES ASSUME NEW t \in Terminals, NEW i \in DOMAIN session'[t]
               PROVE  session'[t][i] \in S!Live \cup {p}
    BY DEF S!Live, S!Terminals, S!ToSet
  <2>1. t = served' => session'[t][i] = p
    BY <1>4
  <2> QED
    BY <1>6, <2>1 DEF S!Live, S!Terminals, S!ToSet
<1> QED
  BY <1>1, <1>2, <1>4, <1>5, <1>6, <1>7 DEF SessionInv
-----------------------------------------------------------------------------
(***************************************************************************)
(* The strengthening.  A descriptor that is not a regular file's has       *)
(* position 0; one in use has an inode and, if it is a regular file's, has *)
(* delivered what lies before its position.  Who is inside read_directory  *)
(* holds a descriptor of the directory.  Whoever had the directory to      *)
(* itself was given the entries before the counter, and will be given the  *)
(* next.                                                                   *)
(***************************************************************************)
AllArguments == Arguments \cup {""}
Types == {RTCType, DirectoryType, RegularType}
Descriptors == [in_use : BOOLEAN, type : Types, inode : -1 .. Len(inodes) - 1, file_pos : 0 .. MaxPos]
Listers == [at : {"idle", "fetch", "load", "store"}, fd : Fds, entry : DOMAIN direntries, loaded : Nat]

SoundAs(d, n) ==
  /\ d.type # RegularType => d.file_pos = 0
  /\ d.in_use => d.inode # -1
  /\ d.in_use /\ d.type = RegularType => n = Min({d.file_pos, inodes[d.inode + 1].length})

TablesInv ==
  /\ file_descriptors \in [Pids -> [Fds -> Descriptors]]
  /\ delivered \in [Pids -> [Fds -> Nat]]
  /\ \A p \in Pids, fd \in Fds : SoundAs(file_descriptors[p][fd], delivered[p][fd])

Holds(t) ==
  lister[t].at # "idle" =>
    session[t] # <<>> /\ file_descriptors[Last(session[t])][lister[t].fd].type = DirectoryType

ListersInv ==
  /\ lister \in [Terminals -> Listers]
  /\ \A t \in Terminals : Holds(t)

NextEntryIs(l, count) ==
  /\ l.at # "idle" => count < DirCount
  /\ l.at \in {"load", "store"} => l.entry = count + 1
  /\ l.at = "store" => l.loaded = count

Sole(t) ==
  /\ \A u \in Terminals : u # t => lister[u].at = "idle"
  /\ round.entries = [i \in 1 .. dentry_counter |-> i] /\ dentry_counter <= DirCount
  /\ NextEntryIs(lister[t], dentry_counter)

RoundInv ==
  /\ dentry_counter \in Nat
  /\ round \in [reader : Terminals \cup {NoReader, SeveralReaders}, entries : Seq(Nat)]
  /\ round.reader = NoReader =>
       /\ dentry_counter = 0 /\ round.entries = <<>>
       /\ \A t \in Terminals : lister[t].at = "idle"
  /\ round.reader \in Terminals => Sole(round.reader)

FilesInv ==
  /\ SessionInv /\ TablesInv /\ ListersInv /\ RoundInv
  /\ cur_args \in AllArguments

-----------------------------------------------------------------------------
(***************************************************************************)
(* Least elements, and what read_data counts.                              *)
(***************************************************************************)
LEMMA LeastOfTwo ==
  ASSUME NEW a \in Nat, NEW b \in Nat
  PROVE  Min({a, b}) = IF a <= b THEN a ELSE b
<1>1. \E x \in {a, b} : \A y \in {a, b} : x <= y
  OBVIOUS
<1> QED
  BY <1>1 DEF Min

LEMMA CountAddsUp ==
  ASSUME NEW pos \in Nat, NEW n \in Nat, NEW size \in Nat
  PROVE  Min({pos, size}) + (IF pos >= size THEN 0 ELSE IF pos + n > size THEN size - pos ELSE n)
           = Min({pos + n, size})
<1>1. Min({pos, size}) = IF pos <= size THEN pos ELSE size
  BY LeastOfTwo
<1>2. Min({pos + n, size}) = IF pos + n <= size THEN pos + n ELSE size
  <2>1. pos + n \in Nat
    OBVIOUS
  <2> QED
    BY <2>1, LeastOfTwo
<1> QED
  BY <1>1, <1>2

LEMMA LeastIsMember ==
  ASSUME NEW M, M \subseteq Nat, M # {}
  PROVE  Min(M) \in M
<1> DEFINE Less == {r \in Nat \X Nat : r[1] < r[2]}
<1>1. IsWellFoundedOn(Less, Nat)
  BY NatLessThanWellFounded DEF OpToRel
<1>2. \A x, y \in M : y < x => <<y, x>> \in Less
  OBVIOUS
<1> HIDE DEF Less
<1>3. PICK x \in M : \A y \in M : <<y, x>> \notin Less
  BY <1>1, WFMin
<1>4. \A y \in M : ~(y < x)
  BY <1>2, <1>3
<1>5. \A y \in M : x <= y
  BY <1>4
<1> QED
  BY <1>5 DEF Min

LEMMA DiskHasInode == 0 \in -1 .. Len(inodes) - 1
<1>1. 1 \in DOMAIN direntries
  BY DiskAssumption
<1> QED
  BY <1>1, DiskAssumption

LEMMA ReadCount ==
  ASSUME NEW k \in 0 .. Len(inodes) - 1, NEW pos \in Nat, NEW n \in Nat, pos + n < UintValues
  PROVE  LET size == inodes[k + 1].length
         IN read_data(k, inodes, pos, n)
              = IF pos >= size THEN 0 ELSE IF pos + n > size THEN size - pos ELSE n
<1> DEFINE size == inodes[k + 1].length
           count == Clipped(pos, n, size)
<1>1. size \in Nat
  BY DiskAssumption
<1>2. count = IF pos >= size THEN 0 ELSE IF pos + n > size THEN size - pos ELSE n
  <2>1. (pos + n) % UintValues = pos + n
    BY UintAssumption
  <2> QED
    BY <1>1, <2>1 DEF Clipped
<1>3. count \in Nat
  BY <1>1, <1>2
<1>4. Len(BytesRead(inodes[k + 1], pos, n)) = count
  <2> HIDE DEF count
  <2>1. BytesRead(inodes[k + 1], pos, n) =
          [i \in 1 .. count |->
             <<CharAt(inodes[k + 1].data_block_num, Places(pos, count)[i].block + 1),
               Places(pos, count)[i].byte>>]
    BY DEF BytesRead, count
  <2> QED
    BY <1>3, <2>1
<1>5. ~(k >= Len(inodes))
  BY DiskAssumption
<1> QED
  BY <1>2, <1>4, <1>5 DEF read_data

-----------------------------------------------------------------------------
(***************************************************************************)
(* Steps that leave the directory counter and the listings alone.          *)
(***************************************************************************)
TablesStep ==
  /\ SessionInv' /\ TablesInv'
  /\ \A t \in Terminals : lister[t].at # "idle" =>
       /\ session'[t] = session[t]
       /\ file_descriptors'[Last(session[t])] = file_descriptors[Last(session[t])]
  /\ UNCHANGED <<dentry_counter, lister, round>>
  /\ cur_args' \in AllArguments

LEMMA TablesStepKeeps == FilesInv /\ TablesStep => FilesInv'
<1> SUFFICES ASSUME FilesInv, TablesStep PROVE FilesInv'
  OBVIOUS
<1>1. UNCHANGED <<dentry_counter, lister, round>>
  BY DEF TablesStep
<1>2. RoundInv'
  BY <1>1 DEF FilesInv, RoundInv, Sole, NextEntryIs, DirCount
<1>3. ASSUME NEW t \in Terminals PROVE Holds(t)'
  BY <1>1 DEF FilesInv, ListersInv, Holds, TablesStep
<1> QED
  BY <1>1, <1>2, <1>3 DEF FilesInv, ListersInv, TablesStep

\* Whose table the served program may write: nobody inside read_directory.
LEMMA OthersList ==
  ASSUME FilesInv, Calls
  PROVE  /\ served \in Terminals /\ Current \in Pids /\ Current \in S!Live
         /\ \A t \in Terminals : lister[t].at # "idle" =>
              /\ t # served /\ session[t] # <<>> /\ Last(session[t]) \in S!Live
              /\ Last(session[t]) # Current
              /\ \A i \in DOMAIN session[served] : Last(session[t]) # session[served][i]
<1>1. served \in Terminals /\ session[served] # <<>> /\ SessionInv
  BY DEF FilesInv, SessionInv
<1>2. Current \in Pids /\ Current \in S!Live
  BY <1>1, YoungestIsOwn DEF Current
<1> SUFFICES ASSUME NEW t \in Terminals, lister[t].at # "idle"
             PROVE  /\ t # served /\ session[t] # <<>> /\ Last(session[t]) \in S!Live
                    /\ Last(session[t]) # Current
                    /\ \A i \in DOMAIN session[served] : Last(session[t]) # session[served][i]
  BY <1>1, <1>2
<1>3. t # served /\ session[t] # <<>>
  BY DEF Calls, FilesInv, ListersInv, Holds
<1>4. Last(session[t]) \in S!Live /\ Last(session[t]) # Current
  BY <1>1, <1>3, YoungestIsOwn DEF Current
<1>5. Len(session[t]) \in DOMAIN session[t]
  <2>1. session[t] \in Seq(Pids)
    BY <1>1 DEF SessionInv
  <2> QED
    BY <1>3, <2>1
<1>6. \A i \in DOMAIN session[served] : session[t][Len(session[t])] # session[served][i]
  BY <1>1, <1>3, <1>5 DEF SessionInv, Apart
<1> QED
  BY <1>3, <1>4, <1>6 DEF Last

\* One descriptor of the served program becomes d and has delivered n bytes.
LEMMA DescriptorStep ==
  ASSUME FilesInv, Calls, NEW fd \in Fds, NEW d \in Descriptors, NEW n \in Nat, SoundAs(d, n),
         file_descriptors' = [file_descriptors EXCEPT ![Current][fd] = d],
         delivered' = [delivered EXCEPT ![Current][fd] = n],
         UNCHANGED <<processes, cur_args, dentry_counter, lister, round>>
  PROVE  FilesInv'
<1>1. Current \in Pids
  BY OthersList
<1>2. file_descriptors' \in [Pids -> [Fds -> Descriptors]] /\ delivered' \in [Pids -> [Fds -> Nat]]
  BY <1>1 DEF FilesInv, TablesInv
<1>3. ASSUME NEW p \in Pids, NEW f \in Fds, ~(p = Current /\ f = fd)
      PROVE  /\ file_descriptors'[p][f] = file_descriptors[p][f]
             /\ delivered'[p][f] = delivered[p][f]
  BY <1>1, <1>3 DEF FilesInv, TablesInv
<1>4. file_descriptors'[Current][fd] = d /\ delivered'[Current][fd] = n
  BY <1>1 DEF FilesInv, TablesInv
<1>5. TablesInv'
  <2>1. ASSUME NEW p \in Pids, NEW f \in Fds
        PROVE  SoundAs(file_descriptors'[p][f], delivered'[p][f])
    <3>1. CASE p = Current /\ f = fd
      BY <1>4, <3>1
    <3>2. CASE ~(p = Current /\ f = fd)
      BY <1>3, <3>2 DEF FilesInv, TablesInv
    <3> QED
      BY <3>1, <3>2
  <2> QED
    BY <1>2, <2>1 DEF TablesInv, SoundAs
<1>6. SessionInv'
  <2>1. session' = session /\ served' = served /\ running' = running
    BY DEF processes
  <2>2. SessionInv
    BY DEF FilesInv
  <2> QED
    BY <2>1, <2>2 DEF SessionInv, Apart
<1>7. \A p \in Pids : p # Current => file_descriptors'[p] = file_descriptors[p]
  BY DEF FilesInv, TablesInv
<1>8. \A t \in Terminals : lister[t].at # "idle" => Last(session[t]) # Current /\ Last(session[t]) \in Pids
  BY OthersList, YoungestIsOwn DEF FilesInv
<1>9. TablesStep
  BY <1>5, <1>6, <1>7, <1>8 DEF TablesStep, FilesInv, processes
<1> QED
  BY <1>9, TablesStepKeeps

\* The descriptors an open program has are sound, and its position is known.
LEMMA CurrentDescriptor ==
  ASSUME FilesInv, Calls, NEW fd \in Fds
  PROVE  /\ file_descriptors[Current][fd] \in Descriptors /\ delivered[Current][fd] \in Nat
         /\ SoundAs(file_descriptors[Current][fd], delivered[Current][fd])
  BY OthersList DEF FilesInv, TablesInv

-----------------------------------------------------------------------------
(***************************************************************************)
(* The calls.                                                              *)
(***************************************************************************)
\* The descriptors that close, a read and execute make of one.
LEMMA ChangedFields ==
  ASSUME NEW d \in Descriptors, NEW pos
  PROVE  /\ Closed(d) = [in_use |-> FALSE, type |-> d.type, inode |-> -1, file_pos |-> 0]
         /\ [d EXCEPT !.file_pos = pos]
              = [in_use |-> d.in_use, type |-> d.type, inode |-> d.inode, file_pos |-> pos]
         /\ [d EXCEPT !.in_use = FALSE, !.inode = 0, !.file_pos = 0]
              = [in_use |-> FALSE, type |-> d.type, inode |-> 0, file_pos |-> 0]
<1>1. ASSUME NEW e, e = [d EXCEPT !.in_use = FALSE, !.inode = -1, !.file_pos = 0]
      PROVE  e = [in_use |-> FALSE, type |-> d.type, inode |-> -1, file_pos |-> 0]
  BY <1>1 DEF Descriptors
<1>2. ASSUME NEW e, e = [d EXCEPT !.file_pos = pos]
      PROVE  e = [in_use |-> d.in_use, type |-> d.type, inode |-> d.inode, file_pos |-> pos]
  BY <1>2 DEF Descriptors
<1>3. ASSUME NEW e, e = [d EXCEPT !.in_use = FALSE, !.inode = 0, !.file_pos = 0]
      PROVE  e = [in_use |-> FALSE, type |-> d.type, inode |-> 0, file_pos |-> 0]
  BY <1>3 DEF Descriptors
<1>4. Closed(d) = [d EXCEPT !.in_use = FALSE, !.inode = -1, !.file_pos = 0]
  BY DEF Closed
<1>5. Closed(d) = [in_use |-> FALSE, type |-> d.type, inode |-> -1, file_pos |-> 0]
  BY <1>1, <1>4
<1> QED
  BY <1>2, <1>3, <1>5, Zenon

LEMMA OpenFd ==
  ASSUME FilesInv, Calls, FreeFds(Current) # {}
  PROVE  Min(FreeFds(Current)) \in Fds /\ ~file_descriptors[Current][Min(FreeFds(Current))].in_use
<1>1. FreeFds(Current) \subseteq Fds /\ \A fd \in FreeFds(Current) : ~file_descriptors[Current][fd].in_use
  BY DEF FreeFds
<1>2. FreeFds(Current) \subseteq Nat
  BY <1>1, DescriptorsAssumption DEF Fds
<1>3. Min(FreeFds(Current)) \in FreeFds(Current)
  BY <1>2, LeastIsMember
<1> QED
  BY <1>1, <1>3

LEMMA FoundEntry ==
  ASSUME NEW name, read_dentry_by_name(name, direntries) # Failure
  PROVE  read_dentry_by_name(name, direntries) \in DOMAIN direntries
<1>1. Matches(name, direntries) # {} /\ Matches(name, direntries) \subseteq DOMAIN direntries
  BY DEF read_dentry_by_name, Matches
<1>2. Matches(name, direntries) \subseteq Nat
  BY <1>1, DiskAssumption
<1>3. Min(Matches(name, direntries)) \in Matches(name, direntries)
  BY <1>1, <1>2, LeastIsMember
<1> QED
  BY <1>1, <1>3 DEF read_dentry_by_name

LEMMA OpenKeeps == ASSUME FilesInv, NEW name, Open(name) PROVE FilesInv'
<1> DEFINE found == read_dentry_by_name(name, direntries)
           fd == Min(FreeFds(Current))
           d == [in_use |-> TRUE, type |-> direntries[found].filetype,
                 inode |-> direntries[found].inode_num, file_pos |-> 0]
<1>1. /\ Calls /\ found # Failure /\ FreeFds(Current) # {}
      /\ file_descriptors' = [file_descriptors EXCEPT ![Current][fd] = d]
      /\ delivered' = [delivered EXCEPT ![Current][fd] = 0]
      /\ UNCHANGED <<processes, cur_args, dentry_counter, lister, round>>
  BY DEF Open
<1>2. fd \in Fds
  BY <1>1, OpenFd
<1>3. found \in DOMAIN direntries
  BY <1>1, FoundEntry
<1>4. /\ direntries[found].filetype \in Types
      /\ direntries[found].inode_num \in 0 .. Len(inodes) - 1
  BY <1>3, DiskAssumption DEF Types
<1> HIDE DEF found, fd
<1>5. d \in Descriptors
  BY <1>4, DiskAssumption, BoundsAssumption DEF Descriptors
<1>6. SoundAs(d, 0)
  <2>1. inodes[d.inode + 1].length \in Nat
    BY <1>4, DiskAssumption
  <2>2. Min({0, inodes[d.inode + 1].length}) = 0
    BY <2>1, LeastOfTwo
  <2> QED
    BY <1>4, <2>2 DEF SoundAs
<1> HIDE DEF d
<1> QED
  BY <1>1, <1>2, <1>5, <1>6, DescriptorStep

LEMMA CloseKeeps == ASSUME FilesInv, NEW fd \in Fds, Close(fd) PROVE FilesInv'
<1> DEFINE old == file_descriptors[Current][fd]
           n == delivered[Current][fd]
<1>1. /\ Calls
      /\ file_descriptors' = [file_descriptors EXCEPT ![Current][fd] = Closed(old)]
      /\ UNCHANGED <<processes, cur_args, dentry_counter, lister, delivered, round>>
  BY DEF Close, history
<1>2. old \in Descriptors /\ n \in Nat
  BY <1>1, CurrentDescriptor
<1>3. Closed(old) = [in_use |-> FALSE, type |-> old.type, inode |-> -1, file_pos |-> 0]
  BY <1>2, ChangedFields
<1>4. Closed(old) \in Descriptors /\ SoundAs(Closed(old), n)
  BY <1>2, <1>3, DiskAssumption, BoundsAssumption DEF Descriptors, SoundAs
<1>5. delivered' = [delivered EXCEPT ![Current][fd] = n]
  BY <1>1, OthersList DEF FilesInv, TablesInv
<1> HIDE DEF old, n
<1> QED
  BY <1>1, <1>2, <1>4, <1>5, DescriptorStep

LEMMA ReadKeeps ==
  ASSUME FilesInv, NEW fd \in Fds, NEW nbytes \in Requests, ReadFile(fd, nbytes)
  PROVE  FilesInv'
<1> DEFINE old == file_descriptors[Current][fd]
           next == NewPos(old.file_pos, nbytes)
           d == [old EXCEPT !.file_pos = next]
           count == read_data(old.inode, inodes, old.file_pos, nbytes)
           n == delivered[Current][fd] + count
           size == inodes[old.inode + 1].length
<1>1. /\ Calls /\ old.in_use /\ old.type = RegularType /\ next <= MaxPos
      /\ file_descriptors' = [file_descriptors EXCEPT ![Current][fd].file_pos = next]
      /\ delivered' = [delivered EXCEPT ![Current][fd] = n]
      /\ UNCHANGED <<processes, cur_args, dentry_counter, lister, round>>
  BY DEF ReadFile
<1>2. /\ old \in Descriptors /\ delivered[Current][fd] \in Nat
      /\ old.inode # -1 /\ delivered[Current][fd] = Min({old.file_pos, size})
  BY <1>1, CurrentDescriptor DEF SoundAs
<1>3. /\ old.file_pos \in Nat /\ old.inode \in 0 .. Len(inodes) - 1 /\ size \in Nat
      /\ nbytes \in Nat /\ next = old.file_pos + nbytes /\ next \in 0 .. MaxPos
      /\ next < UintValues
  <2>1. old.file_pos \in Nat /\ old.inode \in 0 .. Len(inodes) - 1
    BY <1>2, DiskAssumption, BoundsAssumption DEF Descriptors
  <2>2. nbytes \in Nat /\ MaxPos \in Nat /\ MaxPos < UintValues /\ UintValues \in Nat
    BY BoundsAssumption, UintAssumption
  <2>3. size \in Nat
    BY <2>1, DiskAssumption
  <2>4. next = old.file_pos + nbytes
    BY DEF NewPos
  <2> QED
    BY <1>1, <2>1, <2>2, <2>3, <2>4
<1>4. d = [in_use |-> TRUE, type |-> RegularType, inode |-> old.inode, file_pos |-> next]
  BY <1>1, <1>2, ChangedFields
<1>5. d \in Descriptors
  BY <1>2, <1>3, <1>4 DEF Descriptors, Types
<1>6. count = IF old.file_pos >= size THEN 0 ELSE IF next > size THEN size - old.file_pos ELSE nbytes
  <2>1. PICK pos, inode : pos = old.file_pos /\ inode = old.inode
    OBVIOUS
  <2> HIDE DEF old, next
  <2>2. pos \in Nat /\ inode \in 0 .. Len(inodes) - 1 /\ next = pos + nbytes /\ pos + nbytes < UintValues
    BY <1>3, <2>1
  <2>3. PICK length : length = inodes[inode + 1].length
    OBVIOUS
  <2>4. nbytes \in Nat
    BY <1>3
  <2>5. read_data(inode, inodes, pos, nbytes)
          = IF pos >= length THEN 0 ELSE IF pos + nbytes > length THEN length - pos ELSE nbytes
    BY <2>2, <2>3, <2>4, ReadCount
  <2>6. count = read_data(inode, inodes, pos, nbytes) /\ size = length
    BY <2>1, <2>3
  <2> QED
    BY <2>1, <2>2, <2>5, <2>6
<1>7. n = Min({next, size}) /\ n \in Nat
  <2> HIDE DEF old, next, count, size
  <2>1. delivered[Current][fd] + count = Min({old.file_pos + nbytes, size})
    <3>1. count = IF old.file_pos >= size THEN 0
                  ELSE IF old.file_pos + nbytes > size THEN size - old.file_pos ELSE nbytes
      BY <1>3, <1>6
    <3>2. /\ old.file_pos \in Nat /\ nbytes \in Nat /\ size \in Nat
          /\ delivered[Current][fd] = Min({old.file_pos, size})
      BY <1>2, <1>3
    <3>3. Min({old.file_pos, size}) + (IF old.file_pos >= size THEN 0
             ELSE IF old.file_pos + nbytes > size THEN size - old.file_pos ELSE nbytes)
             = Min({old.file_pos + nbytes, size})
      BY <3>2, CountAddsUp
    <3> QED
      BY <3>1, <3>2, <3>3, Zenon
  <2>2. Min({next, size}) \in Nat
    BY <1>3, LeastOfTwo
  <2> QED
    BY <1>3, <2>1, <2>2
<1>8. SoundAs(d, n)
  BY <1>3, <1>4, <1>7 DEF SoundAs
<1>9. file_descriptors' = [file_descriptors EXCEPT ![Current][fd] = d]
  BY <1>1
<1> HIDE DEF d, n
<1> QED
  BY <1>1, <1>5, <1>7, <1>8, <1>9, DescriptorStep

\* A new program, on top of the served session or as the shell of the next.
LEMMA StartKeeps ==
  ASSUME FilesInv, NEW new \in Pids, new \notin S!Live, NEW args \in AllArguments,
         Start(new, args), SessionInv',
         \A t \in Terminals : lister[t].at # "idle" => session'[t] = session[t]
  PROVE  /\ FilesInv'
         /\ \A fd \in Fds : ~file_descriptors'[new][fd].in_use
         /\ \A p \in Pids : p # new => file_descriptors'[p] = file_descriptors[p]
<1>1. /\ file_descriptors' = [file_descriptors EXCEPT ![new] = FreshTable(@)]
      /\ delivered' = [delivered EXCEPT ![new] = [fd \in Fds |-> 0]]
      /\ cur_args' = args
      /\ UNCHANGED <<dentry_counter, lister, round>>
  BY DEF Start
<1> DEFINE old == file_descriptors[new]
<1>2. old \in [Fds -> Descriptors]
  BY DEF FilesInv, TablesInv
<1>3. ASSUME NEW fd \in Fds
      PROVE  /\ FreshTable(old)[fd] = [in_use |-> FALSE, type |-> old[fd].type, inode |-> 0, file_pos |-> 0]
             /\ FreshTable(old)[fd] \in Descriptors
  <2>1. old[fd] \in Descriptors
    BY <1>2
  <2>2. FreshTable(old)[fd] = [old[fd] EXCEPT !.in_use = FALSE, !.inode = 0, !.file_pos = 0]
    BY DEF FreshTable
  <2>3. FreshTable(old)[fd] = [in_use |-> FALSE, type |-> old[fd].type, inode |-> 0, file_pos |-> 0]
    BY <2>1, <2>2, ChangedFields
  <2> QED
    <3>1. old[fd].type \in Types
      BY <2>1 DEF Descriptors
    <3>2. 0 \in 0 .. MaxPos
      BY BoundsAssumption
    <3> QED
      BY <2>3, <3>1, <3>2, DiskHasInode DEF Descriptors
<1>4. FreshTable(old) \in [Fds -> Descriptors]
  BY <1>3 DEF FreshTable
<1>5. /\ file_descriptors' \in [Pids -> [Fds -> Descriptors]]
      /\ file_descriptors'[new] = FreshTable(old)
      /\ \A p \in Pids : p # new => file_descriptors'[p] = file_descriptors[p]
  BY <1>1, <1>4 DEF FilesInv, TablesInv
<1>6. /\ delivered' \in [Pids -> [Fds -> Nat]]
      /\ \A p \in Pids : p # new => delivered'[p] = delivered[p]
  BY <1>1 DEF FilesInv, TablesInv
<1>7. ASSUME NEW p \in Pids, NEW fd \in Fds
      PROVE  SoundAs(file_descriptors'[p][fd], delivered'[p][fd])
  <2>1. CASE p = new
    <3>1. file_descriptors'[p][fd] = FreshTable(old)[fd]
      BY <1>5, <2>1
    <3>2. ~FreshTable(old)[fd].in_use /\ FreshTable(old)[fd].file_pos = 0
      <4>1. FreshTable(old)[fd] = [in_use |-> FALSE, type |-> old[fd].type, inode |-> 0, file_pos |-> 0]
        BY <1>3
      <4> HIDE DEF old
      <4> QED
        BY <4>1
    <3> QED
      BY <3>1, <3>2 DEF SoundAs
  <2>2. CASE p # new
    BY <1>5, <1>6, <2>2 DEF FilesInv, TablesInv
  <2> QED
    BY <2>1, <2>2
<1>8. TablesInv'
  BY <1>5, <1>6, <1>7 DEF TablesInv, SoundAs
<1>9. \A t \in Terminals : lister[t].at # "idle" => Last(session[t]) # new /\ Last(session[t]) \in Pids
  BY YoungestIsOwn DEF FilesInv, ListersInv, Holds
<1>10. TablesStep
  BY <1>1, <1>5, <1>8, <1>9 DEF TablesStep
<1>11. \A fd \in Fds : ~file_descriptors'[new][fd].in_use
  <2> SUFFICES ASSUME NEW fd \in Fds PROVE ~file_descriptors'[new][fd].in_use
    OBVIOUS
  <2>1. FreshTable(old)[fd] = [in_use |-> FALSE, type |-> old[fd].type, inode |-> 0, file_pos |-> 0]
    BY <1>3
  <2>2. file_descriptors'[new][fd] = FreshTable(old)[fd]
    BY <1>5
  <2> HIDE DEF old
  <2> QED
    BY <2>1, <2>2
<1> QED
  BY <1>5, <1>10, <1>11, TablesStepKeeps

LEMMA ExecuteKeeps ==
  ASSUME FilesInv, NEW new \in Pids, NEW args \in Arguments, Execute(new, args)
  PROVE  /\ FilesInv' /\ S!Live' \subseteq S!Live \cup {new} /\ new \notin S!Live
         /\ \A fd \in Fds : ~file_descriptors'[new][fd].in_use
         /\ \A p \in Pids : p # new => file_descriptors'[p] = file_descriptors[p]
<1>1. Calls /\ new \notin S!Live /\ S!Begin(new) /\ Start(new, args)
  BY DEF Execute
<1>2. SessionInv' /\ S!Live' \subseteq S!Live \cup {new}
      /\ \A t \in Terminals : t # served => session'[t] = session[t]
  BY <1>1, BeginKeeps DEF FilesInv
<1>3. lister[served].at = "idle"
  BY <1>1 DEF Calls
<1> QED
  BY <1>1, <1>2, <1>3, StartKeeps DEF AllArguments

LEMMA BootKeeps ==
  ASSUME FilesInv, NEW new \in Pids, BootShell(new)
  PROVE  /\ FilesInv' /\ S!Live' \subseteq S!Live \cup {new} /\ new \notin S!Live
         /\ \A fd \in Fds : ~file_descriptors'[new][fd].in_use
         /\ \A p \in Pids : p # new => file_descriptors'[p] = file_descriptors[p]
<1>1. new \notin S!Live /\ S!ServeNew(new) /\ Start(new, "")
  BY DEF BootShell
<1>2. /\ SessionInv' /\ session[served'] = <<>> /\ S!Live' \subseteq S!Live \cup {new}
      /\ \A t \in Terminals : t # served' => session'[t] = session[t]
  BY <1>1, ServeNewKeeps DEF FilesInv
<1>3. \A t \in Terminals : lister[t].at # "idle" => t # served'
  BY <1>2 DEF FilesInv, ListersInv, Holds
<1> QED
  BY <1>1, <1>2, <1>3, StartKeeps DEF AllArguments

LEMMA QuietKeeps ==
  ASSUME FilesInv, Tick \/ \E args \in Arguments : ExecuteFails(args)
  PROVE  FilesInv' /\ S!Live' = S!Live /\ UNCHANGED file_descriptors
<1>1. /\ UNCHANGED <<file_descriptors, dentry_counter, lister, delivered, round>>
      /\ cur_args' \in AllArguments
  BY DEF Tick, ExecuteFails, history, FilesInv, AllArguments
<1>2. SessionInv' /\ session' = session
  <2>1. CASE Tick
    BY <2>1, ServeKeeps DEF Tick, FilesInv
  <2>2. CASE \E args \in Arguments : ExecuteFails(args)
    <3>1. session' = session /\ served' = served /\ running' = running
      BY <2>2 DEF ExecuteFails, processes
    <3>2. SessionInv
      BY DEF FilesInv
    <3> QED
      BY <3>1, <3>2 DEF SessionInv, Apart
  <2> QED
    BY <2>1, <2>2
<1>3. TablesInv'
  <2>1. TablesInv
    BY DEF FilesInv
  <2> QED
    BY <1>1, <2>1 DEF TablesInv, SoundAs
<1>4. TablesStep
  BY <1>1, <1>2, <1>3 DEF TablesStep
<1>5. S!Live' = S!Live
  BY <1>2 DEF S!Live
<1> QED
  BY <1>1, <1>4, <1>5, TablesStepKeeps

LEMMA HaltKeeps ==
  ASSUME FilesInv, Halt
  PROVE  /\ FilesInv' /\ S!Live' \subseteq S!Live
         /\ \A p \in Pids, fd \in Fds :
              file_descriptors'[p][fd] = file_descriptors[p][fd] \/ p = Last(session'[served])
<1> DEFINE parent == Last(session'[served])
           old == file_descriptors[parent]
           new == [fd \in Fds |-> IF old[fd].in_use THEN Closed(old[fd]) ELSE old[fd]]
<1>1. /\ Calls /\ S!Leave
      /\ file_descriptors' = [file_descriptors EXCEPT ![parent] = new]
      /\ UNCHANGED <<cur_args, dentry_counter, lister, delivered, round>>
  BY DEF Halt, history
<1>2. /\ SessionInv' /\ S!Live' \subseteq S!Live /\ served' = served
      /\ parent \in {session[served][i] : i \in DOMAIN session[served]}
      /\ \A t \in Terminals : t # served => session'[t] = session[t]
  BY <1>1, LeaveKeeps DEF FilesInv
<1>3. parent \in Pids
  <2>1. session[served] \in Seq(Pids)
    BY DEF FilesInv, SessionInv
  <2> QED
    BY <1>2, <2>1
<1> HIDE DEF parent
<1>4. ASSUME NEW fd \in Fds
      PROVE  /\ new[fd] \in Descriptors
             /\ new[fd] = old[fd] \/ (~new[fd].in_use /\ new[fd].file_pos = 0)
  <2>1. old[fd] \in Descriptors
    BY <1>3 DEF FilesInv, TablesInv
  <2>2. Closed(old[fd]) = [in_use |-> FALSE, type |-> old[fd].type, inode |-> -1, file_pos |-> 0]
    BY <2>1, ChangedFields
  <2>3. Closed(old[fd]) \in Descriptors
    BY <2>1, <2>2, DiskAssumption, BoundsAssumption DEF Descriptors
  <2> QED
    BY <2>1, <2>2, <2>3
<1>5. new \in [Fds -> Descriptors]
  BY <1>4
<1> HIDE DEF new
<1>6. /\ file_descriptors' \in [Pids -> [Fds -> Descriptors]]
      /\ file_descriptors'[parent] = new
      /\ \A p \in Pids : p # parent => file_descriptors'[p] = file_descriptors[p]
  BY <1>1, <1>3, <1>5 DEF FilesInv, TablesInv
<1>7. ASSUME NEW p \in Pids, NEW fd \in Fds
      PROVE  SoundAs(file_descriptors'[p][fd], delivered[p][fd])
  <2>1. SoundAs(file_descriptors[p][fd], delivered[p][fd])
    BY DEF FilesInv, TablesInv
  <2>2. \/ file_descriptors'[p][fd] = file_descriptors[p][fd]
        \/ ~file_descriptors'[p][fd].in_use /\ file_descriptors'[p][fd].file_pos = 0
    BY <1>4, <1>6
  <2> QED
    BY <2>1, <2>2 DEF SoundAs
<1>8. TablesInv'
  BY <1>1, <1>6, <1>7 DEF FilesInv, TablesInv, SoundAs
<1>9. \A t \in Terminals : lister[t].at # "idle" =>
        t # served /\ Last(session[t]) # parent /\ Last(session[t]) \in Pids
  BY <1>1, <1>2, OthersList, YoungestIsOwn DEF FilesInv
<1>10. TablesStep
  BY <1>1, <1>2, <1>6, <1>8, <1>9 DEF TablesStep, FilesInv
<1>11. FilesInv'
  BY <1>10, TablesStepKeeps
<1> QED
  BY <1>2, <1>6, <1>11 DEF parent

-----------------------------------------------------------------------------
(***************************************************************************)
(* read_directory.                                                         *)
(***************************************************************************)

\* A step of the served terminal's listing to l.
LEMMA ListStep ==
  ASSUME FilesInv, NEW l \in Listers, lister' = [lister EXCEPT ![served] = l],
         l.at # "idle" => file_descriptors[Current][l.fd].type = DirectoryType,
         UNCHANGED <<processes, file_descriptors, cur_args, delivered>>, RoundInv'
  PROVE  FilesInv'
<1>1. session' = session /\ served' = served /\ running' = running
  BY DEF processes
<1>2. SessionInv /\ served \in Terminals /\ session[served] # <<>>
  BY DEF FilesInv, SessionInv
<1>3. SessionInv'
  BY <1>1, <1>2, SessionSame
<1>4. TablesInv'
  <2>1. TablesInv
    BY DEF FilesInv
  <2> QED
    BY <2>1 DEF TablesInv, SoundAs
<1>5. lister' \in [Terminals -> Listers]
  BY <1>2 DEF FilesInv, ListersInv
<1>6. ASSUME NEW t \in Terminals PROVE Holds(t)'
  <2>1. CASE t = served
    BY <1>1, <1>2, <2>1 DEF FilesInv, ListersInv, Holds, Current
  <2>2. CASE t # served
    BY <1>1, <2>2 DEF FilesInv, ListersInv, Holds
  <2> QED
    BY <2>1, <2>2
<1> QED
  BY <1>3, <1>4, <1>5, <1>6 DEF FilesInv, ListersInv

\* The terminals do not include the two marks of a round.
LEMMA Marks == NoReader \notin Terminals /\ SeveralReaders \notin Terminals /\ NoReader # SeveralReaders
  BY DEF NoReader, SeveralReaders

LEMMA DirectorySize == DirCount \in Nat /\ DOMAIN direntries = 1 .. DirCount /\ 1 \in DOMAIN direntries
  BY DiskAssumption DEF DirCount

\* The round after a step of the listing of t, which now is at l.
LEMMA SoleStep ==
  ASSUME ListersInv, NEW t \in Terminals, NEW l \in Listers, lister' = [lister EXCEPT ![t] = l],
         \A u \in Terminals : u # t => lister[u].at = "idle",
         dentry_counter' \in Nat, dentry_counter' <= DirCount,
         round'.entries = [i \in 1 .. dentry_counter' |-> i],
         NextEntryIs(l, dentry_counter')
  PROVE  Sole(t)'
<1>1. lister'[t] = l /\ \A u \in Terminals : u # t => lister'[u] = lister[u]
  BY DEF ListersInv
<1>2. NextEntryIs(lister'[t], dentry_counter')
  BY <1>1
<1> QED
  BY <1>1, <1>2 DEF Sole, NextEntryIs, DirCount

LEMMA RoundStep ==
  ASSUME dentry_counter' \in Nat,
         NEW r \in Terminals \cup {NoReader, SeveralReaders}, NEW e \in Seq(Nat),
         round' = [reader |-> r, entries |-> e],
         r = NoReader => dentry_counter' = 0 /\ e = <<>> /\ \A t \in Terminals : lister'[t].at = "idle",
         \A t \in Terminals : r = t => Sole(t)'
  PROVE  RoundInv'
<1>1. round'.reader = r /\ round'.entries = e
  OBVIOUS
<1>2. round' \in [reader : Terminals \cup {NoReader, SeveralReaders}, entries : Seq(Nat)]
  OBVIOUS
<1>3. r \in Terminals => Sole(round.reader)'
  BY <1>1 DEF Sole, NextEntryIs, DirCount
<1> QED
  BY <1>1, <1>2, <1>3 DEF RoundInv

LEMMA ListBeginKeeps == ASSUME FilesInv, NEW fd \in Fds, ListBegin(fd) PROVE FilesInv'
<1> DEFINE old == lister[served]
           l == [at |-> "fetch", fd |-> fd, entry |-> old.entry, loaded |-> old.loaded]
<1>1. /\ Calls /\ file_descriptors[Current][fd].type = DirectoryType
      /\ dentry_counter < DirCount
      /\ lister' = [lister EXCEPT ![served].at = "fetch", ![served].fd = fd]
      /\ round' = Joined
      /\ UNCHANGED <<processes, file_descriptors, cur_args, dentry_counter, delivered>>
  BY DEF ListBegin
<1>2. /\ served \in Terminals /\ old \in Listers /\ old.at = "idle"
      /\ lister \in [Terminals -> Listers]
  BY <1>1 DEF FilesInv, SessionInv, ListersInv, Calls
<1>3. l \in Listers
  BY <1>2 DEF Listers
<1>4. lister' = [lister EXCEPT ![served] = l]
  <2>1. ASSUME NEW y, y = [old EXCEPT !.at = "fetch", !.fd = fd] PROVE y = l
    BY <1>2, <2>1 DEF Listers
  <2>2. lister' = [lister EXCEPT ![served] = [old EXCEPT !.at = "fetch", !.fd = fd]]
    BY <1>1, <1>2
  <2> QED
    BY <2>1, <2>2
<1>5. /\ dentry_counter' = dentry_counter /\ dentry_counter \in Nat
      /\ round'.entries = round.entries /\ round.entries \in Seq(Nat)
      /\ round' = [reader |-> round'.reader, entries |-> round'.entries]
      /\ round'.reader = IF round.reader \in {NoReader, served} THEN served ELSE SeveralReaders
  BY <1>1 DEF Joined, FilesInv, RoundInv
<1>6. round' \in [reader : Terminals \cup {NoReader, SeveralReaders}, entries : Seq(Nat)]
  BY <1>2, <1>5
<1>7. ASSUME round.reader \in {NoReader, served}
      PROVE  /\ \A u \in Terminals : u # served => lister[u].at = "idle"
             /\ round.entries = [i \in 1 .. dentry_counter |-> i]
  <2>1. CASE round.reader = NoReader
    <3>1. /\ dentry_counter = 0 /\ round.entries = <<>>
          /\ \A t \in Terminals : lister[t].at = "idle"
      BY <2>1 DEF FilesInv, RoundInv
    <3> QED
      BY <3>1
  <2>2. CASE round.reader = served
    BY <1>2, <2>2 DEF FilesInv, RoundInv, Sole
  <2> QED
    BY <1>7, <2>1, <2>2
<1>8. RoundInv'
  <2> DEFINE r == round'.reader
             e == round'.entries
  <2>1. NextEntryIs(l, dentry_counter)
    BY <1>1 DEF NextEntryIs
  <2>2. /\ ListersInv /\ dentry_counter' \in Nat /\ dentry_counter' <= DirCount
        /\ NextEntryIs(l, dentry_counter')
    BY <1>1, <1>5, <2>1, DirectorySize DEF FilesInv
  <2>3. ASSUME r = served PROVE Sole(served)'
    <3>1. served' = served
      BY <1>1 DEF processes
    <3>2. round.reader \in {NoReader, served}
      BY <1>2, <1>5, <2>3, Marks
    <3>3. PICK t \in Terminals : t = served
      BY <1>2
    <3>4. /\ \A u \in Terminals : u # t => lister[u].at = "idle"
          /\ round'.entries = [i \in 1 .. dentry_counter' |-> i]
          /\ lister' = [lister EXCEPT ![t] = l]
      BY <1>4, <1>5, <1>7, <3>2, <3>3
    <3> HIDE DEF l
    <3>5. Sole(t)'
      BY <1>3, <2>2, <3>4, SoleStep
    <3> QED
      BY <3>1, <3>3, <3>5 DEF Sole, NextEntryIs, DirCount
  <2>4. \A t \in Terminals : r = t => Sole(t)'
    <3>1. served' = served
      BY <1>1 DEF processes
    <3>2. \A t \in Terminals : r = t => t = served
      BY <1>5, Marks
    <3> QED
      BY <2>3, <3>1, <3>2 DEF Sole, NextEntryIs, DirCount
  <2>5. /\ r \in Terminals \cup {NoReader, SeveralReaders} /\ e \in Seq(Nat) /\ r # NoReader
        /\ round' = [reader |-> r, entries |-> e]
    BY <1>2, <1>5, Marks
  <2> HIDE DEF r, e
  <2> QED
    BY <2>2, <2>4, <2>5, RoundStep
<1> HIDE DEF l
<1>9. l.fd = fd
  BY DEF l
<1> QED
  BY <1>1, <1>3, <1>4, <1>8, <1>9, ListStep

\* Whoever is inside read_directory has joined the round.
LEMMA ReaderInside ==
  ASSUME FilesInv, lister[served].at # "idle"
  PROVE  round.reader = SeveralReaders \/ (round.reader = served /\ Sole(served))
<1>1. served \in Terminals
  BY DEF FilesInv, SessionInv
<1>2. round.reader \in Terminals \cup {NoReader, SeveralReaders} /\ round.reader # NoReader
  BY <1>1 DEF FilesInv, RoundInv
<1>3. ASSUME round.reader \in Terminals PROVE round.reader = served /\ Sole(served)
  <2>1. Sole(round.reader)
    BY <1>3 DEF FilesInv, RoundInv
  <2>2. round.reader = served
    BY <1>1, <2>1 DEF Sole
  <2> QED
    BY <2>1, <2>2
<1> QED
  BY <1>2, <1>3

\* A step of the listing of the served terminal, which was inside.
LEMMA InsideStep ==
  ASSUME FilesInv, lister[served].at # "idle", served' = served,
         NEW l \in Listers, lister' = [lister EXCEPT ![served] = l],
         NEW e \in Seq(Nat), round' = [reader |-> round.reader, entries |-> e],
         dentry_counter' \in Nat,
         round.reader = served =>
           /\ dentry_counter' <= DirCount /\ e = [i \in 1 .. dentry_counter' |-> i]
           /\ NextEntryIs(l, dentry_counter')
  PROVE  RoundInv'
<1>1. served \in Terminals /\ ListersInv
  BY DEF FilesInv, SessionInv
<1>2. round.reader = SeveralReaders \/ (round.reader = served /\ Sole(served))
  BY ReaderInside
<1>3. ASSUME NEW t \in Terminals, round.reader = t PROVE Sole(t)'
  <2>1. t = served /\ Sole(served)
    BY <1>2, <1>3, Marks
  <2>2. /\ dentry_counter' <= DirCount /\ e = [i \in 1 .. dentry_counter' |-> i]
        /\ NextEntryIs(l, dentry_counter')
    BY <1>3, <2>1
  <2>3. /\ \A u \in Terminals : u # t => lister[u].at = "idle"
        /\ lister' = [lister EXCEPT ![t] = l]
        /\ round'.entries = [i \in 1 .. dentry_counter' |-> i]
    BY <2>1, <2>2 DEF Sole
  <2> QED
    BY <1>1, <2>2, <2>3, SoleStep
<1>4. round.reader \in Terminals \cup {NoReader, SeveralReaders} /\ round.reader # NoReader
  BY <1>1, <1>2, Marks
<1> DEFINE r == round.reader
<1>5. r \in Terminals \cup {NoReader, SeveralReaders} /\ r # NoReader
      /\ round' = [reader |-> r, entries |-> e] /\ \A t \in Terminals : r = t => Sole(t)'
  BY <1>3, <1>4
<1> HIDE DEF r
<1> QED
  BY <1>5, RoundStep

LEMMA ListFetchKeeps == ASSUME FilesInv, ListFetch PROVE FilesInv'
<1> DEFINE old == lister[served]
           found == read_dentry_by_index(dentry_counter, direntries)
           entry == IF found = Failure
                      THEN file_descriptors[Current][old.fd].file_pos + 1 ELSE found
           l == [at |-> "load", fd |-> old.fd, entry |-> entry, loaded |-> old.loaded]
<1>1. /\ old.at = "fetch"
      /\ lister' = [lister EXCEPT ![served].at = "load", ![served].entry = entry]
      /\ UNCHANGED <<processes, file_descriptors, cur_args, dentry_counter, delivered, round>>
  BY DEF ListFetch, Lists, history
<1>2. /\ served \in Terminals /\ session[served] # <<>> /\ SessionInv
      /\ old \in Listers /\ lister \in [Terminals -> Listers]
      /\ file_descriptors[Current][old.fd].type = DirectoryType
  BY <1>1 DEF FilesInv, SessionInv, ListersInv, Holds, Current
<1>3. dentry_counter \in Nat
  BY DEF FilesInv, RoundInv
<1>4. entry = (IF dentry_counter < DirCount THEN dentry_counter + 1 ELSE 1)
  <2>1. Current \in Pids /\ old.fd \in Fds
    BY <1>2, YoungestIsOwn DEF Current, Listers
  <2>2. file_descriptors[Current][old.fd].file_pos = 0
    <3>1. SoundAs(file_descriptors[Current][old.fd], delivered[Current][old.fd])
      BY <2>1 DEF FilesInv, TablesInv
    <3> QED
      BY <1>2, <3>1 DEF SoundAs, DirectoryType, RegularType
  <2>3. found = IF dentry_counter < DirCount THEN dentry_counter + 1 ELSE Failure
    BY DEF read_dentry_by_index, DirCount
  <2> QED
    BY <1>3, <2>2, <2>3, DirectorySize DEF Failure
<1>5. entry \in DOMAIN direntries
  BY <1>3, <1>4, DirectorySize
<1> HIDE DEF entry
<1>6. l \in Listers
  BY <1>2, <1>5 DEF Listers
<1>7. lister' = [lister EXCEPT ![served] = l]
  <2>1. ASSUME NEW y, y = [old EXCEPT !.at = "load", !.entry = entry] PROVE y = l
    BY <1>2, <2>1 DEF Listers
  <2>2. lister' = [lister EXCEPT ![served] = [old EXCEPT !.at = "load", !.entry = entry]]
    BY <1>1, <1>2
  <2> QED
    BY <2>1, <2>2
<1>8. RoundInv'
  <2> DEFINE e == round.entries
  <2>1. /\ e \in Seq(Nat) /\ round = [reader |-> round.reader, entries |-> e]
        /\ dentry_counter' = dentry_counter /\ round' = round
    BY <1>1 DEF FilesInv, RoundInv
  <2>2. served' = served
    BY <1>1 DEF processes
  <2>3. ASSUME round.reader = served
        PROVE  /\ dentry_counter <= DirCount /\ e = [i \in 1 .. dentry_counter |-> i]
               /\ NextEntryIs(l, dentry_counter)
    <3>1. Sole(served)
      BY <1>2, <2>3 DEF FilesInv, RoundInv
    <3>2. dentry_counter < DirCount
      BY <1>1, <3>1 DEF Sole, NextEntryIs
    <3> QED
      BY <1>4, <3>1, <3>2 DEF Sole, NextEntryIs
  <2>4. /\ round' = [reader |-> round.reader, entries |-> e] /\ dentry_counter' \in Nat
        /\ old.at # "idle"
    BY <1>1, <1>3, <2>1
  <2>5. round.reader = served =>
          /\ dentry_counter' <= DirCount /\ e = [i \in 1 .. dentry_counter' |-> i]
          /\ NextEntryIs(l, dentry_counter')
    BY <2>1, <2>3
  <2> HIDE DEF l, e
  <2> QED
    BY <1>6, <1>7, <2>1, <2>2, <2>4, <2>5, InsideStep
<1>9. l.fd = old.fd
  OBVIOUS
<1> HIDE DEF l
<1> QED
  BY <1>1, <1>2, <1>6, <1>7, <1>8, <1>9, ListStep

LEMMA ListLoadKeeps == ASSUME FilesInv, ListLoad PROVE FilesInv'
<1> DEFINE old == lister[served]
           l == [at |-> "store", fd |-> old.fd, entry |-> old.entry, loaded |-> dentry_counter]
<1>1. /\ old.at = "load"
      /\ lister' = [lister EXCEPT ![served].at = "store", ![served].loaded = dentry_counter]
      /\ UNCHANGED <<processes, file_descriptors, cur_args, dentry_counter, delivered, round>>
  BY DEF ListLoad, Lists, history
<1>2. /\ served \in Terminals /\ session[served] # <<>> /\ SessionInv
      /\ old \in Listers /\ lister \in [Terminals -> Listers]
      /\ file_descriptors[Current][old.fd].type = DirectoryType
  BY <1>1 DEF FilesInv, SessionInv, ListersInv, Holds, Current
<1>3. dentry_counter \in Nat
  BY DEF FilesInv, RoundInv
<1>4. l \in Listers
  BY <1>2, <1>3 DEF Listers
<1>5. lister' = [lister EXCEPT ![served] = l]
  <2>1. ASSUME NEW y, y = [old EXCEPT !.at = "store", !.loaded = dentry_counter] PROVE y = l
    BY <1>2, <2>1 DEF Listers
  <2>2. lister' = [lister EXCEPT ![served] = [old EXCEPT !.at = "store", !.loaded = dentry_counter]]
    BY <1>1, <1>2
  <2> QED
    BY <2>1, <2>2
<1>6. RoundInv'
  <2> DEFINE e == round.entries
  <2>1. /\ e \in Seq(Nat) /\ round = [reader |-> round.reader, entries |-> e]
        /\ dentry_counter' = dentry_counter /\ round' = round
    BY <1>1 DEF FilesInv, RoundInv
  <2>2. served' = served
    BY <1>1 DEF processes
  <2>3. ASSUME round.reader = served
        PROVE  /\ dentry_counter <= DirCount /\ e = [i \in 1 .. dentry_counter |-> i]
               /\ NextEntryIs(l, dentry_counter)
    <3>1. Sole(served)
      BY <1>2, <2>3 DEF FilesInv, RoundInv
    <3>2. dentry_counter < DirCount /\ old.entry = dentry_counter + 1
      BY <1>1, <3>1 DEF Sole, NextEntryIs
    <3> QED
      BY <3>1, <3>2 DEF Sole, NextEntryIs
  <2>4. /\ round' = [reader |-> round.reader, entries |-> e] /\ dentry_counter' \in Nat
        /\ old.at # "idle"
    BY <1>1, <1>3, <2>1
  <2>5. round.reader = served =>
          /\ dentry_counter' <= DirCount /\ e = [i \in 1 .. dentry_counter' |-> i]
          /\ NextEntryIs(l, dentry_counter')
    BY <2>1, <2>3
  <2> HIDE DEF l, e
  <2> QED
    BY <1>4, <1>5, <2>1, <2>2, <2>4, <2>5, InsideStep
<1>7. l.fd = old.fd
  OBVIOUS
<1> HIDE DEF l
<1> QED
  BY <1>1, <1>2, <1>4, <1>5, <1>6, <1>7, ListStep

LEMMA IdleIsLister == Idle \in Listers
  BY DirectorySize, DescriptorsAssumption DEF Idle, Listers, Fds

LEMMA ListStoreKeeps == ASSUME FilesInv, ListStore PROVE FilesInv' /\ dentry_counter' # 0
<1> DEFINE old == lister[served]
           e == IF round.reader = served THEN Append(round.entries, old.entry) ELSE <<>>
<1>1. /\ old.at = "store" /\ dentry_counter' = old.loaded + 1
      /\ lister' = [lister EXCEPT ![served] = Idle]
      /\ round' = [round EXCEPT !.entries = e]
      /\ UNCHANGED <<processes, file_descriptors, cur_args, delivered>>
  <2>1. round' = [round EXCEPT !.entries =
                    IF round.reader = served THEN Append(@, old.entry) ELSE <<>>]
    BY DEF ListStore
  <2> QED
    BY <2>1 DEF ListStore, Lists, Incremented
<1>2. /\ served \in Terminals /\ old \in Listers /\ served' = served
      /\ round.entries \in Seq(Nat) /\ round = [reader |-> round.reader, entries |-> round.entries]
  BY <1>1 DEF FilesInv, SessionInv, ListersInv, RoundInv, processes
<1>3. old.loaded \in Nat /\ old.entry \in Nat
  BY <1>2, DirectorySize DEF Listers
<1>4. e \in Seq(Nat)
  BY <1>2, <1>3
<1>5. round' = [reader |-> round.reader, entries |-> e]
  BY <1>1, <1>2
<1>6. ASSUME round.reader = served
      PROVE  /\ dentry_counter' <= DirCount /\ e = [i \in 1 .. dentry_counter' |-> i]
             /\ NextEntryIs(Idle, dentry_counter')
  <2>1. Sole(served)
    BY <1>2, <1>6 DEF FilesInv, RoundInv
  <2>2. /\ dentry_counter \in Nat /\ dentry_counter < DirCount /\ old.entry = dentry_counter + 1
        /\ old.loaded = dentry_counter /\ round.entries = [i \in 1 .. dentry_counter |-> i]
    BY <1>1, <2>1 DEF Sole, NextEntryIs, FilesInv, RoundInv
  <2>3. Append(round.entries, old.entry) = [i \in 1 .. dentry_counter + 1 |-> i]
    BY <2>2
  <2>4. NextEntryIs(Idle, dentry_counter')
    BY DEF NextEntryIs, Idle
  <2> QED
    BY <1>1, <1>6, <2>2, <2>3, <2>4, DirectorySize
<1> HIDE DEF e
<1>7. dentry_counter' \in Nat /\ dentry_counter' # 0 /\ old.at # "idle"
  BY <1>1, <1>3
<1>8. RoundInv'
  BY <1>1, <1>2, <1>4, <1>5, <1>6, <1>7, IdleIsLister, InsideStep
<1>9. FilesInv'
  <2> DEFINE l == Idle
  <2>1. l.at = "idle" /\ l \in Listers /\ lister' = [lister EXCEPT ![served] = l]
    BY <1>1, IdleIsLister DEF Idle
  <2> HIDE DEF l
  <2> QED
    BY <1>1, <1>8, <2>1, ListStep
<1> QED
  BY <1>7, <1>9

LEMMA ListEndKeeps ==
  ASSUME FilesInv, NEW fd \in Fds, ListEnd(fd)
  PROVE  /\ FilesInv'
         /\ round.reader = served => round.entries = [i \in 1 .. DirCount |-> i]
<1> DEFINE r == IF \A t \in Terminals : lister[t].at = "idle" THEN NoReader ELSE SeveralReaders
<1>1. /\ dentry_counter >= DirCount /\ dentry_counter' = 0 /\ Calls
      /\ round' = [reader |-> r, entries |-> <<>>]
      /\ UNCHANGED <<processes, file_descriptors, cur_args, lister, delivered>>
  BY DEF ListEnd
<1>2. /\ served \in Terminals /\ lister[served] \in Listers /\ lister[served].at = "idle"
      /\ lister' = [lister EXCEPT ![served] = lister[served]]
  BY <1>1 DEF FilesInv, SessionInv, ListersInv, Calls
<1>3. /\ r \in {NoReader, SeveralReaders} /\ <<>> \in Seq(Nat)
      /\ r = NoReader => \A t \in Terminals : lister'[t].at = "idle"
  BY <1>1, Marks
<1> HIDE DEF r
<1>4. RoundInv'
  BY <1>1, <1>3, Marks, RoundStep
<1>5. FilesInv'
  BY <1>1, <1>2, <1>4, ListStep
<1>6. ASSUME round.reader = served PROVE round.entries = [i \in 1 .. DirCount |-> i]
  <2>1. Sole(served)
    BY <1>2, <1>6 DEF FilesInv, RoundInv
  <2>2. dentry_counter = DirCount
    BY <1>1, <2>1, DirectorySize DEF Sole, FilesInv, RoundInv
  <2> QED
    BY <2>1, <2>2 DEF Sole
<1> QED
  BY <1>5, <1>6

-----------------------------------------------------------------------------
(***************************************************************************)
(* All steps.                                                              *)
(***************************************************************************)
StartFresh == \A p \in S!Live' \ S!Live, fd \in Fds : ~file_descriptors'[p][fd].in_use

Kept(old, new) ==
  old.in_use =>
    new.in_use /\ new.inode = old.inode /\ new.type = old.type /\ new.file_pos >= old.file_pos

\* Kept, or closed by its own program or by a child of it that halts.
KeptOrClosed(p, fd) ==
  \/ Kept(file_descriptors[p][fd], file_descriptors'[p][fd])
  \/ p = Current /\ Close(fd)
  \/ Halt /\ p = Last(session'[served])

FilesKept == \A p \in S!Live \cap S!Live', fd \in Fds : KeptOrClosed(p, fd)

ListingWhole ==
  dentry_counter' = 0 /\ dentry_counter # 0 /\ round.reader = served =>
    round.entries = [i \in 1 .. DirCount |-> i]

StepIsGood == FilesInv' /\ StartFresh /\ FilesKept /\ ListingWhole

LEMMA LiveArePids == ASSUME FilesInv PROVE S!Live \subseteq Pids
<1>1. \A t \in Terminals : session[t] \in Seq(Pids)
  BY DEF FilesInv, SessionInv
<1> QED
  BY <1>1 DEF S!Live, S!Terminals, S!ToSet

LEMMA SameIsKept ==
  ASSUME FilesInv, NEW p \in Pids, NEW fd \in Fds, file_descriptors'[p][fd] = file_descriptors[p][fd]
  PROVE  Kept(file_descriptors[p][fd], file_descriptors'[p][fd])
<1>1. file_descriptors[p][fd] \in Descriptors
  BY DEF FilesInv, TablesInv
<1>2. file_descriptors[p][fd].file_pos \in Int
  BY <1>1, BoundsAssumption DEF Descriptors
<1> QED
  BY <1>2 DEF Kept

\* A step in which the programs stay the same.
LEMMA SameProgramsGood ==
  ASSUME FilesInv, FilesInv', session' = session, ListingWhole,
         \A p \in Pids, fd \in Fds : KeptOrClosed(p, fd)
  PROVE  StepIsGood
<1>1. S!Live' = S!Live
  BY DEF S!Live
<1> QED
  BY <1>1, LiveArePids DEF StepIsGood, StartFresh, FilesKept

\* A call of the served program that changes at most one of its descriptors.
LEMMA OneDescriptorGood ==
  ASSUME FilesInv, FilesInv', Calls, UNCHANGED <<processes, dentry_counter>>, NEW fd \in Fds, NEW d,
         file_descriptors' = [file_descriptors EXCEPT ![Current][fd] = d],
         Kept(file_descriptors[Current][fd], d) \/ Close(fd)
  PROVE  StepIsGood
<1>1. session' = session /\ ListingWhole
  BY DEF processes, ListingWhole
<1>2. Current \in Pids
  BY OthersList
<1>3. ASSUME NEW p \in Pids, NEW f \in Fds
      PROVE  KeptOrClosed(p, f)
  <2>1. CASE p = Current /\ f = fd
    <3>1. file_descriptors'[Current][fd] = d
      BY <1>2 DEF FilesInv, TablesInv
    <3> QED
      BY <2>1, <3>1 DEF KeptOrClosed
  <2>2. CASE ~(p = Current /\ f = fd)
    <3>1. file_descriptors'[p][f] = file_descriptors[p][f]
      BY <1>2, <2>2 DEF FilesInv, TablesInv
    <3> QED
      BY <3>1, SameIsKept DEF KeptOrClosed
  <2> QED
    BY <2>1, <2>2
<1> QED
  BY <1>1, <1>3, SameProgramsGood

\* A program begins.
LEMMA BeginGood ==
  ASSUME FilesInv, FilesInv', UNCHANGED dentry_counter, NEW new \in Pids, new \notin S!Live,
         S!Live' \subseteq S!Live \cup {new},
         \A fd \in Fds : ~file_descriptors'[new][fd].in_use,
         \A p \in Pids : p # new => file_descriptors'[p] = file_descriptors[p]
  PROVE  StepIsGood
<1>1. StartFresh
  BY DEF StartFresh
<1>2. FilesKept
  <2> SUFFICES ASSUME NEW p \in S!Live \cap S!Live', NEW fd \in Fds
               PROVE  KeptOrClosed(p, fd)
    BY DEF FilesKept
  <2>1. p \in Pids /\ file_descriptors'[p][fd] = file_descriptors[p][fd]
    BY LiveArePids
  <2> QED
    BY <2>1, SameIsKept DEF KeptOrClosed
<1> QED
  BY <1>1, <1>2 DEF StepIsGood, ListingWhole

LEMMA StepGood == ASSUME FilesInv, [Next]_vars PROVE StepIsGood
<1>1. ASSUME NEW new \in Pids, NEW args \in Arguments, Execute(new, args) PROVE StepIsGood
  <2>1. UNCHANGED dentry_counter
    BY <1>1 DEF Execute, Start
  <2> QED
    BY <1>1, <2>1, ExecuteKeeps, BeginGood
<1>2. ASSUME NEW new \in Pids, BootShell(new) PROVE StepIsGood
  <2>1. UNCHANGED dentry_counter
    BY <1>2 DEF BootShell, Start
  <2> QED
    BY <1>2, <2>1, BootKeeps, BeginGood
<1>3. ASSUME Tick \/ \E args \in Arguments : ExecuteFails(args) PROVE StepIsGood
  <2>1. FilesInv' /\ S!Live' = S!Live /\ UNCHANGED <<file_descriptors, dentry_counter>>
    BY <1>3, QuietKeeps DEF Tick, ExecuteFails
  <2>2. \A p \in Pids, fd \in Fds : KeptOrClosed(p, fd)
    BY <2>1, SameIsKept DEF KeptOrClosed
  <2> QED
    BY <2>1, <2>2, LiveArePids DEF StepIsGood, StartFresh, FilesKept, ListingWhole
<1>4. ASSUME Halt PROVE StepIsGood
  <2>1. /\ FilesInv' /\ S!Live' \subseteq S!Live /\ dentry_counter' = dentry_counter
        /\ \A p \in Pids, fd \in Fds :
             file_descriptors'[p][fd] = file_descriptors[p][fd] \/ p = Last(session'[served])
    BY <1>4, HaltKeeps DEF Halt
  <2>2. ASSUME NEW p \in Pids, NEW fd \in Fds
        PROVE  KeptOrClosed(p, fd)
    <3>1. CASE file_descriptors'[p][fd] = file_descriptors[p][fd]
      BY <3>1, SameIsKept DEF KeptOrClosed
    <3>2. CASE p = Last(session'[served])
      BY <1>4, <3>2 DEF KeptOrClosed
    <3> QED
      BY <2>1, <3>1, <3>2
  <2> QED
    BY <2>1, <2>2, LiveArePids DEF StepIsGood, StartFresh, FilesKept, ListingWhole
<1>5. ASSUME NEW name \in Names, Open(name) PROVE StepIsGood
  <2> DEFINE fd == Min(FreeFds(Current))
             found == read_dentry_by_name(name, direntries)
             d == [in_use |-> TRUE, type |-> direntries[found].filetype,
                   inode |-> direntries[found].inode_num, file_pos |-> 0]
  <2>1. /\ Calls /\ FreeFds(Current) # {} /\ UNCHANGED <<processes, dentry_counter>>
        /\ file_descriptors' = [file_descriptors EXCEPT ![Current][fd] = d]
    BY <1>5 DEF Open
  <2>2. fd \in Fds /\ ~file_descriptors[Current][fd].in_use
    BY <2>1, OpenFd
  <2>3. Kept(file_descriptors[Current][fd], d)
    BY <2>2 DEF Kept
  <2>4. FilesInv'
    BY <1>5, OpenKeeps
  <2> HIDE DEF fd, d
  <2> QED
    BY <2>1, <2>2, <2>3, <2>4, OneDescriptorGood
<1>6. ASSUME NEW fd \in Fds, Close(fd) PROVE StepIsGood
  <2> DEFINE d == Closed(file_descriptors[Current][fd])
  <2>1. /\ Calls /\ UNCHANGED <<processes, dentry_counter>>
        /\ file_descriptors' = [file_descriptors EXCEPT ![Current][fd] = d]
    BY <1>6 DEF Close
  <2>2. FilesInv'
    BY <1>6, CloseKeeps
  <2> HIDE DEF d
  <2> QED
    BY <1>6, <2>1, <2>2, OneDescriptorGood
<1>7. ASSUME NEW fd \in Fds, NEW nbytes \in Requests, ReadFile(fd, nbytes) PROVE StepIsGood
  <2> DEFINE old == file_descriptors[Current][fd]
             next == NewPos(old.file_pos, nbytes)
             d == [old EXCEPT !.file_pos = next]
  <2>1. /\ Calls /\ UNCHANGED <<processes, dentry_counter>>
        /\ file_descriptors' = [file_descriptors EXCEPT ![Current][fd].file_pos = next]
    BY <1>7 DEF ReadFile
  <2>2. file_descriptors' = [file_descriptors EXCEPT ![Current][fd] = d]
    BY <2>1
  <2>3. Kept(old, d)
    <3>1. old \in Descriptors
      BY <2>1, CurrentDescriptor
    <3>2. d = [in_use |-> old.in_use, type |-> old.type, inode |-> old.inode, file_pos |-> next]
      BY <3>1, ChangedFields
    <3>3. old.file_pos \in Nat /\ nbytes \in Nat
      BY <3>1, BoundsAssumption DEF Descriptors
    <3>4. next >= old.file_pos
      BY <3>3 DEF NewPos
    <3> HIDE DEF old, next, d
    <3> QED
      BY <3>2, <3>4 DEF Kept
  <2>4. FilesInv'
    BY <1>7, ReadKeeps
  <2> HIDE DEF d
  <2> QED
    BY <2>1, <2>2, <2>3, <2>4, OneDescriptorGood
<1>8. ASSUME ListFetch \/ ListLoad \/ ListStore \/ \E fd \in Fds : ListBegin(fd) \/ ListEnd(fd)
      PROVE  StepIsGood
  <2>1. session' = session /\ file_descriptors' = file_descriptors
    BY <1>8 DEF ListFetch, ListLoad, ListStore, ListBegin, ListEnd, processes
  <2>2. FilesInv'
    BY <1>8, ListFetchKeeps, ListLoadKeeps, ListStoreKeeps, ListBeginKeeps, ListEndKeeps
  <2>3. ListingWhole
    <3>1. CASE ListStore
      BY <3>1, ListStoreKeeps DEF ListingWhole
    <3>2. CASE \E fd \in Fds : ListEnd(fd)
      BY <3>2, ListEndKeeps DEF ListingWhole
    <3>3. CASE ListFetch \/ ListLoad \/ \E fd \in Fds : ListBegin(fd)
      BY <3>3 DEF ListingWhole, ListFetch, ListLoad, ListBegin
    <3> QED
      BY <1>8, <3>1, <3>2, <3>3
  <2>4. \A p \in Pids, fd \in Fds : KeptOrClosed(p, fd)
    BY <2>1, SameIsKept DEF KeptOrClosed
  <2> QED
    BY <2>1, <2>2, <2>3, <2>4, SameProgramsGood
<1>9. ASSUME UNCHANGED vars PROVE StepIsGood
  <2>1. /\ session' = session /\ served' = served /\ running' = running
        /\ UNCHANGED <<file_descriptors, cur_args, dentry_counter, lister, delivered, round>>
    BY <1>9 DEF vars, processes, history
  <2>2. FilesInv'
    <3>1. SessionInv /\ TablesInv /\ cur_args \in AllArguments
      BY DEF FilesInv
    <3>2. SessionInv'
      BY <2>1, <3>1 DEF SessionInv, Apart
    <3>3. TablesInv'
      BY <2>1, <3>1 DEF TablesInv, SoundAs
    <3>4. TablesStep
      BY <2>1, <3>1, <3>2, <3>3 DEF TablesStep
    <3> QED
      BY <3>4, TablesStepKeeps
  <2>3. \A p \in Pids, fd \in Fds : KeptOrClosed(p, fd)
    BY <2>1, SameIsKept DEF KeptOrClosed
  <2>4. ListingWhole
    BY <2>1 DEF ListingWhole
  <2> QED
    BY <2>1, <2>2, <2>3, <2>4, SameProgramsGood
<1> QED
  BY <1>1, <1>2, <1>3, <1>4, <1>5, <1>6, <1>7, <1>8, <1>9 DEF Next, SystemCall

LEMMA FilesInit == ASSUME Init PROVE FilesInv
<1>1. SessionInv
  BY SessionInit
<1>2. Unused \in Descriptors /\ SoundAs(Unused, 0)
  BY DiskHasInode, BoundsAssumption DEF Unused, Descriptors, Types, SoundAs
<1>3. TablesInv
  <2>1. /\ file_descriptors = [p \in Pids |-> [fd \in Fds |-> Unused]]
        /\ delivered = [p \in Pids |-> [fd \in Fds |-> 0]]
    BY DEF Init
  <2> QED
    BY <1>2, <2>1 DEF TablesInv
<1>4. /\ lister = [t \in Terminals |-> Idle] /\ dentry_counter = 0
      /\ round = [reader |-> NoReader, entries |-> <<>>] /\ cur_args \in AllArguments
  BY DEF Init, AllArguments
<1>5. ListersInv /\ \A t \in Terminals : lister[t].at = "idle"
  BY <1>4, IdleIsLister DEF ListersInv, Holds, Idle
<1>6. RoundInv
  BY <1>4, <1>5, Marks DEF RoundInv
<1> QED
  BY <1>1, <1>3, <1>4, <1>5, <1>6 DEF FilesInv

LEMMA FilesInvariant == Spec => []FilesInv
<1>1. FilesInv /\ [Next]_vars => FilesInv'
  BY StepGood DEF StepIsGood
<1> QED
  BY <1>1, FilesInit, PTL DEF Spec

(***************************************************************************)
(* Descriptors, positions, inodes and the progress of listings keep their  *)
(* types, in every order of calls and ticks, races on the directory        *)
(* counter included (syscalls.c, file_sys.c).                              *)
(***************************************************************************)
THEOREM FilesTypes == Spec => []TypeOK
<1>1. FilesInv => TypeOK
  BY DEF FilesInv, SessionInv, TablesInv, ListersInv, RoundInv, TypeOK, Descriptors, Types, Listers,
         AllArguments
<1> QED
  BY <1>1, FilesInvariant, PTL

(***************************************************************************)
(* No program finds a file open that it has not opened, though it gets the *)
(* PCB of an earlier one whose files halt left open (system_execute).      *)
(***************************************************************************)
THEOREM NewProgramsHaveNoFiles == Spec => StartsWithoutFiles
<1>1. FilesInv /\ [Next]_vars =>
        [\A p \in S!Live' \ S!Live, fd \in Fds : ~file_descriptors'[p][fd].in_use]_vars
  BY StepGood DEF StepIsGood, StartFresh
<1> QED
  BY <1>1, FilesInvariant, PTL DEF Spec, StartsWithoutFiles

(***************************************************************************)
(* For any disk and any number of programs and descriptors: an open        *)
(* descriptor stays on its file and does not move back until its own       *)
(* program closes it, or system_halt of a child does (system_open,         *)
(* system_close, read_file, system_halt).                                  *)
(***************************************************************************)
THEOREM FilesStayOpen == Spec => OpenFilesKept
<1>1. FilesInv /\ [Next]_vars =>
        [\A p \in S!Live \cap S!Live', fd \in Fds :
           LET old == file_descriptors[p][fd]
               new == file_descriptors'[p][fd]
           IN old.in_use =>
                \/ /\ new.in_use /\ new.inode = old.inode /\ new.type = old.type
                   /\ new.file_pos >= old.file_pos
                \/ p = Current /\ Close(fd)
                \/ Halt /\ p = Last(session'[served])]_vars
  BY StepGood DEF StepIsGood, FilesKept, KeptOrClosed, Kept
<1> QED
  BY <1>1, FilesInvariant, PTL DEF Spec, OpenFilesKept

(***************************************************************************)
(* What a descriptor has delivered is the file up to its position, for any *)
(* sizes of files, blocks and requests (read_file, read_data).             *)
(***************************************************************************)
THEOREM FilesReadInOrder == Spec => []ReadsAreContiguous
<1>1. FilesInv => ReadsAreContiguous
  <2> SUFFICES ASSUME FilesInv, NEW p \in S!Live, NEW fd \in Fds
               PROVE  LET descriptor == file_descriptors[p][fd] IN
                        descriptor.in_use /\ descriptor.type = RegularType =>
                          delivered[p][fd] =
                            Min({descriptor.file_pos, inodes[descriptor.inode + 1].length})
    BY DEF ReadsAreContiguous
  <2>1. SoundAs(file_descriptors[p][fd], delivered[p][fd])
    BY LiveArePids DEF FilesInv, TablesInv
  <2> QED
    BY <2>1 DEF SoundAs
<1> QED
  BY <1>1, FilesInvariant, PTL

(***************************************************************************)
(* A listing that nobody else joins gives every entry of a directory of    *)
(* any size, once and in order (read_directory).                           *)
(***************************************************************************)
THEOREM LoneListings == Spec => LoneListingComplete
<1>1. FilesInv /\ [Next]_vars =>
        [dentry_counter' = 0 /\ dentry_counter # 0 /\ round.reader = served =>
           round.entries = [i \in 1 .. DirCount |-> i]]_vars
  BY StepGood DEF StepIsGood, ListingWhole
<1> QED
  BY <1>1, FilesInvariant, PTL DEF Spec, LoneListingComplete
=============================================================================
