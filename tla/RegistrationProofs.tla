------------------------- MODULE RegistrationProofs -------------------------
(***************************************************************************)
(* Proofs about Registration, for any number of processes and accounts.    *)
(*                                                                         *)
(* What a good file promises is about the account; what may have become of *)
(* the file while a command was talking to the API is about the commands.  *)
(* The invariant that joins them says that without two commands at once    *)
(* (SerialInv) a command that registers still finds the file it looked at, *)
(* and a command that deletes still finds the account it read.             *)
(***************************************************************************)
EXTENDS Registration, TLAPS

Kinds == {"api", "disk", "kill", "overlap"}

(* Who has an account in memory, and which. *)
IdInv ==
  \A p \in Procs :
    /\ proc[p].pc \in {"idle", "regLoad", "post", "delRead", "load"} => proc[p].id = None
    /\ proc[p].pc \in {"patch", "build", "truncate", "write"} => proc[p].id \in made

(* What is saved has been enrolled, what is about to be saved too. *)
EnrolInv ==
  /\ SavedIsEnrolled
  /\ \A p \in Procs : proc[p].pc \in {"build", "truncate", "write"} => proc[p].id \in enrolled

(* One command at a time: what it has read of reg.json still holds. *)
SerialInv ==
  "overlap" \notin faults =>
    /\ \A p, q \in Procs : Administers(p) /\ Administers(q) => p = q
    /\ \A p \in Procs :
         /\ proc[p].pc \in {"post", "patch", "build", "truncate"} => file = Absent
         /\ proc[p].pc = "write" => proc[p].linked /\ file = Torn
         /\ proc[p].pc \in {"delCall", "remove"} => file.id = proc[p].id

(* Nothing has gone wrong: nothing is stranded, and a file is removed only  *)
(* when its account is gone.                                                *)
StrandInv ==
  faults = {} =>
    /\ \A a \in live : Reachable(a)
    /\ \A p \in Procs : At(p, "remove") => proc[p].id \notin live

Inv == TypeOK /\ IdInv /\ EnrolInv /\ SerialInv /\ StrandInv

-----------------------------------------------------------------------------
(* The process that moves, and what the others keep.                        *)

Labels == {"idle", "regLoad", "post", "patch", "build", "truncate", "write",
           "delRead", "delCall", "remove", "load", "serve"}

(* p goes to label c with account i; the others may lose their link. *)
Moves(p, c, i) ==
  /\ proc' \in [Procs -> Proc]
  /\ proc'[p].pc = c /\ proc'[p].id = i
  /\ \A q \in Procs \ {p} : proc'[q].pc = proc[q].pc /\ proc'[q].id = proc[q].id

Links(p) == \A q \in Procs \ {p} : proc'[q].linked = proc[q].linked

(* What a change of label does. *)
LEMMA GotoMoves ==
  ASSUME TypeOK, NEW p \in Procs, NEW c \in Labels, Goto(p, c)
  PROVE  Moves(p, c, proc[p].id) /\ Links(p) /\ proc'[p].linked = proc[p].linked
<1>1. proc[p] \in Proc BY DEF TypeOK
<1>2. [proc[p] EXCEPT !.pc = c] \in Proc BY <1>1 DEF Proc, Labels
<1>3. proc' = [proc EXCEPT ![p] = [proc[p] EXCEPT !.pc = c]] BY DEF Goto
<1>4. proc'[p] = [proc[p] EXCEPT !.pc = c] /\ \A q \in Procs \ {p} : proc'[q] = proc[q]
  BY <1>3 DEF TypeOK
<1>5. proc' \in [Procs -> Proc] BY <1>2, <1>3 DEF TypeOK
<1> QED BY <1>1, <1>4, <1>5 DEF Moves, Links, Proc

(* What a new record for p does. *)
LEMMA BecomeMoves ==
  ASSUME TypeOK, NEW p \in Procs, NEW r \in Proc, Become(p, r)
  PROVE  Moves(p, r.pc, r.id) /\ Links(p) /\ proc'[p].linked = r.linked
BY DEF TypeOK, Become, Moves, Links

(* A process that runs nothing holds no account. *)
LEMMA IdleType == Idle \in Proc /\ Idle.pc = "idle" /\ Idle.id = None
BY DEF Idle, Proc

(* What the end of a command does. *)
LEMMA ExitMoves ==
  ASSUME TypeOK, NEW p \in Procs, Exit(p)
  PROVE  Moves(p, "idle", None) /\ Links(p)
BY IdleType, BecomeMoves DEF Exit

(* What taking an account into memory does. *)
LEMMA HoldMoves ==
  ASSUME TypeOK, NEW p \in Procs, NEW c \in Labels, NEW a \in Accounts \cup {None},
         Become(p, [Idle EXCEPT !.pc = c, !.id = a])
  PROVE  Moves(p, c, a) /\ Links(p)
<1> DEFINE r == [Idle EXCEPT !.pc = c, !.id = a]
<1>1. r \in Proc /\ r.pc = c /\ r.id = a BY IdleType DEF Proc, Labels
<1> QED BY <1>1, BecomeMoves

(* The forms of reg.json. *)
LEMMA FileType ==
  ASSUME TypeOK
  PROVE  /\ Absent \in File /\ Torn \in File /\ \A a \in Accounts : Good(a) \in File
         /\ Absent.id = None /\ Torn.id = None /\ Absent.st = "absent" /\ Torn.st = "torn"
         /\ \A a \in Accounts : Good(a).id = a /\ Good(a).st = "good"
         /\ file.id \in Accounts \cup {None}
         /\ file.st \in {"absent", "torn", "odd", "good"}
         /\ file.st = "absent" => file = Absent
         /\ file.st \in {"odd", "good"} => file.id \in Accounts
BY DEF TypeOK, File, Absent, Torn, Good

-----------------------------------------------------------------------------
(* Steps that leave reg.json alone.                                         *)

Early       == {"idle", "regLoad", "post", "delRead", "load"}
Registering == {"patch", "build", "truncate"}
Administrative == Labels \ {"idle", "load", "serve"}

(* p arrives at c with account i: what the step has to see to. *)
Arrives(p, c, i) ==
  /\ Moves(p, c, i) /\ Links(p) /\ c \in Labels \ {"write", "remove"}
  /\ c \in Early => i = None
  /\ c \in Registering => i \in made'
  /\ c \in {"build", "truncate", "serve"} => i \in enrolled'

(* What the API knows only grows, and so does what has gone wrong. *)
Grows ==
  /\ live \subseteq live' /\ live' \subseteq made'
  /\ made \subseteq made' /\ made' \subseteq Accounts
  /\ enrolled \subseteq enrolled' /\ enrolled' \subseteq made'
  /\ faults \subseteq faults' /\ faults' \subseteq Kinds

(* A step that leaves reg.json alone and sees to these things keeps the invariant. *)
LEMMA MoveInv ==
  ASSUME Inv, NEW p \in Procs, NEW c, NEW i, Arrives(p, c, i), Grows, file' = file,
         "overlap" \notin faults' =>
           /\ c \in Administrative => \A q \in Procs \ {p} : ~Administers(q)
           /\ c \in {"post", "patch", "build", "truncate"} => file = Absent
           /\ c = "delCall" => file.id = i,
         faults' = {} =>
           /\ \A a \in live' \ live : c \in Administrative /\ i = a
           /\ Administers(p) /\ proc[p].id \in live => c \in Administrative /\ i = proc[p].id
  PROVE  Inv'
<1> USE DEF Arrives, Moves, Links, Inv
<1>1. \A q \in Procs : proc[q] \in Proc /\ proc'[q] \in Proc BY DEF TypeOK
<1>2. Administers(p)' <=> c \in Administrative
  BY DEF Administers, Administrative, Labels
<1>3. \A q \in Procs \ {p} : Administers(q)' <=> Administers(q) BY DEF Administers
<1>4. TypeOK' BY DEF TypeOK, Grows, Kinds
<1>5. IdInv' BY DEF IdInv, Grows, Early, Registering
<1>6. EnrolInv'
  BY DEF EnrolInv, SavedIsEnrolled, Grows, At
<1>7. SerialInv'
  <2> SUFFICES ASSUME "overlap" \notin faults' PROVE SerialInv' BY DEF SerialInv
  <2>1. "overlap" \notin faults BY DEF Grows
  <2>2. ASSUME NEW q \in Procs, NEW r \in Procs, Administers(q)', Administers(r)' PROVE q = r
    BY <1>2, <1>3, <2>1, <2>2 DEF SerialInv
  <2>3. ASSUME NEW q \in Procs
        PROVE  /\ proc'[q].pc \in {"post", "patch", "build", "truncate"} => file' = Absent
               /\ proc'[q].pc = "write" => proc'[q].linked /\ file' = Torn
               /\ proc'[q].pc \in {"delCall", "remove"} => file'.id = proc'[q].id
    <3>1. CASE q = p BY <3>1
    <3>2. CASE q # p BY <2>1, <3>2 DEF SerialInv
    <3> QED BY <3>1, <3>2
  <2> QED BY <2>2, <2>3 DEF SerialInv, Absent, Torn
<1>8. StrandInv'
  <2> SUFFICES ASSUME faults' = {} PROVE StrandInv' BY DEF StrandInv
  <2>1. faults = {} /\ "overlap" \notin faults' BY DEF Grows
  <2>2. ASSUME NEW a \in live' PROVE Reachable(a)'
    <3>1. CASE a \in live' \ live BY <1>2, <3>1 DEF Reachable
    <3>2. CASE a \in live
      <4>1. Reachable(a) BY <2>1, <3>2 DEF StrandInv
      <4> QED BY <1>2, <1>3, <3>2, <4>1 DEF Reachable
    <3> QED BY <3>1, <3>2
  <2>3. ASSUME NEW q \in Procs, At(q, "remove")' PROVE proc'[q].id \notin live'
    <3>1. q # p /\ At(q, "remove") BY <2>3 DEF At
    <3>2. proc[q].id \notin live BY <2>1, <3>1 DEF StrandInv
    <3>3. Administers(q) BY <3>1 DEF Administers, At
    <3>4. live' \subseteq live BY <2>1, <3>1, <3>3
    <3> QED BY <3>1, <3>2, <3>4
  <2> QED BY <2>2, <2>3 DEF StrandInv
<1> QED BY <1>4, <1>5, <1>6, <1>7, <1>8

(* p ends, with or without a fault: it must not have been the last to know  *)
(* an account.                                                              *)
LEMMA EndInv ==
  ASSUME Inv, NEW p \in Procs, Exit(p), Grows, file' = file,
         faults' = {} => live' = live /\ (Administers(p) => proc[p].id = None)
  PROVE  Inv'
<1>1. Arrives(p, "idle", None) BY ExitMoves DEF Inv, Arrives, Labels, Registering
<1>2. None \notin live BY NilAssumption DEF Inv, TypeOK
<1> QED BY <1>1, <1>2, MoveInv DEF Administrative

(* Starting a command. *)
LEMMA RunInv ==
  ASSUME Inv, NEW p \in Procs, NEW c \in {"regLoad", "delRead", "load"}, Run(p, c)
  PROVE  Inv'
<1>1. proc[p].pc = "idle" /\ proc[p].id = None BY DEF Run, At, Inv, IdInv
<1>2. Moves(p, c, None) /\ Links(p) BY <1>1, GotoMoves DEF Run, Inv, Labels
<1>3. Arrives(p, c, None) BY <1>2 DEF Arrives, Labels, Registering
<1>4. Grows /\ file' = file /\ live' = live BY DEF Grows, Run, Inv, TypeOK, Fault, Kinds
<1>5. "overlap" \notin faults' /\ c \in Administrative => \A q \in Procs : ~Administers(q)
  BY DEF Run, Fault, Administrative
<1>6. ~Administers(p) BY <1>1 DEF Administers
<1> QED BY <1>3, <1>4, <1>5, <1>6, MoveInv

(* A kill. *)
LEMMA KillInv ==
  ASSUME Inv, NEW p \in Procs, Kill(p)
  PROVE  Inv'
<1>1. Grows /\ file' = file /\ live' = live BY DEF Grows, Kill, Inv, TypeOK, Fault, Kinds
<1>2. faults' = {} => ~Administers(p) BY DEF Kill, Fault
<1> QED BY <1>1, <1>2, EndInv DEF Kill

(* Without two commands at once, p is the only one. *)
LEMMA Alone ==
  ASSUME Inv, NEW p \in Procs, Administers(p), "overlap" \notin faults
  PROVE  \A q \in Procs \ {p} : ~Administers(q)
BY DEF Inv, SerialInv

(* p goes on to label c of the same command with account i, the API and the *)
(* file as they are, but for enrolled.                                      *)
LEMMA AdvanceInv ==
  ASSUME Inv, NEW p \in Procs, NEW c, NEW i, Arrives(p, c, i), Administers(p), c \in Administrative,
         UNCHANGED <<live, made, file, faults>>, enrolled \subseteq enrolled', enrolled' \subseteq made,
         c \in {"post", "patch", "build", "truncate"} /\ "overlap" \notin faults => file = Absent,
         c = "delCall" => file.id = i,
         proc[p].id \in {i, None}
  PROVE  Inv'
<1>1. Grows BY DEF Grows, Inv, TypeOK, Kinds
<1>2. None \notin live BY NilAssumption DEF Inv, TypeOK
<1> QED BY <1>1, <1>2, Alone, MoveInv

(* warp -reg looks at the file (main.go 254-263). *)
LEMMA RegLoadInv ==
  ASSUME Inv, NEW p \in Procs, RegLoad(p)
  PROVE  Inv'
<1>1. proc[p].pc = "regLoad" /\ proc[p].id = None BY DEF RegLoad, At, Inv, IdInv
<1>2. CASE MayRegister
  <2>1. Moves(p, "post", None) /\ Links(p) BY <1>1, <1>2, GotoMoves DEF RegLoad, Inv, Labels
  <2>2. Arrives(p, "post", None) BY <2>1 DEF Arrives, Labels, Registering
  <2>3. file = Absent BY <1>2, FileType DEF MayRegister, Inv
  <2> QED BY <1>1, <2>2, <2>3, AdvanceInv DEF RegLoad, Administers, Administrative, Labels, Inv, TypeOK
<1>3. CASE ~MayRegister
  BY <1>1, <1>3, EndInv DEF RegLoad, Grows, Inv, TypeOK, Kinds
<1> QED BY <1>2, <1>3

(* POST /reg. *)
LEMMA PostInv ==
  ASSUME Inv, NEW p \in Procs, Post(p)
  PROVE  Inv'
<1>1. proc[p].pc = "post" /\ proc[p].id = None /\ Administers(p)
  BY DEF Post, At, Inv, IdInv, Administers
<1>2. Grows BY DEF Post, Grows, Inv, TypeOK, Kinds, Fault
<1>3. ASSUME Exit(p), faults' # {} \/ live' = live PROVE Inv'
  BY <1>1, <1>2, <1>3, EndInv DEF Post
<1>4. ASSUME NEW a \in Accounts \ made, live' = live \cup {a}, made' = made \cup {a}, UNCHANGED faults,
             Become(p, [Idle EXCEPT !.pc = "patch", !.id = a])
      PROVE  Inv'
  <2>1. Moves(p, "patch", a) /\ Links(p) BY <1>4, HoldMoves DEF Inv, Labels
  <2>2. Arrives(p, "patch", a) BY <1>4, <2>1 DEF Arrives, Labels, Early
  <2>3. "overlap" \notin faults => file = Absent BY <1>1 DEF Inv, SerialInv
  <2>4. None \notin live BY NilAssumption DEF Inv, TypeOK
  <2> QED BY <1>1, <1>2, <1>4, <2>2, <2>3, <2>4, Alone, MoveInv DEF Post, Administrative, Labels
<1> QED BY <1>3, <1>4 DEF Post, Fault

(* PATCH /reg/{id}. *)
LEMMA PatchInv ==
  ASSUME Inv, NEW p \in Procs, Patch(p)
  PROVE  Inv'
<1>1. proc[p].pc = "patch" /\ proc[p].id \in made /\ Administers(p)
  BY DEF Patch, At, Inv, IdInv, Administers
<1>2. Grows BY <1>1 DEF Patch, Grows, Inv, TypeOK, Kinds, Fault
<1>3. CASE Exit(p) /\ Fault("api") BY <1>2, <1>3, EndInv DEF Patch, Fault
<1>4. CASE enrolled' = enrolled \cup {proc[p].id} /\ Goto(p, "build") /\ UNCHANGED faults
  <2>1. Moves(p, "build", proc[p].id) /\ Links(p) BY <1>4, GotoMoves DEF Inv, Labels
  <2>2. Arrives(p, "build", proc[p].id) BY <1>1, <1>4, <2>1 DEF Arrives, Labels, Early, Patch
  <2>3. "overlap" \notin faults => file = Absent BY <1>1 DEF Inv, SerialInv
  <2> QED BY <1>1, <1>2, <1>4, <2>2, <2>3, AdvanceInv DEF Patch, Administrative, Labels, Grows
<1> QED BY <1>3, <1>4 DEF Patch

(* The registration is put together. *)
LEMMA BuildInv ==
  ASSUME Inv, NEW p \in Procs, Build(p)
  PROVE  Inv'
<1>1. proc[p].pc = "build" /\ proc[p].id \in made /\ proc[p].id \in enrolled /\ Administers(p)
  BY DEF Build, At, Inv, IdInv, EnrolInv, Administers
<1>2. Grows BY <1>1 DEF Build, Grows, Inv, TypeOK, Kinds, Fault
<1>3. CASE Exit(p) /\ Fault("api") BY <1>2, <1>3, EndInv DEF Build, Fault
<1>4. CASE Goto(p, "truncate") /\ UNCHANGED faults
  <2>1. Moves(p, "truncate", proc[p].id) /\ Links(p) BY <1>4, GotoMoves DEF Inv, Labels
  <2>2. Arrives(p, "truncate", proc[p].id) BY <1>1, <1>4, <2>1 DEF Arrives, Labels, Early, Build
  <2>3. "overlap" \notin faults => file = Absent BY <1>1 DEF Inv, SerialInv
  <2> QED BY <1>1, <1>2, <1>4, <2>2, <2>3, AdvanceInv DEF Build, Administrative, Labels, Grows
<1> QED BY <1>3, <1>4 DEF Build

(* warp -del reads id and token. *)
LEMMA DelReadInv ==
  ASSUME Inv, NEW p \in Procs, DelRead(p)
  PROVE  Inv'
<1>1. proc[p].pc = "delRead" /\ proc[p].id = None BY DEF DelRead, At, Inv, IdInv
<1>2. CASE file.st \in {"odd", "good"}
  <2>1. Moves(p, "delCall", file.id) /\ Links(p)
    BY <1>2, HoldMoves, FileType DEF DelRead, Inv, Labels
  <2>2. Arrives(p, "delCall", file.id) BY <2>1 DEF Arrives, Labels, Early, Registering
  <2> QED BY <1>1, <2>2, AdvanceInv DEF DelRead, Administers, Administrative, Labels, Inv, TypeOK
<1>3. CASE file.st \notin {"odd", "good"}
  BY <1>1, <1>3, EndInv DEF DelRead, Grows, Inv, TypeOK, Kinds
<1> QED BY <1>2, <1>3

(* warp loads its registration. *)
LEMMA LoadInv ==
  ASSUME Inv, NEW p \in Procs, Load(p)
  PROVE  Inv'
<1>1. proc[p].pc = "load" /\ ~Administers(p) BY DEF Load, At, Administers
<1>2. Grows BY DEF Load, Grows, Inv, TypeOK, Kinds
<1>3. CASE file.st = "good"
  <2>1. Moves(p, "serve", file.id) /\ Links(p) BY <1>3, HoldMoves, FileType DEF Load, Inv, Labels
  <2>2. file.id \in enrolled BY <1>3 DEF Inv, EnrolInv, SavedIsEnrolled
  <2>3. Arrives(p, "serve", file.id) BY <2>1, <2>2 DEF Load, Arrives, Labels, Early, Registering
  <2> QED BY <1>1, <1>2, <2>3, MoveInv DEF Load, Administrative
<1>4. CASE file.st # "good" BY <1>1, <1>2, <1>4, EndInv DEF Load
<1> QED BY <1>3, <1>4

-----------------------------------------------------------------------------
(* Steps that change reg.json, or delete an account.                        *)

(* Save opens the file: nothing is lost that -reg has not looked at. *)
LEMMA TruncateInv ==
  ASSUME Inv, NEW p \in Procs, Truncate(p)
  PROVE  Inv'
<1>1. proc[p].pc = "truncate" /\ proc[p].id \in made /\ proc[p].id \in enrolled /\ Administers(p)
  BY DEF Truncate, At, Inv, IdInv, EnrolInv, Administers
<1>2. CASE Exit(p) /\ Fault("disk") /\ UNCHANGED file
  BY <1>2, EndInv DEF Truncate, Fault, Grows, Inv, TypeOK, Kinds
<1>3. CASE /\ file' = Torn /\ UNCHANGED faults
           /\ Become(p, [proc[p] EXCEPT !.pc = "write", !.linked = TRUE])
  <2> DEFINE r == [proc[p] EXCEPT !.pc = "write", !.linked = TRUE]
  <2>1. proc[p] \in Proc BY DEF Inv, TypeOK
  <2>2. r \in Proc /\ r.pc = "write" /\ r.id = proc[p].id /\ r.linked = TRUE BY <2>1 DEF Proc
  <2>3. Moves(p, "write", proc[p].id) /\ Links(p) /\ proc'[p].linked BY <1>3, <2>2, BecomeMoves DEF Inv
  <2> HIDE DEF r
  <2>4. \A q \in Procs : Administers(q)' <=> Administers(q)
    BY <1>1, <2>3 DEF Administers, Moves
  <2>5. "overlap" \notin faults => file = Absent BY <1>1 DEF Inv, SerialInv
  <2>6. TypeOK' BY <1>3, <2>3, FileType DEF Truncate, Inv, TypeOK, Moves
  <2>7. IdInv' BY <1>1, <2>3 DEF Truncate, Inv, IdInv, Moves
  <2>8. EnrolInv' BY <1>1, <1>3, <2>3, FileType DEF Truncate, Inv, EnrolInv, SavedIsEnrolled, Moves, At
  <2>9. SerialInv'
    BY <1>1, <1>3, <2>3, <2>4, Alone DEF Inv, SerialInv, Moves, Administers, Torn
  <2>10. StrandInv'
    BY <1>1, <1>3, <2>3, <2>4, <2>5, FileType, NilAssumption
       DEF Truncate, Inv, TypeOK, StrandInv, Reachable, Moves, At
  <2> QED BY <2>6, <2>7, <2>8, <2>9, <2>10 DEF Inv
<1> QED BY <1>2, <1>3 DEF Truncate

(* Save writes the file. *)
LEMMA WriteInv ==
  ASSUME Inv, NEW p \in Procs, Write(p)
  PROVE  Inv'
<1>1. proc[p].pc = "write" /\ proc[p].id \in made /\ proc[p].id \in enrolled /\ Administers(p)
  BY DEF Write, At, Inv, IdInv, EnrolInv, Administers
<1>2. Moves(p, "idle", None) /\ Links(p) BY ExitMoves DEF Write, Inv
<1>3. "overlap" \notin faults => proc[p].linked BY <1>1 DEF Inv, SerialInv
<1>4. file' \in {file, Torn, Good(proc[p].id)} /\ faults \subseteq faults' /\ faults' \subseteq Kinds
  BY DEF Write, Fault, Inv, TypeOK, Kinds
<1>5. faults' = {} => file' = Good(proc[p].id) /\ faults = {} BY <1>3 DEF Write, Fault
<1>6. TypeOK' BY <1>1, <1>2, <1>4, FileType DEF Write, Inv, TypeOK, Moves, Kinds
<1>7. IdInv' BY <1>2 DEF Write, Inv, IdInv, Moves
<1>8. EnrolInv'
  <2>1. file'.st = "good" => file'.id \in enrolled
    BY <1>1, <1>4, FileType DEF Inv, EnrolInv, SavedIsEnrolled, TypeOK
  <2> QED BY <1>2, <2>1 DEF Write, Inv, EnrolInv, SavedIsEnrolled, Moves, At
<1>9. SerialInv'
  <2>1. ASSUME "overlap" \notin faults' PROVE \A q \in Procs : ~Administers(q)'
    <3>1. "overlap" \notin faults BY <1>4, <2>1
    <3> QED BY <1>1, <1>2, <3>1, Alone DEF Moves, Administers
  <2> QED BY <2>1 DEF SerialInv, Administers
<1>10. StrandInv'
  <2> SUFFICES ASSUME faults' = {} PROVE StrandInv' BY DEF StrandInv
  <2>1. \A q \in Procs \ {p} : ~Administers(q) BY <1>1, <1>5, Alone
  <2>2. ASSUME NEW a \in live' PROVE Reachable(a)'
    <3>1. Reachable(a) /\ file = Torn BY <1>1, <1>5 DEF Write, Inv, StrandInv, SerialInv
    <3>2. a = proc[p].id BY <2>1, <2>2, <3>1, FileType, NilAssumption DEF Write, Inv, TypeOK, Reachable
    <3> QED BY <1>1, <1>5, <3>2, FileType DEF Reachable, Inv, TypeOK
  <2>3. \A q \in Procs : ~At(q, "remove")' BY <1>2, <2>1 DEF Moves, Administers, At
  <2> QED BY <2>2, <2>3 DEF StrandInv
<1> QED BY <1>6, <1>7, <1>8, <1>9, <1>10 DEF Inv

(* DELETE /reg/{id}. *)
LEMMA DelCallInv ==
  ASSUME Inv, NEW p \in Procs, DelCall(p)
  PROVE  Inv'
<1>1. proc[p].pc = "delCall" /\ Administers(p) BY DEF DelCall, At, Administers
<1>2. Moves(p, "remove", proc[p].id) /\ Links(p) BY GotoMoves DEF DelCall, Inv, Labels
<1>3. \A q \in Procs : Administers(q)' <=> Administers(q)
  BY <1>1, <1>2 DEF Administers, Moves
<1>4. faults \subseteq faults' /\ faults' \subseteq Kinds /\ live' \subseteq live
  BY DEF DelCall, Fault, Inv, TypeOK, Kinds
<1>5. TypeOK' BY <1>2, <1>4 DEF DelCall, Inv, TypeOK, Moves, Kinds
<1>6. IdInv' BY <1>2 DEF DelCall, Inv, IdInv, Moves
<1>7. EnrolInv' BY <1>2 DEF DelCall, Inv, EnrolInv, SavedIsEnrolled, Moves, At
<1>8. SerialInv'
  <2> SUFFICES ASSUME "overlap" \notin faults' PROVE SerialInv' BY DEF SerialInv
  <2>1. "overlap" \notin faults BY <1>4
  <2>2. \A q, r \in Procs : Administers(q)' /\ Administers(r)' => q = r
    BY <1>3, <2>1 DEF Inv, SerialInv
  <2>3. ASSUME NEW q \in Procs
        PROVE  /\ proc'[q].pc \in {"post", "patch", "build", "truncate"} => file' = Absent
               /\ proc'[q].pc = "write" => proc'[q].linked /\ file' = Torn
               /\ proc'[q].pc \in {"delCall", "remove"} => file'.id = proc'[q].id
    <3>1. CASE q = p BY <1>1, <1>2, <2>1, <3>1 DEF DelCall, Inv, SerialInv, Moves
    <3>2. CASE q # p BY <1>2, <2>1, <3>2 DEF DelCall, Inv, SerialInv, Moves, Links
    <3> QED BY <3>1, <3>2
  <2> QED BY <2>2, <2>3 DEF SerialInv, Absent, Torn
<1>9. StrandInv'
  <2> SUFFICES ASSUME faults' = {} PROVE StrandInv' BY DEF StrandInv
  <2>1. faults = {} /\ live' = live \ {proc[p].id} BY DEF DelCall, Fault
  <2>2. ASSUME NEW a \in live' PROVE Reachable(a)'
    <3>1. Reachable(a) BY <2>1, <2>2 DEF Inv, StrandInv
    <3> QED BY <1>2, <1>3, <3>1 DEF Reachable, Moves, DelCall
  <2>3. ASSUME NEW q \in Procs, At(q, "remove")' PROVE proc'[q].id \notin live'
    BY <1>2, <2>1, <2>3 DEF Inv, StrandInv, Moves, At
  <2> QED BY <2>2, <2>3 DEF StrandInv
<1> QED BY <1>5, <1>6, <1>7, <1>8, <1>9 DEF Inv

(* warp -del removes the file. *)
LEMMA RemoveInv ==
  ASSUME Inv, NEW p \in Procs, Remove(p)
  PROVE  Inv'
<1>1. proc[p].pc = "remove" /\ Administers(p) BY DEF Remove, At, Administers
<1>2. CASE Exit(p) /\ Fault("disk") /\ UNCHANGED file
  BY <1>2, EndInv DEF Remove, Fault, Grows, Inv, TypeOK, Kinds
<1>3. CASE /\ file' = Absent /\ UNCHANGED faults
           /\ proc' = [q \in Procs |-> IF q = p THEN Idle ELSE [proc[q] EXCEPT !.linked = FALSE]]
  <2>1. ASSUME NEW q \in Procs \ {p}
        PROVE  proc'[q] \in Proc /\ proc'[q].pc = proc[q].pc /\ proc'[q].id = proc[q].id
    <3>1. proc[q] \in Proc /\ proc'[q] = [proc[q] EXCEPT !.linked = FALSE] BY <1>3 DEF Inv, TypeOK
    <3> QED BY <3>1 DEF Proc
  <2>2. proc'[p] = Idle /\ proc' = [q \in Procs |-> proc'[q]] BY <1>3
  <2>3. Moves(p, "idle", None) BY <2>1, <2>2, IdleType DEF Moves
  <2>4. TypeOK' BY <1>3, <2>3, FileType DEF Remove, Inv, TypeOK, Moves
  <2>5. IdInv' BY <2>3 DEF Remove, Inv, IdInv, Moves
  <2>6. EnrolInv' BY <1>3, <2>3, FileType DEF Remove, Inv, EnrolInv, SavedIsEnrolled, Moves, At
  <2>7. ASSUME "overlap" \notin faults PROVE \A q \in Procs : ~Administers(q)'
    BY <1>1, <2>3, <2>7, Alone DEF Moves, Administers
  <2>8. SerialInv' BY <1>3, <2>7 DEF SerialInv, Administers
  <2>9. StrandInv'
    <3> SUFFICES ASSUME faults' = {} PROVE StrandInv' BY DEF StrandInv
    <3>1. ASSUME NEW a \in live PROVE FALSE
      <4>1. Reachable(a) /\ proc[p].id \notin live /\ file.id = proc[p].id
        BY <1>1, <1>3 DEF Inv, StrandInv, SerialInv, At
      <4>2. \A q \in Procs \ {p} : ~Administers(q) BY <1>1, <1>3, Alone
      <4> QED BY <3>1, <4>1, <4>2 DEF Reachable
    <3>2. live' = {} BY <3>1 DEF Remove
    <3> QED BY <3>2 DEF StrandInv
  <2> QED BY <2>4, <2>5, <2>6, <2>8, <2>9 DEF Inv
<1> QED BY <1>2, <1>3 DEF Remove

-----------------------------------------------------------------------------
(* The states an earlier run leaves satisfy the invariant. *)
LEMMA InitInv == Init => Inv
<1> SUFFICES ASSUME Init PROVE Inv OBVIOUS
<1>1. \A p \in Procs : proc[p] = Idle BY DEF Init
<1>2. file \in File /\ live \subseteq Accounts /\ (file.id \in live \/ live = {})
      /\ (file.st = "good" => file.id \in live) /\ \A a \in live : file.id = a
  BY DEF Init, File, Absent
<1>3. TypeOK BY <1>2, IdleType DEF Init, TypeOK
<1>4. IdInv /\ EnrolInv /\ SerialInv
  BY <1>1, <1>2, IdleType DEF Init, IdInv, EnrolInv, SavedIsEnrolled, SerialInv, Administers, At
<1>5. StrandInv BY <1>1, <1>2, IdleType DEF StrandInv, Reachable, At
<1> QED BY <1>3, <1>4, <1>5 DEF Inv

(* Every step keeps the invariant. *)
LEMMA NextInv == Inv /\ [Next]_vars => Inv'
<1> SUFFICES ASSUME Inv, [Next]_vars PROVE Inv' OBVIOUS
<1>1. CASE UNCHANGED vars
  <2>1. TypeOK' /\ IdInv' BY <1>1 DEF Inv, TypeOK, IdInv, vars
  <2>2. EnrolInv' BY <1>1 DEF Inv, EnrolInv, SavedIsEnrolled, At, vars
  <2>3. SerialInv' BY <1>1 DEF Inv, SerialInv, Administers, Absent, Torn, vars
  <2>4. StrandInv' BY <1>1 DEF Inv, StrandInv, Reachable, Administers, At, vars
  <2> QED BY <2>1, <2>2, <2>3, <2>4 DEF Inv
<1>2. ASSUME NEW p \in Procs, Step(p) PROVE Inv'
  BY <1>2, RegLoadInv, PostInv, PatchInv, BuildInv, TruncateInv, WriteInv, DelReadInv, DelCallInv,
     RemoveInv, LoadInv DEF Step
<1> QED BY <1>1, <1>2, RunInv, KillInv DEF Next

(* Every variable keeps its type; no account is live or enrolled that was   *)
(* never created.                                                           *)
THEOREM TypeCorrect == Spec => []TypeOK
<1>1. Inv => TypeOK BY DEF Inv
<1> QED BY InitInv, NextInv, <1>1, PTL DEF Spec

(* Load never accepts a half-registered device, whatever fails or is killed *)
(* and however many commands run at once (registration.go 187-400).         *)
THEOREM OnlyEnrolledIsSaved == Spec => []SavedIsEnrolled
<1>1. Inv => SavedIsEnrolled BY DEF Inv, EnrolInv
<1> QED BY InitInv, NextInv, <1>1, PTL DEF Spec

(* Commands that follow one another and meet no fault strand no account.    *)
THEOREM OnlyFaultsStrand == Spec => []StrandedByFaultOnly
<1>1. Inv => StrandedByFaultOnly BY DEF Inv, StrandInv, StrandedByFaultOnly
<1> QED BY InitInv, NextInv, <1>1, PTL DEF Spec

(* -reg leaves an existing registration alone (main.go 251-270), also one   *)
(* this build cannot read, and also when Save is killed or fails.           *)
THEOREM RegLeavesAlone == Spec => RegNeverReplaces
<1> DEFINE Kept == file.st \in {"odd", "good"} /\ file' # file => file' = Absent \/ "overlap" \in faults
<1>1. Inv /\ [Next]_vars => [Kept]_vars
  <2> SUFFICES ASSUME Inv, Next, file.st \in {"odd", "good"}, file' # file, "overlap" \notin faults
               PROVE  file' = Absent
    OBVIOUS
  <2>1. PICK p \in Procs : Truncate(p) \/ Write(p) \/ Remove(p)
    BY DEF Next, Run, Kill, Step, RegLoad, Post, Patch, Build, DelRead, DelCall, Load
  <2>2. ~Truncate(p) BY FileType DEF Truncate, At, Inv, SerialInv
  <2>3. ~Write(p) BY FileType DEF Write, At, Inv, SerialInv
  <2> QED BY <2>1, <2>2, <2>3 DEF Remove
<1> QED BY InitInv, NextInv, <1>1, PTL DEF Spec, RegNeverReplaces

-----------------------------------------------------------------------------
(* Commands that follow one another keep reg.json and the API in step.      *)

(* Nothing has gone wrong: an account named by reg.json or by a command     *)
(* that registers exists, and a torn file is one that is being written.     *)
SettledInv ==
  faults = {} =>
    /\ file.id # None => file.id \in live \/ \E p \in Procs : At(p, "remove")
    /\ file.st = "torn" => \E p \in Procs : At(p, "write")
    /\ \A p \in Procs : proc[p].pc \in Registering \cup {"write"} => proc[p].id \in live

(* A step of p that leaves reg.json alone and ends no write and no removal  *)
(* without a fault.                                                         *)
LEMMA MoveSettled ==
  ASSUME Inv, SettledInv, NEW p \in Procs, NEW c, NEW i, Moves(p, c, i), file' = file,
         faults \subseteq faults', live \subseteq live',
         faults' = {} => /\ proc[p].pc \notin {"remove", "write"}
                         /\ c \in Registering \cup {"write"} => i \in live'
  PROVE  SettledInv'
<1> SUFFICES ASSUME faults' = {} PROVE SettledInv' BY DEF SettledInv
<1>1. faults = {} OBVIOUS
<1>2. \A q \in Procs : At(q, "remove") \/ At(q, "write") => q # p /\ proc'[q].pc = proc[q].pc
  BY DEF At, Moves
<1>3. file'.id # None => file'.id \in live' \/ \E q \in Procs : At(q, "remove")'
  BY <1>1, <1>2 DEF SettledInv, At
<1>4. file'.st = "torn" => \E q \in Procs : At(q, "write")' BY <1>1, <1>2 DEF SettledInv, At
<1>5. \A q \in Procs : proc'[q].pc \in Registering \cup {"write"} => proc'[q].id \in live'
  BY <1>1 DEF SettledInv, Moves
<1> QED BY <1>3, <1>4, <1>5 DEF SettledInv

(* Starting and killing commands, and steps that look at reg.json. *)
LEMMA LookSettled ==
  ASSUME Inv, SettledInv, NEW p \in Procs,
         \/ \E c \in {"regLoad", "delRead", "load"} : Run(p, c)
         \/ Kill(p) \/ RegLoad(p) \/ DelRead(p) \/ Load(p)
  PROVE  SettledInv'
<1> USE DEF Registering
<1>1. file' = file /\ live' = live /\ faults \subseteq faults'
  BY DEF Run, Kill, RegLoad, DelRead, Load, Fault
<1>2. ASSUME NEW c \in {"regLoad", "delRead", "load"}, Run(p, c) PROVE SettledInv'
  <2>1. Moves(p, c, proc[p].id) /\ proc[p].pc = "idle" BY <1>2, GotoMoves DEF Run, Inv, Labels, At
  <2> QED BY <1>1, <2>1, MoveSettled
<1>3. CASE Kill(p)
  <2>1. Moves(p, "idle", None) BY <1>3, ExitMoves DEF Kill, Inv
  <2>2. faults' = {} => proc[p].pc \notin {"remove", "write"} BY <1>3 DEF Kill, Fault, Administers
  <2> QED BY <1>1, <2>1, <2>2, MoveSettled
<1>4. CASE RegLoad(p)
  <2>1. proc[p].pc = "regLoad" BY <1>4 DEF RegLoad, At
  <2>2. Moves(p, "post", proc[p].id) \/ Moves(p, "idle", None)
    BY <1>4, GotoMoves, ExitMoves DEF RegLoad, Inv, Labels
  <2> QED BY <1>1, <2>1, <2>2, MoveSettled
<1>5. CASE DelRead(p)
  <2>1. proc[p].pc = "delRead" BY <1>5 DEF DelRead, At
  <2>2. Moves(p, "delCall", file.id) \/ Moves(p, "idle", None)
    BY <1>5, HoldMoves, ExitMoves, FileType DEF DelRead, Inv, Labels
  <2> QED BY <1>1, <2>1, <2>2, MoveSettled
<1>6. CASE Load(p)
  <2>1. proc[p].pc = "load" BY <1>6 DEF Load, At
  <2>2. Moves(p, "serve", file.id) \/ Moves(p, "idle", None)
    BY <1>6, HoldMoves, ExitMoves, FileType DEF Load, Inv, Labels
  <2> QED BY <1>1, <2>1, <2>2, MoveSettled
<1> QED BY <1>2, <1>3, <1>4, <1>5, <1>6

(* The steps of Register. *)
LEMMA RegisterSettled ==
  ASSUME Inv, SettledInv, NEW p \in Procs, Post(p) \/ Patch(p) \/ Build(p)
  PROVE  SettledInv'
<1> USE DEF Registering
<1>1. /\ file' = file /\ live \subseteq live' /\ faults \subseteq faults'
      /\ proc[p].pc \in {"post", "patch", "build"}
  BY DEF Post, Patch, Build, Fault, At
<1>2. CASE Exit(p)
  <2>1. Moves(p, "idle", None) BY <1>2, ExitMoves DEF Inv
  <2> QED BY <1>1, <2>1, MoveSettled
<1>3. CASE Patch(p) \/ Build(p)
  <2>1. faults' = {} => proc[p].id \in live'
    BY <1>1, <1>3 DEF SettledInv, Patch, Build, At
  <2>2. CASE ~Exit(p)
    <3>1. Moves(p, "build", proc[p].id) \/ Moves(p, "truncate", proc[p].id)
      BY <1>3, <2>2, GotoMoves DEF Patch, Build, Inv, Labels
    <3> QED BY <1>1, <2>1, <3>1, MoveSettled
  <2> QED BY <1>2, <2>2
<1>4. ASSUME NEW a \in Accounts \ made, live' = live \cup {a},
             Become(p, [Idle EXCEPT !.pc = "patch", !.id = a])
      PROVE  SettledInv'
  <2>1. Moves(p, "patch", a) BY <1>4, HoldMoves DEF Inv, Labels
  <2> QED BY <1>1, <1>4, <2>1, MoveSettled
<1> QED BY <1>2, <1>3, <1>4 DEF Post

(* Save, and the end of a deletion. *)
LEMMA FileSettled ==
  ASSUME Inv, SettledInv, NEW p \in Procs, Truncate(p) \/ Write(p) \/ DelCall(p) \/ Remove(p)
  PROVE  SettledInv'
<1> USE DEF Registering
<1> SUFFICES ASSUME faults' = {} PROVE SettledInv' BY DEF SettledInv
<1>1. faults = {} BY DEF Truncate, Write, DelCall, Remove, Fault
<1>2. Administers(p) BY DEF Truncate, Write, DelCall, Remove, At, Administers
<1>3. \A q \in Procs \ {p} : ~Administers(q) BY <1>1, <1>2, Alone
<1>4. CASE Truncate(p)
  <2>1. /\ file' = Torn /\ live' = live /\ proc[p].pc = "truncate"
        /\ Become(p, [proc[p] EXCEPT !.pc = "write", !.linked = TRUE])
    BY <1>4 DEF Truncate, Fault, At
  <2> DEFINE r == [proc[p] EXCEPT !.pc = "write", !.linked = TRUE]
  <2>2. r \in Proc /\ r.pc = "write" /\ r.id = proc[p].id BY DEF Inv, TypeOK, Proc
  <2>3. Moves(p, "write", proc[p].id) BY <2>1, <2>2, BecomeMoves DEF Inv
  <2> HIDE DEF r
  <2>4. proc[p].id \in live BY <1>1, <2>1 DEF SettledInv
  <2>5. \A q \in Procs : proc'[q].pc \in Registering \cup {"write"} => proc'[q].id \in live'
    BY <1>3, <2>1, <2>3, <2>4 DEF Moves, Administers
  <2>6. At(p, "write")' /\ file'.id = None BY <2>1, <2>3, FileType DEF Moves, At, Inv
  <2> QED BY <2>5, <2>6 DEF SettledInv
<1>5. CASE Write(p)
  <2>1. Moves(p, "idle", None) /\ proc[p].pc = "write" BY <1>5, ExitMoves DEF Write, At, Inv
  <2>2. proc[p].linked BY <1>1, <2>1 DEF Inv, SerialInv
  <2>3. file' = Good(proc[p].id) /\ live' = live BY <1>1, <1>5, <2>2 DEF Write, Fault
  <2>4. proc[p].id \in live BY <1>1, <2>1 DEF SettledInv
  <2>5. file'.id = proc[p].id /\ file'.st = "good" BY <2>3 DEF Good
  <2>6. \A q \in Procs : proc'[q].pc \notin Registering \cup {"write"}
    BY <1>3, <2>1 DEF Moves, Administers
  <2> QED BY <2>3, <2>4, <2>5, <2>6 DEF SettledInv
<1>6. CASE DelCall(p)
  <2>1. Moves(p, "remove", proc[p].id) BY <1>6, GotoMoves DEF DelCall, Inv, Labels
  <2>2. file' = file /\ file.id = proc[p].id /\ proc[p].pc = "delCall"
    BY <1>1, <1>6 DEF DelCall, At, Inv, SerialInv
  <2>3. file.st # "torn" BY <1>1, <1>3, <2>2 DEF SettledInv, At, Administers
  <2>4. \A q \in Procs : proc'[q].pc \notin Registering \cup {"write"}
    BY <1>3, <2>1 DEF Moves, Administers
  <2>5. At(p, "remove")' BY <2>1 DEF Moves, At
  <2> QED BY <2>2, <2>3, <2>4, <2>5 DEF SettledInv
<1>7. CASE Remove(p)
  <2>1. /\ file' = Absent
        /\ proc' = [q \in Procs |-> IF q = p THEN Idle ELSE [proc[q] EXCEPT !.linked = FALSE]]
    BY <1>7 DEF Remove, Fault
  <2>2. ASSUME NEW q \in Procs PROVE proc'[q].pc \notin Registering \cup {"write"}
    <3>1. CASE q = p BY <2>1, <3>1, IdleType
    <3>2. CASE q # p
      <4>1. proc[q] \in Proc /\ proc'[q] = [proc[q] EXCEPT !.linked = FALSE] BY <2>1, <3>2 DEF Inv, TypeOK
      <4>2. proc'[q].pc = proc[q].pc BY <4>1 DEF Proc
      <4> QED BY <1>3, <3>2, <4>2 DEF Administers
    <3> QED BY <3>1, <3>2
  <2> QED BY <2>1, <2>2, FileType DEF SettledInv, Inv
<1> QED BY <1>4, <1>5, <1>6, <1>7

(* Every step keeps it. *)
LEMMA NextSettled == Inv /\ SettledInv /\ [Next]_vars => SettledInv'
<1> SUFFICES ASSUME Inv, SettledInv, [Next]_vars PROVE SettledInv' OBVIOUS
<1>1. CASE UNCHANGED vars BY <1>1 DEF vars, SettledInv, At
<1> QED BY <1>1, LookSettled, RegisterSettled, FileSettled DEF Next, Step

(* A device has one account, and between two commands it is the one that    *)
(* reg.json names: no file means no account, a file is never left torn.     *)
(* It takes a fault to get them out of step.                                *)
InStep ==
  faults = {} =>
    /\ \A a, b \in live : a = b
    /\ (\A p \in Procs : ~Administers(p)) =>
         file.st # "torn" /\ live = IF file.st = "absent" THEN {} ELSE {file.id}

(* Registering and deleting, any number of times and in any processes that  *)
(* follow one another, leaves file and API in step (main.go 241-273,        *)
(* registration.go 187-400 and 469-560).                                    *)
THEOREM FileAndApiInStep == Spec => []InStep
<1>1. Init => SettledInv
  <2> SUFFICES ASSUME Init PROVE SettledInv OBVIOUS
  <2>1. \A p \in Procs : proc[p].pc = "idle" BY IdleType DEF Init
  <2>2. (file.id # None => file.id \in live) /\ file.st # "torn" BY DEF Init, Absent
  <2> QED BY <2>1, <2>2 DEF SettledInv, Registering
<1>2. Inv /\ SettledInv => InStep
  <2> SUFFICES ASSUME Inv, SettledInv, faults = {} PROVE InStep BY DEF InStep
  <2>1. \A a \in live : Reachable(a) BY DEF Inv, StrandInv
  <2>2. None \notin live BY NilAssumption DEF Inv, TypeOK
  <2>3. ASSUME NEW p \in Procs, Administers(p), proc[p].id \in live PROVE file.id \in {None, proc[p].id}
    <3>1. proc[p].pc \in {"patch", "build", "truncate", "write", "delCall", "remove"}
      BY <2>2, <2>3 DEF Administers, Inv, TypeOK, Proc, IdInv
    <3> QED BY <3>1, FileType DEF Inv, SerialInv
  <2>4. ASSUME NEW a \in live, NEW b \in live PROVE a = b
    <3>1. Reachable(a) /\ Reachable(b) BY <2>1
    <3>2. \A p, q \in Procs : Administers(p) /\ Administers(q) => p = q BY DEF Inv, SerialInv
    <3> QED BY <2>2, <2>3, <3>1, <3>2 DEF Reachable
  <2>5. ASSUME \A p \in Procs : ~Administers(p)
        PROVE  file.st # "torn" /\ live = IF file.st = "absent" THEN {} ELSE {file.id}
    <3>1. \A a \in live : a = file.id BY <2>1, <2>5 DEF Reachable
    <3>2. file.st # "torn" BY <2>5 DEF SettledInv, At, Administers
    <3>3. file.id # None => file.id \in live BY <2>5 DEF SettledInv, At, Administers
    <3>4. CASE file.st = "absent" BY <2>2, <3>1, <3>2, <3>4, FileType DEF Inv
    <3>5. CASE file.st # "absent"
      <4>1. file.id \in Accounts BY <3>2, <3>5, FileType DEF Inv
      <4> QED BY <3>1, <3>2, <3>3, <3>5, <4>1, NilAssumption
    <3> QED BY <3>4, <3>5
  <2> QED BY <2>4, <2>5 DEF InStep
<1> QED BY <1>1, <1>2, InitInv, NextInv, NextSettled, PTL DEF Spec
=============================================================================
