---------------------------- MODULE Registration ----------------------------
(***************************************************************************)
(* The registration of a device: the accounts at the WARP API, the file    *)
(* reg.json, and the commands that change them (registration/              *)
(* registration.go and the first part of main.go):                         *)
(*                                                                         *)
(*   warp -reg   Load, then Register (POST /reg, PATCH /reg/{id}), Save    *)
(*   warp -del   DeleteRegistration: read id and token, DELETE, remove     *)
(*   warp        Load, then serve                                          *)
(*                                                                         *)
(* Commands run in processes of Procs, also side by side; a process may be *)
(* killed at any point, a call may fail at the API or lose its answer on   *)
(* the way back, and a write may fail half way.  A file is "absent",       *)
(* "torn" (not JSON: truncated, half written, or two writes mixed), "odd"  *)
(* (JSON with id and token, key material this build cannot decode) or      *)
(* "good".                                                                 *)
(***************************************************************************)
CONSTANTS
  Procs,     \* processes
  Accounts,  \* identities of accounts; bounds how many are ever created
  None       \* no account

ASSUME NilAssumption == None \notin Accounts

VARIABLES
  live,      \* accounts that exist at the API
  made,      \* accounts ever created
  enrolled,  \* accounts whose MASQUE key the API has taken
  file,      \* reg.json
  proc,      \* the processes: program counter and the account in memory
  faults     \* what has gone wrong so far: "api", "disk", "kill", "overlap"

vars == <<live, made, enrolled, file, proc, faults>>

File == [st : {"absent", "torn"}, id : {None}] \cup [st : {"odd", "good"}, id : Accounts]

Absent == [st |-> "absent", id |-> None]
Torn   == [st |-> "torn", id |-> None]
Good(a) == [st |-> "good", id |-> a]

Proc == [pc : {"idle", "regLoad", "post", "patch", "build", "truncate", "write",
               "delRead", "delCall", "remove", "load", "serve"},
         id : Accounts \cup {None},
         linked : BOOLEAN]  \* the file it has open for writing is still reg.json

Idle == [pc |-> "idle", id |-> None, linked |-> FALSE]

At(p, label) == proc[p].pc = label
Become(p, r) == proc' = [proc EXCEPT ![p] = r]
Goto(p, label) == proc' = [proc EXCEPT ![p].pc = label]
Exit(p) == Become(p, Idle)

Fault(kind) == faults' = faults \cup {kind}

(* The file as an earlier run left it, perhaps one of an older build. *)
Init ==
  /\ proc = [p \in Procs |-> Idle] /\ faults = {}
  /\ \/ file = Absent /\ live = {}
     \/ \E a \in Accounts, st \in {"odd", "good"} : file = [st |-> st, id |-> a] /\ live = {a}
  /\ made = live /\ enrolled = live

-----------------------------------------------------------------------------
(* Starting and killing processes.                                          *)

Administers(p) == proc[p].pc \notin {"idle", "load", "serve"}

(* Two administrative commands side by side are a fault of whoever runs     *)
(* them: nothing in the code locks reg.json.                                *)
Run(p, label) ==
  /\ At(p, "idle")
  /\ Goto(p, label)
  /\ IF label # "load" /\ \E q \in Procs : Administers(q) THEN Fault("overlap") ELSE UNCHANGED faults
  /\ UNCHANGED <<live, made, enrolled, file>>

Kill(p) ==
  /\ ~At(p, "idle")
  /\ Exit(p)
  /\ IF Administers(p) THEN Fault("kill") ELSE UNCHANGED faults
  /\ UNCHANGED <<live, made, enrolled, file>>

-----------------------------------------------------------------------------
(* warp -reg.                                                               *)

(* An existing registration is reported, an unreadable one refused; only    *)
(* fs.ErrNotExist goes on to register.                                      *)
MayRegister_Unreadable == file.st # "good"
MayRegister == file.st = "absent"

RegLoad(p) ==
  /\ At(p, "regLoad")
  /\ IF MayRegister THEN Goto(p, "post") ELSE Exit(p)
  /\ UNCHANGED <<live, made, enrolled, file, faults>>

(* POST /reg: answered; or created and the answer lost, not 200 or not      *)
(* readable; or not created.                                                *)
Post(p) ==
  /\ At(p, "post")
  /\ \/ \E a \in Accounts \ made :
          /\ live' = live \cup {a} /\ made' = made \cup {a}
          /\ \/ Become(p, [Idle EXCEPT !.pc = "patch", !.id = a]) /\ UNCHANGED faults
             \/ Exit(p) /\ Fault("api")
     \/ Exit(p) /\ UNCHANGED <<live, made, faults>>
  /\ UNCHANGED <<enrolled, file>>

(* PATCH /reg/{id}, likewise.  Nothing undoes the POST when it fails. *)
Patch_BestEffort(p) ==
  /\ At(p, "patch")
  /\ enrolled' \in {enrolled, enrolled \cup {proc[p].id}}
  /\ Goto(p, "build") /\ UNCHANGED <<live, made, file, faults>>
Patch(p) ==
  /\ At(p, "patch")
  /\ \/ enrolled' = enrolled \cup {proc[p].id} /\ Goto(p, "build") /\ UNCHANGED faults
     \/ enrolled' \in {enrolled, enrolled \cup {proc[p].id}} /\ Exit(p) /\ Fault("api")
  /\ UNCHANGED <<live, made, file>>

(* Keys, endpoint and certificate are put together; the key of the edge may *)
(* not parse.                                                               *)
Build(p) ==
  /\ At(p, "build")
  /\ \/ Goto(p, "truncate") /\ UNCHANGED faults
     \/ Exit(p) /\ Fault("api")
  /\ UNCHANGED <<live, made, enrolled, file>>

(* Save: os.WriteFile opens with O_TRUNC, then writes. *)
Truncate(p) ==
  /\ At(p, "truncate")
  /\ \/ file' = Torn /\ UNCHANGED faults
        /\ Become(p, [proc[p] EXCEPT !.pc = "write", !.linked = TRUE])
     \/ Exit(p) /\ Fault("disk") /\ UNCHANGED file
  /\ UNCHANGED <<live, made, enrolled>>

(* The write fails half way, or succeeds: over what another process has     *)
(* written meanwhile the end of the longer text may stay behind, and after  *)
(* a Remove it reaches nothing.                                             *)
Write(p) ==
  /\ At(p, "write")
  /\ Exit(p)
  /\ \/ ~proc[p].linked /\ UNCHANGED <<file, faults>>
     \/ /\ proc[p].linked
        /\ file' \in {Good(proc[p].id)} \cup (IF "overlap" \in faults THEN {Torn} ELSE {})
        /\ UNCHANGED faults
     \/ proc[p].linked /\ file' = Torn /\ Fault("disk")
  /\ UNCHANGED <<live, made, enrolled>>

-----------------------------------------------------------------------------
(* warp -del.                                                               *)

(* id and token are all that is needed; a file without them is refused. *)
DelRead_NeedsKey(p) ==
  /\ At(p, "delRead")
  /\ IF file.st = "good" THEN Become(p, [Idle EXCEPT !.pc = "delCall", !.id = file.id]) ELSE Exit(p)
  /\ UNCHANGED <<live, made, enrolled, file, faults>>
DelRead(p) ==
  /\ At(p, "delRead")
  /\ IF file.st \in {"odd", "good"} THEN Become(p, [Idle EXCEPT !.pc = "delCall", !.id = file.id]) ELSE Exit(p)
  /\ UNCHANGED <<live, made, enrolled, file, faults>>

(* DELETE /reg/{id}.  Its error is logged and nothing more. *)
DelCall_Skipped(p) ==
  /\ At(p, "delCall")
  /\ Goto(p, "remove")
  /\ UNCHANGED <<live, made, enrolled, file, faults>>
DelCall(p) ==
  /\ At(p, "delCall")
  /\ Goto(p, "remove")
  /\ \/ live' = live \ {proc[p].id} /\ UNCHANGED faults
     \/ Fault("api") /\ UNCHANGED live
  /\ UNCHANGED <<made, enrolled, file>>

(* os.Remove, of whatever is there by now. *)
Remove(p) ==
  /\ At(p, "remove")
  /\ \/ /\ file' = Absent /\ UNCHANGED faults
        /\ proc' = [q \in Procs |-> IF q = p THEN Idle ELSE [proc[q] EXCEPT !.linked = FALSE]]
     \/ Exit(p) /\ Fault("disk") /\ UNCHANGED file
  /\ UNCHANGED <<live, made, enrolled>>

-----------------------------------------------------------------------------
(* warp: starting never registers. *)
Load(p) ==
  /\ At(p, "load")
  /\ IF file.st = "good" THEN Become(p, [Idle EXCEPT !.pc = "serve", !.id = file.id]) ELSE Exit(p)
  /\ UNCHANGED <<live, made, enrolled, file, faults>>

Step(p) == \/ RegLoad(p) \/ Post(p) \/ Patch(p) \/ Build(p) \/ Truncate(p) \/ Write(p)
           \/ DelRead(p) \/ DelCall(p) \/ Remove(p) \/ Load(p)

Next ==
  \E p \in Procs :
    \/ Run(p, "regLoad") \/ Run(p, "delRead") \/ Run(p, "load")
    \/ Kill(p) \/ Step(p)

Spec == Init /\ [][Next]_vars

(* Every call has a timeout of 30 s, so a command that is not killed ends;  *)
(* nobody need run one, and a proxy serves as long as it likes.             *)
FairSpec == Spec /\ \A p \in Procs : WF_vars(Step(p))

-----------------------------------------------------------------------------
(* Properties.                                                              *)

TypeOK ==
  /\ live \subseteq made /\ made \subseteq Accounts /\ enrolled \subseteq made
  /\ file \in File /\ proc \in [Procs -> Proc]
  /\ faults \subseteq {"api", "disk", "kill", "overlap"}

(* A file that Load accepts, and a proxy that has started from one, name an *)
(* account that has been through both steps of Register: no kill, lost      *)
(* answer or second process leaves a half-registered device to start from.  *)
SavedIsEnrolled ==
  /\ file.st = "good" => file.id \in enrolled
  /\ \A p \in Procs : At(p, "serve") => proc[p].id \in enrolled

(* Somebody can still delete account a: reg.json names it, or a command     *)
(* that is running has its id and token.                                    *)
Reachable(a) == file.id = a \/ \E p \in Procs : Administers(p) /\ proc[p].id = a

(* An account "with no local credential left to delete it" (main.go 253)    *)
(* takes a fault: a call that failed, a full disk, a kill, or two commands  *)
(* at once.  Commands that simply follow one another strand nothing.        *)
StrandedByFaultOnly == faults = {} => \A a \in live : Reachable(a)

(* "an existing registration is left alone" (main.go 251): only -del takes  *)
(* a registration out of reg.json that still has its id and token, readable *)
(* to this build or not, whatever fails; two commands at once excepted,     *)
(* since -reg looks (line 254) long before it writes (line 268).            *)
RegNeverReplaces ==
  [][file.st \in {"odd", "good"} /\ file' # file => file' = Absent \/ "overlap" \in faults]_vars

(* "a file whose key material this build can no longer parse must still be  *)
(* removable" (registration.go 500): -del ends with the file gone and the   *)
(* account deleted, if nothing fails.                                       *)
DelWorks ==
  \A p \in Procs, a \in Accounts :
    (At(p, "delRead") /\ file.st # "absent" /\ file.id = a)
      ~> ((file.id # a /\ a \notin live) \/ faults # {})
=============================================================================
