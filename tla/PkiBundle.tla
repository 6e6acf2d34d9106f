------------------------------ MODULE PkiBundle ------------------------------
(***************************************************************************)
(* internal/pki: runs of the certificate generator, several at a time, in  *)
(* directories they may share.  A run checks its options, looks for files  *)
(* that are in the way, loads the CA that is to sign, stages its bundle in *)
(* temporary files and publishes them one after the other, by link or,     *)
(* with --force, by rename.  I/O may fail and a run may be killed at every *)
(* point.                                                                  *)
(*                                                                         *)
(* A certificate is [key, issuer, isCA, from, until] and a private key     *)
(* [key]; the key of a run is the run itself.  Times are in days from the  *)
(* moment the model looks at, by which a run's time.Now() is 0, and the    *)
(* five minutes by which NotBefore lies in the past count as one.          *)
(***************************************************************************)
EXTENDS Integers, Sequences, FiniteSets

CONSTANTS
  Nil,
  Runs,         \* invocations of the generator
  Dirs,         \* directories
  Requested,    \* functions from Runs to options, the invocations looked at
  OldKeys,      \* the keys in files from before
  InitialFiles, \* InitialFiles[d][name]: those files
  ValidSANs,    \* DNS names and addresses that validDNS and ParseIP accept
  DefaultDays, DefaultCADays, MaxDays,
  MaxFaults     \* bound: I/O errors and kills in one behaviour

VARIABLES
  opt,     \* opt[r]: the options of the run
  fs,      \* fs[d][name]: the published files, Nil where there is none
  pc, i,   \* where the run is, and at which of its files
  ca, signer, \* what loadCA has read: the certificate, the key
  temps,   \* temps[r]: the temporary files of the run that exist, by their place
  created, \* created[r]: the places of the files it has published
  stuck,   \* history variable: files it could not remove
  faults   \* number of I/O errors and kills so far

loaded == <<opt, ca, signer>>
disk   == <<fs, temps, created, stuck>>
vars   == <<pc, i, loaded, disk, faults>>

FileNames == {"ca.pem", "ca-key.pem", "server-cert.pem", "server-key.pem", "cert.pem", "key.pem"}
Secret(name) == name \in {"ca-key.pem", "server-key.pem", "key.pem"}

Ended == {"refused", "failed", "done", "killed"}
PCs   == {"begin", "check", "loadCert", "loadKey", "stage", "publish", "rollback", "cleanup"} \cup Ended

Keys  == Runs \cup OldKeys
Certs == [key : Keys, issuer : Keys, isCA : BOOLEAN, from : Int, until : Int]
Files == [data : Certs \cup [key : Keys], mode : {"0644", "0600"}, whole : BOOLEAN, by : Runs \cup {Nil}]
Disks == [Dirs -> [FileNames -> Files \cup {Nil}]]
\* The paths --ca-cert and --ca-key are free; of each, its directory is kept.
Options == [kind : STRING, name : STRING, out : Dirs, caCert : Dirs, caKey : Dirs, days : Int,
            sans : SUBSET STRING, force : BOOLEAN]

ASSUME PkiAssumption ==
  /\ Nil \notin Runs /\ Nil \notin Files
  /\ {DefaultDays, DefaultCADays} \subseteq Int
  /\ MaxDays \in Nat /\ MaxFaults \in Nat
  /\ Requested \subseteq [Runs -> Options]
\* A file from before holds what its name says, of whatever mode, or is not whole.
ASSUME FilesAssumption ==
  /\ InitialFiles \in Disks
  /\ \A d \in Dirs, name \in FileNames : InitialFiles[d][name] # Nil =>
       /\ InitialFiles[d][name].by = Nil
       /\ InitialFiles[d][name].data \in IF Secret(name) THEN [key : Keys] ELSE Certs

\* A published file is a file, a loaded CA a certificate, and the cursor stays within the
\* bundle (Generate, writeBundle).
TypeOK ==
  /\ fs \in Disks
  /\ pc \in [Runs -> PCs]
  /\ i \in [Runs -> 1..4]
  /\ ca \in [Runs -> Certs \cup {Nil}]
  /\ signer \in [Runs -> Keys \cup {Nil}]
  /\ DOMAIN temps = Runs
  /\ \A r \in Runs : DOMAIN temps[r] \subseteq 1..3 /\ \A n \in DOMAIN temps[r] : temps[r][n] \in Files
  /\ created \in [Runs -> SUBSET (1..3)]
  /\ stuck \in [Runs -> SUBSET Files]
  /\ faults \in 0..MaxFaults

Init ==
  /\ opt \in Requested
  /\ fs = InitialFiles
  /\ pc = [r \in Runs |-> "begin"]
  /\ i = [r \in Runs |-> 1]
  /\ ca = [r \in Runs |-> Nil]
  /\ signer = [r \in Runs |-> Nil]
  /\ temps = [r \in Runs |-> <<>>]
  /\ created = [r \in Runs |-> {}]
  /\ stuck = [r \in Runs |-> {}]
  /\ faults = 0

-----------------------------------------------------------------------------
(* Options and the bundle *)

Lifetime(o) ==
  IF o.days # 0 THEN o.days ELSE IF o.kind = "ca" THEN DefaultCADays ELSE DefaultDays

\* The checks at the head of Generate.
Acceptable(o) ==
  /\ o.kind \in {"ca", "server", "client"}
  /\ o.name # ""
  /\ Lifetime(o) \in 1..MaxDays
  /\ o.kind = "server" => o.sans # {}
  /\ o.sans \subseteq ValidSANs

\* The names of the bundle in the order of publication.
Names(o) ==
  CASE o.kind = "ca"     -> <<"ca.pem", "ca-key.pem">>
    [] o.kind = "server" -> <<"server-cert.pem", "server-key.pem", "ca.pem">>
    [] o.kind = "client" -> <<"cert.pem", "key.pem", "ca.pem">>

Places(r) == DOMAIN Names(opt[r])

Certificate(r) ==
  [key    |-> r,
   issuer |-> IF opt[r].kind = "ca" THEN r ELSE signer[r],
   isCA   |-> opt[r].kind = "ca",
   from   |-> -1,
   until  |-> Lifetime(opt[r])]

\* The n-th file of the bundle.
Output(r, n) ==
  LET name == Names(opt[r])[n]
  IN  [data  |-> IF Secret(name) THEN [key |-> r] ELSE IF n = 1 THEN Certificate(r) ELSE ca[r],
       mode  |-> IF Secret(name) THEN "0600" ELSE "0644",
       whole |-> TRUE,
       by    |-> r]

At(r, n) == fs[opt[r].out][Names(opt[r])[n]]

Fault == faults < MaxFaults /\ faults' = faults + 1

Go(r, phase) == pc' = [pc EXCEPT ![r] = phase]

\* The first step after the files in the way have been looked for.
AfterCheck(r) == IF opt[r].kind = "ca" THEN "stage" ELSE "loadCert"

Advance(r, phase, next) ==
  IF i[r] = Len(Names(opt[r]))
  THEN Go(r, next) /\ i' = [i EXCEPT ![r] = 1]
  ELSE Go(r, phase) /\ i' = [i EXCEPT ![r] = @ + 1]

-----------------------------------------------------------------------------
(* Generate *)

Begin(r) ==
  /\ pc[r] = "begin"
  /\ Go(r, IF ~Acceptable(opt[r]) THEN "refused" ELSE IF opt[r].force THEN AfterCheck(r) ELSE "check")
  /\ UNCHANGED <<i, disk, loaded, faults>>

\* Lstat of one name.
Check(r) ==
  /\ pc[r] = "check"
  /\ IF At(r, i[r]) # Nil
     THEN Go(r, "failed") /\ UNCHANGED i
     ELSE Advance(r, "check", AfterCheck(r))
  /\ UNCHANGED <<disk, loaded, faults>>

\* Mutated form: the file is kept where its content is meant.
ParseNothing(file) == file

Parse(file) == file.data

\* loadCA reads the certificate.
LoadCert(r) ==
  LET file == fs[opt[r].caCert]["ca.pem"]
  IN  /\ pc[r] = "loadCert"
      /\ IF file # Nil /\ file.whole /\ file.data.isCA
         THEN Go(r, "loadKey") /\ ca' = [ca EXCEPT ![r] = Parse(file)]
         ELSE Go(r, "refused") /\ UNCHANGED ca
      /\ UNCHANGED <<opt, i, disk, signer, faults>>

\* Mutated form: the key is not compared with the certificate.
SignsForAny(cert, file) == file # Nil /\ file.whole

SignsFor(cert, file) == file # Nil /\ file.whole /\ file.data.key = cert.key

\* It reads the key, which may be another CA's, by then or from the start; Generate demands that the
\* lifetime of the new certificate lies within the CA's.
LoadKey(r) ==
  LET file == fs[opt[r].caKey]["ca-key.pem"]
  IN  /\ pc[r] = "loadKey"
      /\ IF SignsFor(ca[r], file) /\ ca[r].from <= 0 /\ Lifetime(opt[r]) <= ca[r].until
         THEN Go(r, "stage") /\ signer' = [signer EXCEPT ![r] = file.data.key]
         ELSE Go(r, "refused") /\ UNCHANGED signer
      /\ UNCHANGED <<opt, i, disk, ca, faults>>

\* Lstat, reading the CA, or generating the key fails.
Fails(r) ==
  /\ pc[r] \in {"check", "loadCert", "loadKey"}
  /\ Fault
  /\ Go(r, "failed")
  /\ UNCHANGED <<i, disk, loaded>>

-----------------------------------------------------------------------------
(* writeBundle *)

\* A temporary file exists beside those there are, whole or not.
AddTemp(r, whole) ==
  temps' = [temps EXCEPT ![r] =
              [n \in DOMAIN @ \cup {i[r]} |-> [Output(r, n) EXCEPT !.whole = n # i[r] \/ whole]]]

\* A temporary file is created, written, given its mode, synced and closed.
Stage(r) ==
  /\ pc[r] = "stage"
  /\ AddTemp(r, TRUE)
  /\ Advance(r, "stage", "publish")
  /\ UNCHANGED <<fs, created, stuck, loaded, faults>>

\* Mutated form: the result of Write is not looked at.
StageErrorIgnored(r) == i[r] \in DOMAIN temps'[r] /\ Advance(r, "stage", "publish")

StageError(r) == Go(r, "cleanup") /\ UNCHANGED i

\* One of these steps fails, with the file there but not as it should be, or not there.
StageFails(r) ==
  /\ pc[r] = "stage"
  /\ Fault
  /\ AddTemp(r, FALSE) \/ UNCHANGED temps
  /\ StageError(r)
  /\ UNCHANGED <<fs, created, stuck, loaded>>

Put(r, file) == fs' = [fs EXCEPT ![opt[r].out][Names(opt[r])[i[r]]] = file]

\* Mutated form: a run gives way to another one whose temporary files it sees.
CanPublishAlone(r) ==
  /\ opt[r].force \/ At(r, i[r]) = Nil
  /\ \A other \in Runs \ {r} : opt[other].out = opt[r].out => temps[other] = <<>>

\* Rename replaces what is there; a link has no effect where there is a file already.
CanPublish(r) == opt[r].force \/ At(r, i[r]) = Nil

\* Mutated forms: nothing is taken back, with or without --force; the file that was in the
\* way counts as published.
AfterFailureKeep(r) == Go(r, "cleanup") /\ i' = [i EXCEPT ![r] = 1] /\ UNCHANGED created
AfterFailureAll(r) ==
  /\ created' = [created EXCEPT ![r] = @ \cup {i[r]}]
  /\ Go(r, IF opt[r].force THEN "cleanup" ELSE "rollback")
  /\ i' = [i EXCEPT ![r] = 1]

\* What follows a failed publication; with --force nothing is taken back.
AfterFailure(r) ==
  /\ Go(r, IF opt[r].force \/ created[r] = {} THEN "cleanup" ELSE "rollback")
  /\ i' = [i EXCEPT ![r] = 1]
  /\ UNCHANGED created

\* One file gets its final name; rename takes the temporary name away.
Publish(r) ==
  /\ pc[r] = "publish"
  /\ IF CanPublish(r)
     THEN /\ Put(r, temps[r][i[r]])
          /\ created' = [created EXCEPT ![r] = @ \cup {i[r]}]
          /\ temps' = IF opt[r].force
                      THEN [temps EXCEPT ![r] = [n \in DOMAIN @ \ {i[r]} |-> @[n]]]
                      ELSE temps
          /\ Advance(r, "publish", "cleanup")
     ELSE AfterFailure(r) /\ UNCHANGED <<fs, temps>>
  /\ UNCHANGED <<stuck, loaded, faults>>

PublishFails(r) ==
  /\ pc[r] = "publish"
  /\ Fault
  /\ AfterFailure(r)
  /\ UNCHANGED <<fs, temps, stuck, loaded>>

\* Remove of one published name, whatever file it now is; an error is ignored.
RollBack(r) ==
  /\ pc[r] = "rollback"
  /\ \/ Put(r, Nil) /\ UNCHANGED <<stuck, faults>>
     \/ Fault /\ stuck' = [stuck EXCEPT ![r] = @ \cup {At(r, i[r])}] /\ UNCHANGED fs
  /\ IF i[r] = Cardinality(created[r])
     THEN Go(r, "cleanup") /\ i' = [i EXCEPT ![r] = 1]
     ELSE i' = [i EXCEPT ![r] = @ + 1] /\ UNCHANGED pc
  /\ UNCHANGED <<temps, created, loaded>>

\* The deferred removal of the temporary files, with errors ignored; nobody else knows
\* their names.  The run has succeeded if everything is published.
Cleanup(r) ==
  /\ pc[r] = "cleanup"
  /\ Go(r, IF created[r] = Places(r) THEN "done" ELSE "failed")
  /\ \/ temps' = [temps EXCEPT ![r] = <<>>] /\ UNCHANGED <<stuck, faults>>
     \/ /\ Fault
        /\ stuck' = [stuck EXCEPT ![r] = @ \cup {temps[r][n] : n \in DOMAIN temps[r]}]
        /\ UNCHANGED temps
  /\ UNCHANGED <<fs, i, created, loaded>>

\* The process is killed: no deferred call runs.
Kill(r) ==
  /\ pc[r] \notin Ended
  /\ Fault
  /\ Go(r, "killed")
  /\ UNCHANGED <<i, disk, loaded>>

Step(r) ==
  \/ Begin(r) \/ Check(r) \/ LoadCert(r) \/ LoadKey(r) \/ Fails(r) \/ Stage(r) \/ StageFails(r)
  \/ Publish(r) \/ PublishFails(r) \/ RollBack(r) \/ Cleanup(r)

Next == \E r \in Runs : Step(r) \/ Kill(r)

Spec == Init /\ [][Next]_vars

-----------------------------------------------------------------------------

Published(d) == {fs[d][name] : name \in FileNames} \ {Nil}

\* No run with --force writes into the directory.  docs/certificates.md says that such a run is
\* no transaction: it replaces files of others, and its own files may fall to the roll-back of
\* another run, which goes by name.
Unforced(d) == \A r \in Runs : opt[r].out = d => ~opt[r].force

\* Whatever fails and whoever is killed, with and without --force: under its final name a
\* file of a run is complete, and a private key readable by its owner only (writeBundle
\* stages, sets the mode and syncs before it publishes).
PublishedWhole ==
  \A d \in Dirs, name \in FileNames : fs[d][name] # Nil /\ fs[d][name].by # Nil =>
    /\ fs[d][name].whole
    /\ fs[d][name].mode = IF Secret(name) THEN "0600" ELSE "0644"

\* Among runs without --force, none replaces or removes a file it did not put there, although
\* the files may appear after its Lstat and its roll-back goes by name (writeBundle).  It is
\* not so where a run with --force writes too: if that run has renamed its file over one that
\* is then rolled back, the roll-back removes it; such directories are left out (Unforced).
OthersPreserved ==
  [][\A d \in Dirs, name \in FileNames :
       Unforced(d) /\ fs[d][name] # Nil /\ fs'[d][name] # fs[d][name] =>
         /\ fs'[d][name] = Nil
         /\ fs[d][name].by # Nil
         /\ pc[fs[d][name].by] = "rollback"]_vars

\* A run that fails leaves nothing behind but what it could not remove: no part of its
\* bundle, no temporary file (the roll-back and the deferred removal in writeBundle).
FailureLeavesNothing ==
  \A r \in Runs : pc[r] = "failed" =>
    /\ {temps[r][n] : n \in DOMAIN temps[r]} \subseteq stuck[r]
    /\ ~opt[r].force => {file \in Published(opt[r].out) : file.by = r} \subseteq stuck[r]

\* The bundle of a run that has succeeded is there as a whole, is of one piece, and its
\* certificate is signed by the CA beside it, which is valid by then and for as long, even
\* if the CA was replaced while loadCA was reading it (loadCA, Generate).  Directories that a
\* run with --force writes into are left out (Unforced): it may replace a bundle in part; the
\* directory of the CA may well be one of them.
BundleVerifies ==
  \A r \in Runs : pc[r] = "done" /\ Unforced(opt[r].out) =>
    LET own   == At(r, 1).data
        chain == IF opt[r].kind = "ca" THEN own ELSE At(r, 3).data
    IN  /\ \A n \in Places(r) : At(r, n) # Nil /\ At(r, n).by = r
        /\ own.key = At(r, 2).data.key
        /\ chain.isCA /\ own.issuer = chain.key
        /\ chain.from <= 0 /\ own.until <= chain.until

\* Runs that compete for a directory do not all give way: of those that had only each other
\* in the way, one succeeds.  The order of publication sees to that: who has ca.pem has
\* everything that others may also want (the list of files in Generate).  Without faults;
\* directories that a run with --force writes into are left out (Unforced), as that run is
\* in nobody's way and succeeds.
SomeRunSucceeds ==
  \A d \in Dirs :
    LET here == {r \in Runs : opt[r].out = d /\ pc[r] # "refused"}
    IN  /\ here # {} /\ \A r \in here : pc[r] \in Ended
        /\ Unforced(d) /\ faults = 0
        /\ \A name \in FileNames : InitialFiles[d][name] = Nil
        => \E r \in here : pc[r] = "done"
=============================================================================
