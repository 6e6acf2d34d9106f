------------------------------ MODULE PkiProofs ------------------------------
(***************************************************************************)
(* Proofs about PkiBundle for any number of runs and directories, any      *)
(* options, and any number of I/O errors and kills.                        *)
(***************************************************************************)
EXTENDS PkiBundle, FiniteSetTheorems, TLAPS

-----------------------------------------------------------------------------
(* The inductive invariant *)

Started   == {"check", "loadCert", "loadKey", "stage", "publish", "rollback", "cleanup", "done", "failed"}
Unstaged  == {"begin", "check", "loadCert", "loadKey", "refused"}
Staging   == {"stage", "publish", "rollback", "cleanup", "done"}

\* The CA that run r has loaded is one, with its own key, and outlives the certificate.
Signed(r) ==
  /\ ca[r] \in Certs /\ ca[r].isCA
  /\ signer[r] = ca[r].key
  /\ ca[r].from <= 0 /\ Lifetime(opt[r]) <= ca[r].until

\* Where a run is, with what in its hands.
AtWork(r) ==
  /\ pc[r] \in Started => Acceptable(opt[r])
  /\ created[r] # {} => Acceptable(opt[r])
  /\ pc[r] \in {"begin", "loadCert", "loadKey"} => i[r] = 1
  /\ pc[r] \in {"check", "stage", "publish"} => i[r] \in Places(r)
  /\ pc[r] \in {"loadCert", "loadKey"} => opt[r].kind # "ca"
  /\ pc[r] = "loadKey" => ca[r] \in Certs /\ ca[r].isCA
  /\ pc[r] \in Staging \/ created[r] # {} => opt[r].kind = "ca" \/ Signed(r)

\* The temporary files are the files of the bundle while the run stages and publishes,
\* and there are none before.
Staged(r) ==
  /\ pc[r] \in Unstaged => DOMAIN temps[r] = {}
  /\ pc[r] \in {"stage", "publish"} => \A n \in DOMAIN temps[r] : temps[r][n] = Output(r, n)
  /\ pc[r] = "stage" => DOMAIN temps[r] = 1..(i[r] - 1)
  /\ pc[r] = "publish" => \A n \in Places(r) : n >= i[r] => n \in DOMAIN temps[r]

\* A run publishes in order, and takes back what it has published before it failed.
Ordered(r) ==
  /\ pc[r] \in Unstaged \cup {"stage"} => created[r] = {}
  /\ pc[r] = "publish" => created[r] = 1..(i[r] - 1)
  /\ pc[r] = "rollback" =>
       /\ ~opt[r].force
       /\ \E m \in 1..2 : created[r] = 1..m /\ i[r] <= m /\ m < Len(Names(opt[r]))
  /\ pc[r] = "done" => created[r] = Places(r)
  /\ created[r] \subseteq Places(r)

RunInv == \A r \in Runs : AtWork(r) /\ Staged(r) /\ Ordered(r)

\* The file is the one of run r's bundle that goes by this name.
Own(d, name, r) ==
  /\ d = opt[r].out
  /\ \E n \in created[r] : name = Names(opt[r])[n] /\ fs[d][name] = Output(r, n)

\* A file is of the run that it says it is of, and holds what its name says.
OwnInv ==
  \A d \in Dirs, name \in FileNames : fs[d][name] # Nil =>
    /\ fs[d][name].data \in IF Secret(name) THEN [key : Keys] ELSE Certs
    /\ fs[d][name].by # Nil => \E r \in Runs : fs[d][name].by = r /\ Own(d, name, r)

\* The places of the files that a run without --force has published and not taken back.
Holds(r) ==
  IF opt[r].force THEN {}
  ELSE IF pc[r] \in {"publish", "done"} \/ (pc[r] = "cleanup" /\ created[r] = Places(r)) THEN created[r]
  ELSE IF pc[r] = "rollback" THEN {n \in created[r] : n >= i[r]}
  ELSE {}

\* At such a place there is a file, the run's own if nobody uses --force there, and no
\* other run believes so too: a roll-back, which goes by name, meets no stranger.
HeldInv ==
  \A r \in Runs : \A n \in Holds(r) :
    /\ At(r, n) # Nil
    /\ Unforced(opt[r].out) => At(r, n) = Output(r, n)
    /\ \A q \in Runs \ {r} : \A m \in Holds(q) :
         ~(opt[q].out = opt[r].out /\ Names(opt[q])[m] = Names(opt[r])[n])

\* What is left of the run's files in its directory could not be removed.
Cleared(r) ==
  \A name \in FileNames :
    fs[opt[r].out][name] # Nil /\ fs[opt[r].out][name].by = r => fs[opt[r].out][name] \in stuck[r]

\* A run that has not published everything takes back what it has.
Left(r) ==
  /\ pc[r] = "rollback" =>
       \A n \in created[r] : n < i[r] /\ At(r, n) # Nil /\ At(r, n).by = r => At(r, n) \in stuck[r]
  /\ ~opt[r].force /\ (pc[r] = "failed" \/ (pc[r] = "cleanup" /\ created[r] # Places(r))) => Cleared(r)
  /\ pc[r] = "failed" => {temps[r][n] : n \in DOMAIN temps[r]} \subseteq stuck[r]

LeftInv == \A r \in Runs : Left(r)

OptInv == opt \in Requested

IInv == TypeOK /\ OptInv /\ RunInv /\ OwnInv /\ HeldInv /\ LeftInv

-----------------------------------------------------------------------------
(* Names, options and files *)

\* The bundles that Generate writes: the certificate first, then its key, then the CA's.
LEMMA NamesOf ==
  ASSUME NEW o, Acceptable(o)
  PROVE  /\ Len(Names(o)) = IF o.kind = "ca" THEN 2 ELSE 3
         /\ DOMAIN Names(o) = 1..Len(Names(o))
         /\ \A n \in DOMAIN Names(o) : Names(o)[n] \in FileNames
         /\ \A m, n \in DOMAIN Names(o) : Names(o)[m] = Names(o)[n] => m = n
         /\ ~Secret(Names(o)[1]) /\ Secret(Names(o)[2])
         /\ o.kind # "ca" => ~Secret(Names(o)[3])
  <1>1. CASE o.kind = "ca"
    <2>1. Names(o) = <<"ca.pem", "ca-key.pem">>
      BY <1>1 DEF Names
    <2>2. QED
      BY <1>1, <2>1 DEF Secret, FileNames
  <1>2. CASE o.kind = "server"
    <2>1. Names(o) = <<"server-cert.pem", "server-key.pem", "ca.pem">>
      BY <1>2 DEF Names
    <2>2. QED
      BY <1>2, <2>1 DEF Secret, FileNames
  <1>3. CASE o.kind = "client"
    <2>1. Names(o) = <<"cert.pem", "key.pem", "ca.pem">>
      BY <1>3 DEF Names
    <2>2. QED
      BY <1>3, <2>1 DEF Secret, FileNames
  <1>4. QED
    BY <1>1, <1>2, <1>3 DEF Acceptable

\* The places of an accepted run are two or three.
LEMMA PlacesOf ==
  ASSUME NEW r \in Runs, Acceptable(opt[r])
  PROVE  /\ Places(r) \in {1..2, 1..3}
         /\ Places(r) = 1..Len(Names(opt[r]))
         /\ Len(Names(opt[r])) \in {2, 3}
         /\ 1 \in Places(r) /\ 2 \in Places(r)
         /\ opt[r].kind # "ca" <=> 3 \in Places(r)
  <1>1. Len(Names(opt[r])) = (IF opt[r].kind = "ca" THEN 2 ELSE 3) /\ Places(r) = 1..Len(Names(opt[r]))
    BY NamesOf DEF Places
  <1>2. CASE opt[r].kind = "ca"
    BY <1>1, <1>2
  <1>3. CASE opt[r].kind # "ca"
    BY <1>1, <1>3
  <1>4. QED
    BY <1>2, <1>3

\* What the options of a run are.
LEMMA OptionTypes ==
  ASSUME OptInv, NEW r \in Runs
  PROVE  opt[r] \in Options /\ opt[r].out \in Dirs /\ opt[r].caCert \in Dirs /\ opt[r].force \in BOOLEAN
  <1>1. opt \in [Runs -> Options]
    BY PkiAssumption DEF OptInv
  <1>2. opt[r] \in Options
    BY <1>1
  <1>3. QED
    BY <1>2 DEF Options

\* The files of the bundle of a run that has its CA.
LEMMA OutputType ==
  ASSUME OptInv, NEW r \in Runs, Acceptable(opt[r]), opt[r].kind = "ca" \/ Signed(r), NEW n \in Places(r)
  PROVE  /\ Output(r, n) \in Files
         /\ Output(r, n).by = r /\ Output(r, n).whole = TRUE
         /\ Output(r, n).mode = IF Secret(Names(opt[r])[n]) THEN "0600" ELSE "0644"
         /\ Output(r, n).data \in IF Secret(Names(opt[r])[n]) THEN [key : Keys] ELSE Certs
  <1> DEFINE name == Names(opt[r])[n]
  <1>1. Lifetime(opt[r]) \in Int
    <2>1. Lifetime(opt[r]) \in 1..MaxDays
      BY DEF Acceptable
    <2>2. QED
      BY <2>1, PkiAssumption
  <1>2. r \in Keys
    BY DEF Keys
  <1>3. opt[r].kind # "ca" => ca[r] \in Certs /\ signer[r] \in Keys
    BY DEF Signed, Certs
  <1>4. Certificate(r) \in Certs
    BY <1>1, <1>2, <1>3 DEF Certificate, Certs
  <1>5. ~Secret(name) => n = 1 \/ (n = 3 /\ opt[r].kind # "ca")
    <2>1. n \in {1, 2, 3} /\ (n = 3 => opt[r].kind # "ca")
      BY PlacesOf
    <2>2. QED
      BY <2>1, NamesOf
  <1> HIDE DEF name
  <1> DEFINE data == IF Secret(name) THEN [key |-> r] ELSE IF n = 1 THEN Certificate(r) ELSE ca[r]
             mode == IF Secret(name) THEN "0600" ELSE "0644"
  <1>6. data \in IF Secret(name) THEN [key : Keys] ELSE Certs
    BY <1>2, <1>3, <1>4, <1>5
  <1>7. mode \in {"0644", "0600"}
    OBVIOUS
  <1>8. Output(r, n) = [data |-> data, mode |-> mode, whole |-> TRUE, by |-> r]
    BY DEF Output, name
  <1>9. data \in Certs \cup [key : Keys]
    BY <1>6
  <1> HIDE DEF data
  <1>10. Output(r, n).mode = mode
    BY <1>8
  <1> HIDE DEF mode
  <1>11. Output(r, n) \in Files /\ Output(r, n).by = r /\ Output(r, n).whole = TRUE /\ Output(r, n).data = data
    BY <1>7, <1>8, <1>9 DEF Files
  <1>12. QED
    BY <1>6, <1>10, <1>11 DEF name, mode

-----------------------------------------------------------------------------
(* What a step of one run leaves alone *)

\* Only run r moves.
Frame(r) ==
  /\ opt' = opt
  /\ \A q \in Runs \ {r} :
       /\ pc'[q] = pc[q] /\ i'[q] = i[q] /\ ca'[q] = ca[q] /\ signer'[q] = signer[q]
       /\ temps'[q] = temps[q] /\ created'[q] = created[q] /\ stuck'[q] = stuck[q]

\* A run that does not move keeps its bundle and what it holds.
LEMMA Unmoved ==
  ASSUME NEW r, Frame(r), NEW q \in Runs \ {r}
  PROVE  /\ AtWork(q)' <=> AtWork(q)
         /\ Staged(q)' <=> Staged(q)
         /\ Ordered(q)' <=> Ordered(q)
         /\ Holds(q)' = Holds(q) /\ Places(q)' = Places(q)
         /\ \A n : Output(q, n)' = Output(q, n)
  <1> USE DEF Frame
  <1>1. \A n : Output(q, n)' = Output(q, n)
    BY DEF Output, Certificate
  <1>2. Places(q)' = Places(q)
    BY DEF Places
  <1>3. AtWork(q)' <=> AtWork(q)
    BY <1>2 DEF AtWork, Signed
  <1>4. Staged(q)' <=> Staged(q)
    BY <1>1, <1>2 DEF Staged
  <1>5. Ordered(q)' <=> Ordered(q)
    BY <1>2 DEF Ordered
  <1>6. Holds(q)' = Holds(q)
    BY <1>2 DEF Holds
  <1>7. QED
    BY <1>1, <1>2, <1>3, <1>4, <1>5, <1>6

\* The runs' own part of the invariant is a matter of the run that moves.
LEMMA RunStep ==
  ASSUME RunInv, NEW r \in Runs, Frame(r), AtWork(r)', Staged(r)', Ordered(r)'
  PROVE  RunInv'
  <1> SUFFICES ASSUME NEW q \in Runs PROVE AtWork(q)' /\ Staged(q)' /\ Ordered(q)'
    BY DEF RunInv
  <1>1. CASE q = r
    BY <1>1
  <1>2. CASE q # r
    BY <1>2, Unmoved DEF RunInv
  <1>3. QED
    BY <1>1, <1>2

\* The files stay whose they are when a run adds a file of its bundle, or takes one away.
LEMMA OwnStep ==
  ASSUME OwnInv, NEW r \in Runs, Frame(r), created[r] \subseteq created'[r],
         created[r] # {} => ca'[r] = ca[r] /\ signer'[r] = signer[r],
         \A d \in Dirs, name \in FileNames :
           \/ fs'[d][name] = fs[d][name]
           \/ fs'[d][name] = Nil
           \/ /\ fs'[d][name].data \in IF Secret(name) THEN [key : Keys] ELSE Certs
              /\ fs'[d][name].by = r /\ Own(d, name, r)'
  PROVE  OwnInv'
  <1> SUFFICES ASSUME NEW d \in Dirs, NEW name \in FileNames, fs'[d][name] # Nil
               PROVE  /\ fs'[d][name].data \in IF Secret(name) THEN [key : Keys] ELSE Certs
                      /\ fs'[d][name].by # Nil => \E q \in Runs : fs'[d][name].by = q /\ Own(d, name, q)'
    BY DEF OwnInv
  <1>1. CASE fs'[d][name] = fs[d][name]
    <2>1. fs[d][name].data \in IF Secret(name) THEN [key : Keys] ELSE Certs
      BY <1>1 DEF OwnInv
    <2>2. ASSUME NEW q \in Runs, Own(d, name, q) PROVE Own(d, name, q)'
      <3>1. PICK n \in created[q] : d = opt[q].out /\ name = Names(opt[q])[n] /\ fs[d][name] = Output(q, n)
        BY <2>2 DEF Own
      <3>2. Output(q, n)' = Output(q, n) /\ n \in created'[q]
        <4>1. CASE q = r
          BY <3>1, <4>1 DEF Output, Certificate, Frame
        <4>2. CASE q # r
          <5>1. q \in Runs \ {r}
            BY <4>2
          <5>2. Output(q, n)' = Output(q, n)
            BY <5>1, Unmoved
          <5>3. QED
            BY <3>1, <5>1, <5>2 DEF Frame
        <4>3. QED
          BY <4>1, <4>2
      <3>3. d = opt'[q].out /\ name = Names(opt'[q])[n] /\ fs'[d][name] = Output(q, n)'
        BY <1>1, <3>1, <3>2 DEF Frame
      <3>4. QED
        BY <3>2, <3>3 DEF Own
    <2>3. QED
      BY <1>1, <2>1, <2>2 DEF OwnInv
  <1>2. CASE fs'[d][name] # fs[d][name]
    BY <1>2
  <1>3. QED
    BY <1>1, <1>2

\* A run that lets go of places, or of none, takes nothing from the others.
LEMMA HeldStep ==
  ASSUME HeldInv, NEW r \in Runs, Frame(r), UNCHANGED fs, Holds(r)' \subseteq Holds(r),
         Holds(r)' # {} => ca'[r] = ca[r] /\ signer'[r] = signer[r]
  PROVE  HeldInv'
  <1>1. \A q \in Runs : Holds(q)' \subseteq Holds(q)
    <2> TAKE q \in Runs
    <2>1. CASE q = r
      BY <2>1
    <2>2. CASE q # r
      BY <2>2, Unmoved
    <2>3. QED
      BY <2>1, <2>2
  <1>2. ASSUME NEW q \in Runs, NEW n \in Holds(q)' PROVE Output(q, n)' = Output(q, n)
    <2>1. CASE q = r
      BY <1>2, <2>1 DEF Output, Certificate, Frame
    <2>2. CASE q # r
      BY <2>2, Unmoved
    <2>3. QED
      BY <2>1, <2>2
  <1>3. opt' = opt
    BY DEF Frame
  <1>4. \A d : Unforced(d)' <=> Unforced(d)
    BY <1>3 DEF Unforced
  <1>5. \A q, n : At(q, n)' = At(q, n)
    BY <1>3 DEF At
  <1> SUFFICES ASSUME NEW q \in Runs, NEW n \in Holds(q)'
               PROVE  /\ At(q, n)' # Nil
                      /\ Unforced(opt[q].out)' => At(q, n)' = Output(q, n)'
                      /\ \A p \in Runs \ {q} : \A m \in Holds(p)' :
                           ~(opt'[p].out = opt'[q].out /\ Names(opt'[p])[m] = Names(opt'[q])[n])
    BY DEF HeldInv
  <1>6. n \in Holds(q)
    BY <1>1
  <1>7. At(q, n)' # Nil /\ (Unforced(opt[q].out)' => At(q, n)' = Output(q, n)')
    BY <1>2, <1>3, <1>4, <1>5, <1>6 DEF HeldInv
  <1>8. \A p \in Runs \ {q} : \A m \in Holds(p)' :
          ~(opt'[p].out = opt'[q].out /\ Names(opt'[p])[m] = Names(opt'[q])[n])
    BY <1>1, <1>3, <1>6 DEF HeldInv
  <1>9. QED
    BY <1>7, <1>8

\* What the places of a published file are.
LEMMA CreatedPlaces ==
  ASSUME OptInv, RunInv, NEW r \in Runs, NEW n \in created[r]
  PROVE  /\ Acceptable(opt[r]) /\ n \in Places(r) /\ n \in {1, 2, 3}
         /\ opt[r].out \in Dirs /\ Names(opt[r])[n] \in FileNames
         /\ opt[r].kind = "ca" \/ Signed(r)
  <1>1. Acceptable(opt[r]) /\ n \in Places(r) /\ (opt[r].kind = "ca" \/ Signed(r))
    BY DEF RunInv, AtWork, Ordered
  <1>2. Names(opt[r])[n] \in FileNames
    BY <1>1, NamesOf DEF Places
  <1>3. n \in {1, 2, 3}
    BY <1>1, PlacesOf
  <1>4. QED
    BY <1>1, <1>2, <1>3, OptionTypes

\* A run that does not move gets no files: those that are there in its name were there.
LEMMA LeftOther ==
  ASSUME OptInv, RunInv, LeftInv, NEW r \in Runs, Frame(r), NEW q \in Runs \ {r},
         \A d \in Dirs, name \in FileNames :
           fs'[d][name] # Nil /\ fs'[d][name].by = q => fs'[d][name] = fs[d][name]
  PROVE  Left(q)'
  <1>1. Left(q) /\ opt' = opt /\ opt[q].out \in Dirs
    BY OptionTypes DEF LeftInv, Frame
  <1>2. /\ pc'[q] = pc[q] /\ i'[q] = i[q] /\ temps'[q] = temps[q] /\ created'[q] = created[q] /\ stuck'[q] = stuck[q]
        /\ Places(q)' = Places(q)
    BY Unmoved DEF Frame
  <1>3. pc'[q] = "rollback" =>
          \A n \in created'[q] : n < i'[q] /\ At(q, n)' # Nil /\ At(q, n)'.by = q => At(q, n)' \in stuck'[q]
    BY <1>1, <1>2, CreatedPlaces DEF Left, At
  <1>4. Cleared(q) => Cleared(q)'
    BY <1>1, <1>2 DEF Cleared
  <1>5. QED
    BY <1>1, <1>2, <1>3, <1>4 DEF Left

\* A run that has published nothing has nothing to take back.
LEMMA NothingPublished ==
  ASSUME OptInv, OwnInv, NEW r \in Runs, created[r] = {}
  PROVE  Cleared(r)
  <1> SUFFICES ASSUME NEW name \in FileNames, fs[opt[r].out][name] # Nil, fs[opt[r].out][name].by = r
               PROVE  FALSE
    BY DEF Cleared
  <1>1. opt[r].out \in Dirs /\ r # Nil
    BY OptionTypes, PkiAssumption
  <1>2. Own(opt[r].out, name, r)
    BY <1>1 DEF OwnInv
  <1>3. QED
    BY <1>2 DEF Own

\* Run r goes to p, with cursor j and CA c, k.
Move(r, p, j, c, k) ==
  /\ p \in PCs /\ pc' = [pc EXCEPT ![r] = p]
  /\ j \in 1..4 /\ i' = [i EXCEPT ![r] = j]
  /\ c \in Certs \cup {Nil} /\ ca' = [ca EXCEPT ![r] = c]
  /\ k \in Keys \cup {Nil} /\ signer' = [signer EXCEPT ![r] = k]
  /\ faults' \in 0..MaxFaults
  /\ UNCHANGED opt

\* Where a move leads to.
LEMMA MoveTo ==
  ASSUME TypeOK, NEW r \in Runs, NEW p, NEW j, NEW c, NEW k, Move(r, p, j, c, k)
  PROVE  /\ pc'[r] = p /\ i'[r] = j /\ ca'[r] = c /\ signer'[r] = k /\ opt' = opt
         /\ Places(r)' = Places(r) /\ \A q : Acceptable(opt[q])' <=> Acceptable(opt[q])
  <1>1. pc'[r] = p /\ i'[r] = j /\ ca'[r] = c /\ signer'[r] = k /\ opt' = opt
    BY DEF Move, TypeOK
  <1>2. QED
    BY <1>1 DEF Places, Acceptable, Lifetime

\* Files that are there after a step of run r: those that were there before, or a new one of
\* its bundle.
Adds(r) ==
  \A d \in Dirs, name \in FileNames :
    \/ fs'[d][name] = fs[d][name]
    \/ fs'[d][name] = Nil
    \/ /\ fs'[d][name].data \in IF Secret(name) THEN [key : Keys] ELSE Certs
       /\ fs'[d][name].by = r /\ Own(d, name, r)'

\* Run r has temporary files t, published places g and unremoved files s.
Has(r, t, g, s) ==
  /\ temps'[r] = t /\ DOMAIN temps' = Runs /\ \A q \in Runs \ {r} : temps'[q] = temps[q]
  /\ DOMAIN t \subseteq 1..3 /\ \A n \in DOMAIN t : t[n] \in Files
  /\ g \in SUBSET (1..3) /\ created' = [created EXCEPT ![r] = g] /\ created[r] \subseteq g
  /\ s \in SUBSET Files /\ stuck' = [stuck EXCEPT ![r] = s] /\ stuck[r] \subseteq s

\* What is to be shown of the step of a run.
LEMMA MoveStep ==
  ASSUME IInv, NEW r \in Runs, NEW p, NEW j, NEW c, NEW k, Move(r, p, j, c, k),
         NEW t, NEW g, NEW s, Has(r, t, g, s),
         created[r] # {} => c = ca[r] /\ k = signer[r],
         fs' \in Disks, Adds(r),
         AtWork(r)', Staged(r)', Ordered(r)', HeldInv', Left(r)'
  PROVE  IInv'
  <1>t. TypeOK /\ OptInv /\ RunInv /\ OwnInv /\ LeftInv
    BY DEF IInv
  <1>a. /\ pc \in [Runs -> PCs] /\ i \in [Runs -> 1..4] /\ ca \in [Runs -> Certs \cup {Nil}]
        /\ signer \in [Runs -> Keys \cup {Nil}] /\ DOMAIN temps = Runs
        /\ created \in [Runs -> SUBSET (1..3)] /\ stuck \in [Runs -> SUBSET Files]
    BY <1>t DEF TypeOK
  <1>f. Frame(r)
    BY <1>a DEF Frame, Move, Has
  <1>r. pc'[r] = p /\ i'[r] = j /\ ca'[r] = c /\ signer'[r] = k /\ created'[r] = g
    BY <1>a DEF Move, Has
  <1>1. TypeOK'
    <2>1. /\ pc' \in [Runs -> PCs] /\ i' \in [Runs -> 1..4] /\ ca' \in [Runs -> Certs \cup {Nil}]
          /\ signer' \in [Runs -> Keys \cup {Nil}] /\ faults' \in 0..MaxFaults
      BY <1>a DEF Move
    <2>2. \A q \in Runs : DOMAIN temps'[q] \subseteq 1..3 /\ \A n \in DOMAIN temps'[q] : temps'[q][n] \in Files
      <3> TAKE q \in Runs
      <3>1. CASE q = r
        BY <3>1 DEF Has
      <3>2. CASE q # r
        BY <1>t, <1>f, <3>2 DEF Frame, TypeOK
      <3>3. QED
        BY <3>1, <3>2
    <2>3. created' \in [Runs -> SUBSET (1..3)] /\ stuck' \in [Runs -> SUBSET Files] /\ DOMAIN temps' = Runs
      BY <1>a DEF Has
    <2>4. QED
      BY <2>1, <2>2, <2>3 DEF TypeOK
  <1>2. OptInv' /\ RunInv'
    BY <1>t, <1>f, RunStep DEF OptInv, Frame
  <1>3. OwnInv'
    BY <1>t, <1>f, <1>r, OwnStep DEF Adds, Has
  <1>4. LeftInv'
    <2> SUFFICES ASSUME NEW q \in Runs PROVE Left(q)'
      BY DEF LeftInv
    <2>1. CASE q # r
      <3>1. \A d \in Dirs, name \in FileNames :
              fs'[d][name] # Nil /\ fs'[d][name].by = q => fs'[d][name] = fs[d][name]
        BY <2>1 DEF Adds
      <3>2. QED
        BY <1>t, <1>f, <2>1, <3>1, LeftOther
    <2>2. CASE q = r
      BY <2>2
    <2>3. QED
      BY <2>1, <2>2
  <1>5. QED
    BY <1>1, <1>2, <1>3, <1>4 DEF IInv

\* A step that neither publishes nor removes a file keeps the invariant if the run has what
\* it needs where it goes.
LEMMA QuietStep ==
  ASSUME IInv, NEW r \in Runs, NEW p, NEW j, NEW c, NEW k, Move(r, p, j, c, k),
         NEW t, NEW s, Has(r, t, created[r], s), UNCHANGED fs,
         created[r] # {} => c = ca[r] /\ k = signer[r],
         AtWork(r)', Staged(r)', Ordered(r)', Left(r)',
         Holds(r)' \subseteq Holds(r)
  PROVE  IInv'
  <1>t. TypeOK /\ HeldInv /\ fs \in Disks
    BY DEF IInv, TypeOK
  <1>f. Frame(r)
    BY <1>t DEF Frame, Move, Has, TypeOK
  <1>1. HeldInv'
    <2>1. Holds(r) # {} => created[r] # {}
      BY DEF Holds
    <2>2. ca'[r] = c /\ signer'[r] = k
      BY <1>t, MoveTo
    <2>3. QED
      BY <1>t, <1>f, <2>1, <2>2, HeldStep
  <1>2. Adds(r)
    BY DEF Adds
  <1> DEFINE g == created[r]
  <1>3. Has(r, t, g, s)
    OBVIOUS
  <1> HIDE DEF g
  <1>4. QED
    BY <1>t, <1>1, <1>2, <1>3, MoveStep

-----------------------------------------------------------------------------
(* The steps of a run *)

\* One more fault is within the bound.
LEMMA FaultStep ==
  ASSUME faults \in 0..MaxFaults, Fault
  PROVE  faults' \in 0..MaxFaults
  <1>1. MaxFaults \in Nat
    BY PkiAssumption
  <1>2. QED
    BY <1>1 DEF Fault

\* The run may be there before it has published anything.
Early(r, p, j, c, k) ==
  /\ p \in Unstaged \cup {"stage", "failed"}
  /\ p \in Started => Acceptable(opt[r])
  /\ p \in {"loadCert", "loadKey", "stage", "begin"} => j = 1
  /\ p = "check" => j \in Places(r)
  /\ p \in {"loadCert", "loadKey"} => opt[r].kind # "ca"
  /\ p = "loadKey" => c \in Certs /\ c.isCA
  /\ p = "stage" => \/ opt[r].kind = "ca"
                    \/ /\ c \in Certs /\ c.isCA /\ k = c.key
                       /\ c.from <= 0 /\ Lifetime(opt[r]) <= c.until

\* A run that keeps its temporary files and knows of no more that it cannot remove.
LEMMA Kept ==
  ASSUME TypeOK, NEW r \in Runs, UNCHANGED <<temps, created, stuck>>
  PROVE  Has(r, temps[r], created[r], stuck[r])
  <1>1. /\ created \in [Runs -> SUBSET (1..3)] /\ stuck \in [Runs -> SUBSET Files] /\ DOMAIN temps = Runs
        /\ DOMAIN temps[r] \subseteq 1..3 /\ \A n \in DOMAIN temps[r] : temps[r][n] \in Files
    BY DEF TypeOK
  <1>2. QED
    BY <1>1 DEF Has

\* A step to a place where the run holds nothing and has nothing to hold.
LEMMA EarlyStep ==
  ASSUME IInv, NEW r \in Runs, created[r] = {}, UNCHANGED <<fs, created, stuck>>,
         DOMAIN temps[r] = {}, UNCHANGED temps,
         NEW p, NEW j, NEW c, NEW k, Move(r, p, j, c, k), Early(r, p, j, c, k)
  PROVE  IInv'
  <1>t. TypeOK /\ OptInv /\ OwnInv
    BY DEF IInv
  <1>h. /\ pc'[r] = p /\ i'[r] = j /\ ca'[r] = c /\ signer'[r] = k /\ opt' = opt
        /\ Places(r)' = Places(r) /\ created'[r] = {} /\ DOMAIN temps'[r] = {}
    BY <1>t, MoveTo
  <1>p. p \in PCs /\ p \notin {"publish", "rollback", "cleanup", "done"}
    BY DEF PCs, Unstaged, Ended, Early
  <1>1. Acceptable(opt[r])' <=> Acceptable(opt[r])
    BY <1>t, MoveTo
  <1>2. p = "stage" => 1 \in Places(r)
    BY PlacesOf DEF Started, Early
  <1>3. AtWork(r)'
    BY <1>h, <1>p, <1>1, <1>2 DEF AtWork, Signed, Staging, Early
  <1>4. Staged(r)'
    <2>1. p = "stage" => 1..(j - 1) = {}
      BY DEF Early
    <2>2. QED
      BY <1>h, <1>p, <2>1 DEF Staged
  <1>5. Ordered(r)'
    BY <1>h, <1>p DEF Ordered
  <1>6. Holds(r)' = {}
    BY <1>h, <1>p DEF Holds
  <1>7. Left(r)'
    <2>1. Cleared(r)' <=> Cleared(r)
      BY <1>h DEF Cleared
    <2>2. Cleared(r)
      BY <1>t, NothingPublished
    <2>3. {temps'[r][n] : n \in DOMAIN temps'[r]} \subseteq stuck'[r]
      BY <1>h
    <2>4. QED
      BY <1>h, <1>p, <2>1, <2>2, <2>3 DEF Left
  <1>8. QED
    BY <1>t, <1>3, <1>4, <1>5, <1>6, <1>7, Kept, QuietStep

\* A run that only moves keeps cursor and CA.
LEMMA MoveOnly ==
  ASSUME TypeOK, NEW r \in Runs, NEW p \in PCs, pc' = [pc EXCEPT ![r] = p], UNCHANGED <<i, opt, ca, signer>>,
         faults' \in 0..MaxFaults
  PROVE  Move(r, p, i[r], ca[r], signer[r])
  BY DEF Move, TypeOK

\* What a run that has not come to its bundle yet has.
LEMMA EarlyState ==
  ASSUME IInv, NEW r \in Runs, pc[r] \in Unstaged
  PROVE  created[r] = {} /\ DOMAIN temps[r] = {}
  BY DEF IInv, RunInv, Ordered, Staged

\* The head of Generate.
LEMMA BeginStep ==
  ASSUME IInv, NEW r \in Runs, Begin(r)
  PROVE  IInv'
  <1>t. TypeOK /\ RunInv /\ faults \in 0..MaxFaults
    BY DEF IInv, TypeOK
  <1>1. created[r] = {} /\ DOMAIN temps[r] = {} /\ i[r] = 1
    BY <1>t, EarlyState DEF Begin, RunInv, AtWork, Unstaged
  <1> DEFINE p == IF ~Acceptable(opt[r]) THEN "refused" ELSE IF opt[r].force THEN AfterCheck(r) ELSE "check"
  <1>2. pc' = [pc EXCEPT ![r] = p] /\ UNCHANGED <<i, fs, temps, created, stuck, opt, ca, signer, faults>>
    BY DEF Begin, Go, disk, loaded
  <1>3. /\ p \in {"refused", "stage", "loadCert", "check"}
        /\ p \in Started => Acceptable(opt[r])
        /\ p = "loadCert" => opt[r].kind # "ca"
        /\ p = "stage" => opt[r].kind = "ca"
    BY DEF AfterCheck, Started
  <1>4. p = "check" => 1 \in Places(r)
    BY <1>3, PlacesOf DEF Started
  <1> HIDE DEF p
  <1>5. Move(r, p, i[r], ca[r], signer[r])
    BY <1>t, <1>2, <1>3, MoveOnly DEF PCs, Ended
  <1>6. Early(r, p, i[r], ca[r], signer[r])
    BY <1>1, <1>3, <1>4 DEF Early, Unstaged
  <1>7. QED
    BY <1>1, <1>2, <1>5, <1>6, EarlyStep

\* The cursor moves on within the bundle, or comes to its end.
LEMMA AdvanceStep ==
  ASSUME NEW r \in Runs, Acceptable(opt[r]), i[r] \in Places(r), NEW phase, NEW next, Advance(r, phase, next)
  PROVE  \/ /\ i[r] = Len(Names(opt[r]))
            /\ pc' = [pc EXCEPT ![r] = next] /\ i' = [i EXCEPT ![r] = 1]
         \/ /\ i[r] < Len(Names(opt[r])) /\ i[r] + 1 \in Places(r) /\ i[r] + 1 \in 1..4
            /\ pc' = [pc EXCEPT ![r] = phase] /\ i' = [i EXCEPT ![r] = i[r] + 1]
  <1>1. Places(r) = 1..Len(Names(opt[r])) /\ Len(Names(opt[r])) \in {2, 3}
    BY PlacesOf
  <1>2. CASE i[r] = Len(Names(opt[r]))
    BY <1>2 DEF Advance, Go
  <1>3. CASE i[r] # Len(Names(opt[r]))
    <2>1. \A n, m : m \in {2, 3} /\ n \in 1..m /\ n # m => n < m /\ n + 1 \in 1..m /\ n + 1 \in 1..4
      OBVIOUS
    <2>2. i[r] < Len(Names(opt[r])) /\ i[r] + 1 \in Places(r) /\ i[r] + 1 \in 1..4
      BY <1>1, <1>3, <2>1
    <2>3. pc' = [pc EXCEPT ![r] = phase] /\ i' = [i EXCEPT ![r] = i[r] + 1]
      BY <1>3 DEF Advance, Go
    <2>4. QED
      BY <2>2, <2>3
  <1>4. QED
    BY <1>2, <1>3

\* The search for files that are in the way.
LEMMA CheckStep ==
  ASSUME IInv, NEW r \in Runs, Check(r)
  PROVE  IInv'
  <1>t. TypeOK /\ RunInv /\ faults \in 0..MaxFaults /\ ca[r] \in Certs \cup {Nil} /\ signer[r] \in Keys \cup {Nil}
        /\ ca = [ca EXCEPT ![r] = ca[r]] /\ signer = [signer EXCEPT ![r] = signer[r]]
    BY DEF IInv, TypeOK
  <1>1. created[r] = {} /\ DOMAIN temps[r] = {} /\ pc[r] = "check"
    BY <1>t, EarlyState DEF Check, Unstaged
  <1>2. Acceptable(opt[r]) /\ i[r] \in Places(r)
    BY <1>t, <1>1 DEF RunInv, AtWork, Started
  <1>3. UNCHANGED <<fs, temps, created, stuck, opt, ca, signer, faults>>
    BY DEF Check, disk, loaded
  <1>4. CASE pc' = [pc EXCEPT ![r] = "failed"] /\ UNCHANGED i
    <2>1. Move(r, "failed", i[r], ca[r], signer[r])
      BY <1>t, <1>3, <1>4, MoveOnly DEF PCs, Ended
    <2>2. Early(r, "failed", i[r], ca[r], signer[r])
      BY <1>2 DEF Early, Unstaged
    <2>3. QED
      BY <1>1, <1>3, <2>1, <2>2, EarlyStep
  <1>5. CASE Advance(r, "check", AfterCheck(r))
    <2>1. CASE pc' = [pc EXCEPT ![r] = AfterCheck(r)] /\ i' = [i EXCEPT ![r] = 1]
      <3> DEFINE p == AfterCheck(r)
      <3>1. p \in {"stage", "loadCert"} /\ (p = "loadCert" => opt[r].kind # "ca") /\ (p = "stage" => opt[r].kind = "ca")
        BY DEF AfterCheck
      <3>2. pc' = [pc EXCEPT ![r] = p]
        BY <2>1
      <3> HIDE DEF p
      <3>3. Move(r, p, 1, ca[r], signer[r])
        <4>1. p \in PCs /\ 1 \in 1..4
          BY <3>1 DEF PCs
        <4>2. QED
          BY <1>t, <1>3, <2>1, <3>2, <4>1 DEF Move
      <3>4. Early(r, p, 1, ca[r], signer[r])
        BY <1>2, <3>1 DEF Early, Unstaged
      <3>5. QED
        BY <1>1, <1>3, <3>3, <3>4, EarlyStep
    <2>2. CASE /\ i[r] + 1 \in Places(r) /\ i[r] + 1 \in 1..4
               /\ pc' = [pc EXCEPT ![r] = "check"] /\ i' = [i EXCEPT ![r] = i[r] + 1]
      <3>1. Move(r, "check", i[r] + 1, ca[r], signer[r])
        <4>1. "check" \in PCs
          BY DEF PCs
        <4>2. QED
          BY <1>t, <1>3, <2>2, <4>1 DEF Move
      <3>2. Early(r, "check", i[r] + 1, ca[r], signer[r])
        BY <1>2, <2>2 DEF Early, Unstaged
      <3>3. QED
        BY <1>1, <1>3, <3>1, <3>2, EarlyStep
    <2>3. QED
      BY <1>t, <1>2, <1>5, <2>1, <2>2, AdvanceStep
  <1>6. QED
    BY <1>4, <1>5 DEF Check, Go

\* The certificate of the CA, as loadCA reads it.
LEMMA LoadCertStep ==
  ASSUME IInv, NEW r \in Runs, LoadCert(r)
  PROVE  IInv'
  <1> DEFINE file == fs[opt[r].caCert]["ca.pem"]
  <1>t. TypeOK /\ RunInv /\ OptInv /\ OwnInv /\ faults \in 0..MaxFaults /\ signer[r] \in Keys \cup {Nil}
        /\ i[r] \in 1..4 /\ i = [i EXCEPT ![r] = i[r]] /\ signer = [signer EXCEPT ![r] = signer[r]]
    BY DEF IInv, TypeOK
  <1>1. created[r] = {} /\ DOMAIN temps[r] = {} /\ pc[r] = "loadCert"
    BY <1>t, EarlyState DEF LoadCert, Unstaged
  <1>2. Acceptable(opt[r]) /\ i[r] = 1 /\ opt[r].kind # "ca"
    BY <1>t, <1>1 DEF RunInv, AtWork, Started
  <1>3. UNCHANGED <<opt, i, fs, temps, created, stuck, signer, faults>>
    BY DEF LoadCert, disk
  <1>4. CASE file # Nil /\ file.whole /\ file.data.isCA /\ pc' = [pc EXCEPT ![r] = "loadKey"]
             /\ ca' = [ca EXCEPT ![r] = file.data]
    <2>1. opt[r].caCert \in Dirs /\ "ca.pem" \in FileNames /\ ~Secret("ca.pem")
      BY <1>t, OptionTypes DEF FileNames, Secret
    <2>2. file.data \in Certs /\ file.data.isCA
      BY <1>t, <1>4, <2>1 DEF OwnInv
    <2> HIDE DEF file
    <2>3. Move(r, "loadKey", i[r], file.data, signer[r])
      <3>1. "loadKey" \in PCs
        BY DEF PCs
      <3>2. QED
        BY <1>t, <1>3, <1>4, <2>2, <3>1 DEF Move
    <2>4. Early(r, "loadKey", i[r], file.data, signer[r])
      BY <1>2, <2>2 DEF Early, Unstaged
    <2>5. QED
      BY <1>1, <1>3, <2>3, <2>4, EarlyStep
  <1>5. CASE pc' = [pc EXCEPT ![r] = "refused"] /\ UNCHANGED ca
    <2>1. Move(r, "refused", i[r], ca[r], signer[r])
      BY <1>t, <1>3, <1>5, MoveOnly DEF PCs, Ended
    <2>2. Early(r, "refused", i[r], ca[r], signer[r])
      BY <1>2 DEF Early, Unstaged
    <2>3. QED
      BY <1>1, <1>3, <2>1, <2>2, EarlyStep
  <1>6. QED
    BY <1>4, <1>5 DEF LoadCert, Go, Parse

\* Its key, which Generate signs with.
LEMMA LoadKeyStep ==
  ASSUME IInv, NEW r \in Runs, LoadKey(r)
  PROVE  IInv'
  <1> DEFINE file == fs[opt[r].caKey]["ca-key.pem"]
  <1>t. TypeOK /\ RunInv /\ faults \in 0..MaxFaults /\ ca[r] \in Certs \cup {Nil}
        /\ i[r] \in 1..4 /\ i = [i EXCEPT ![r] = i[r]] /\ ca = [ca EXCEPT ![r] = ca[r]]
    BY DEF IInv, TypeOK
  <1>1. created[r] = {} /\ DOMAIN temps[r] = {} /\ pc[r] = "loadKey"
    BY <1>t, EarlyState DEF LoadKey, Unstaged
  <1>2. Acceptable(opt[r]) /\ i[r] = 1 /\ opt[r].kind # "ca" /\ ca[r] \in Certs /\ ca[r].isCA
    BY <1>t, <1>1 DEF RunInv, AtWork, Started
  <1>3. UNCHANGED <<opt, i, fs, temps, created, stuck, ca, faults>>
    BY DEF LoadKey, disk
  <1>4. CASE SignsFor(ca[r], file) /\ ca[r].from <= 0 /\ Lifetime(opt[r]) <= ca[r].until
             /\ pc' = [pc EXCEPT ![r] = "stage"] /\ signer' = [signer EXCEPT ![r] = file.data.key]
    <2>1. file.data.key = ca[r].key
      BY <1>4 DEF SignsFor
    <2>2. ca[r].key \in Keys
      BY <1>2 DEF Certs
    <2>3. signer' = [signer EXCEPT ![r] = ca[r].key]
      BY <1>4, <2>1
    <2>4. Move(r, "stage", i[r], ca[r], ca[r].key)
      <3>1. "stage" \in PCs
        BY DEF PCs
      <3>2. QED
        BY <1>t, <1>3, <1>4, <2>2, <2>3, <3>1 DEF Move
    <2>5. Early(r, "stage", i[r], ca[r], ca[r].key)
      BY <1>2, <1>4 DEF Early, Unstaged
    <2>6. QED
      BY <1>1, <1>3, <2>4, <2>5, EarlyStep
  <1>5. CASE pc' = [pc EXCEPT ![r] = "refused"] /\ UNCHANGED signer
    <2>1. Move(r, "refused", i[r], ca[r], signer[r])
      BY <1>t, <1>3, <1>5, MoveOnly DEF PCs, Ended
    <2>2. Early(r, "refused", i[r], ca[r], signer[r])
      BY <1>2 DEF Early, Unstaged
    <2>3. QED
      BY <1>1, <1>3, <2>1, <2>2, EarlyStep
  <1>6. QED
    BY <1>4, <1>5 DEF LoadKey, Go

\* An I/O error before anything is written.
LEMMA FailsStep ==
  ASSUME IInv, NEW r \in Runs, Fails(r)
  PROVE  IInv'
  <1>t. TypeOK /\ RunInv
    BY DEF IInv
  <1>1. created[r] = {} /\ DOMAIN temps[r] = {} /\ pc[r] \in {"check", "loadCert", "loadKey"}
    BY <1>t, EarlyState DEF Fails, Unstaged
  <1>2. Acceptable(opt[r])
    BY <1>t, <1>1 DEF RunInv, AtWork, Started
  <1>3. UNCHANGED <<i, fs, temps, created, stuck, opt, ca, signer>> /\ pc' = [pc EXCEPT ![r] = "failed"]
    BY DEF Fails, disk, loaded, Go
  <1>4. faults' \in 0..MaxFaults
    BY <1>t, FaultStep DEF Fails, TypeOK
  <1>5. Move(r, "failed", i[r], ca[r], signer[r])
    BY <1>t, <1>3, <1>4, MoveOnly DEF PCs, Ended
  <1>6. Early(r, "failed", i[r], ca[r], signer[r])
    BY <1>2 DEF Early, Unstaged
  <1>7. QED
    BY <1>1, <1>3, <1>5, <1>6, EarlyStep

-----------------------------------------------------------------------------
(* Staging, and the ends of a run *)

\* The temporary files of a run that has added one: the files of the bundle up to it, the
\* last one whole or not.
LEMMA AddedTemp ==
  ASSUME TypeOK, OptInv, NEW r \in Runs, Acceptable(opt[r]), opt[r].kind = "ca" \/ Signed(r),
         i[r] \in Places(r), DOMAIN temps[r] = 1..(i[r] - 1), NEW whole \in BOOLEAN, AddTemp(r, whole)
  PROVE  /\ DOMAIN temps' = Runs /\ \A q \in Runs \ {r} : temps'[q] = temps[q]
         /\ DOMAIN temps'[r] = 1..i[r] /\ 1..i[r] \subseteq 1..3
         /\ \A n \in 1..i[r] : n \in Places(r) /\ temps'[r][n] \in Files /\ (whole => temps'[r][n] = Output(r, n))
  <1>1. DOMAIN temps = Runs
    BY DEF TypeOK
  <1> DEFINE D == DOMAIN temps[r] \cup {i[r]}
             W(n) == n # i[r] \/ whole
             t == [n \in D |-> [Output(r, n) EXCEPT !.whole = W(n)]]
  <1>2. temps' = [temps EXCEPT ![r] = t]
    BY DEF AddTemp
  <1>3. D = 1..i[r] /\ 1..i[r] \subseteq 1..3 /\ \A n \in 1..i[r] : n \in Places(r)
    <2>1. Places(r) \in {1..2, 1..3} /\ i[r] \in 1..3
      BY PlacesOf
    <2>2. i[r] \in {1, 2, 3} /\ (i[r] = 3 => Places(r) = 1..3)
      BY <2>1
    <2>3. \A m \in {1, 2, 3} : 1..(m - 1) \cup {m} = 1..m /\ 1..m \subseteq 1..3
      OBVIOUS
    <2>4. \A n \in 1..i[r] : n \in Places(r)
      BY <2>1, <2>2
    <2>5. QED
      BY <2>2, <2>3, <2>4
  <1>4. \A f \in Files, w \in BOOLEAN : [f EXCEPT !.whole = w] \in Files /\ (f.whole = w => [f EXCEPT !.whole = w] = f)
    BY DEF Files
  <1>5. \A n \in 1..i[r] : Output(r, n) \in Files /\ Output(r, n).whole = TRUE
    BY <1>3, OutputType
  <1>6. \A n : W(n) \in BOOLEAN /\ (whole => W(n) = TRUE)
    OBVIOUS
  <1> HIDE DEF W
  <1>7. \A n \in 1..i[r] : t[n] \in Files /\ (whole => t[n] = Output(r, n))
    BY <1>3, <1>4, <1>5, <1>6
  <1>8. DOMAIN t = 1..i[r]
    BY <1>3
  <1> HIDE DEF t
  <1>9. QED
    BY <1>1, <1>2, <1>3, <1>7, <1>8

\* What a run in the midst of its bundle has.
LEMMA StageState ==
  ASSUME IInv, NEW r \in Runs, pc[r] \in {"stage", "publish"}
  PROVE  /\ Acceptable(opt[r]) /\ i[r] \in Places(r) /\ (opt[r].kind = "ca" \/ Signed(r))
         /\ created[r] = IF pc[r] = "stage" THEN {} ELSE 1..(i[r] - 1)
         /\ pc[r] = "stage" => DOMAIN temps[r] = 1..(i[r] - 1)
         /\ \A n \in DOMAIN temps[r] : temps[r][n] = Output(r, n)
         /\ pc[r] = "publish" => \A n \in Places(r) : n >= i[r] => n \in DOMAIN temps[r]
  <1>1. AtWork(r) /\ Staged(r) /\ Ordered(r)
    BY DEF IInv, RunInv
  <1>2. QED
    BY <1>1 DEF AtWork, Staged, Ordered, Started, Staging

\* A run that keeps its CA keeps its bundle.
LEMMA SameBundle ==
  ASSUME NEW r \in Runs, ca'[r] = ca[r], signer'[r] = signer[r], opt' = opt
  PROVE  /\ \A n : Output(r, n)' = Output(r, n)
         /\ Signed(r)' <=> Signed(r)
         /\ Acceptable(opt[r])' <=> Acceptable(opt[r])
         /\ Places(r)' = Places(r)
  BY DEF Output, Certificate, Signed, Acceptable, Lifetime, Places

\* A temporary file is written.
LEMMA StageStep ==
  ASSUME IInv, NEW r \in Runs, Stage(r)
  PROVE  IInv'
  <1>t. TypeOK /\ OptInv /\ faults \in 0..MaxFaults /\ ca[r] \in Certs \cup {Nil} /\ signer[r] \in Keys \cup {Nil}
        /\ ca = [ca EXCEPT ![r] = ca[r]] /\ signer = [signer EXCEPT ![r] = signer[r]]
        /\ created \in [Runs -> SUBSET (1..3)] /\ stuck \in [Runs -> SUBSET Files]
    BY DEF IInv, TypeOK
  <1>1. pc[r] = "stage" /\ AddTemp(r, TRUE) /\ Advance(r, "stage", "publish")
        /\ UNCHANGED <<fs, created, stuck, opt, ca, signer, faults>>
    BY DEF Stage, loaded
  <1>2. /\ Acceptable(opt[r]) /\ i[r] \in Places(r) /\ (opt[r].kind = "ca" \/ Signed(r))
        /\ created[r] = {} /\ DOMAIN temps[r] = 1..(i[r] - 1)
    BY <1>1, StageState
  <1>3. /\ DOMAIN temps' = Runs /\ \A q \in Runs \ {r} : temps'[q] = temps[q]
        /\ DOMAIN temps'[r] = 1..i[r] /\ 1..i[r] \subseteq 1..3
        /\ \A n \in 1..i[r] : n \in Places(r) /\ temps'[r][n] \in Files /\ temps'[r][n] = Output(r, n)
    BY <1>t, <1>1, <1>2, AddedTemp
  <1>4. Has(r, temps'[r], created[r], stuck[r])
    BY <1>t, <1>1, <1>3 DEF Has
  <1>5. \A n : Output(r, n)' = Output(r, n)
    BY <1>1, SameBundle
  <1>6. (Signed(r)' <=> Signed(r)) /\ (Acceptable(opt[r])' <=> Acceptable(opt[r])) /\ Places(r)' = Places(r)
    BY <1>1, SameBundle
  <1>p. Places(r) = 1..Len(Names(opt[r])) /\ Len(Names(opt[r])) \in {2, 3} /\ 1 \in Places(r)
    BY <1>2, PlacesOf
  <1>7. SUFFICES ASSUME NEW p \in {"stage", "publish"}, NEW j \in 1..4, Move(r, p, j, ca[r], signer[r]),
                        j \in Places(r), p = "stage" => j = i[r] + 1,
                        p = "publish" => j = 1 /\ i[r] = Len(Names(opt[r]))
                 PROVE  IInv'
    <2>1. "stage" \in PCs /\ "publish" \in PCs /\ 1 \in 1..4
      BY DEF PCs
    <2>2. CASE /\ i[r] = Len(Names(opt[r]))
               /\ pc' = [pc EXCEPT ![r] = "publish"] /\ i' = [i EXCEPT ![r] = 1]
      <3>1. Move(r, "publish", 1, ca[r], signer[r])
        BY <1>t, <1>1, <2>1, <2>2 DEF Move
      <3>2. QED
        BY <1>7, <1>p, <2>1, <2>2, <3>1
    <2>3. CASE /\ i[r] + 1 \in Places(r) /\ i[r] + 1 \in 1..4
               /\ pc' = [pc EXCEPT ![r] = "stage"] /\ i' = [i EXCEPT ![r] = i[r] + 1]
      <3>1. Move(r, "stage", i[r] + 1, ca[r], signer[r])
        BY <1>t, <1>1, <2>1, <2>3 DEF Move
      <3>2. QED
        BY <1>7, <2>3, <3>1
    <2>4. QED
      BY <1>1, <1>2, <2>2, <2>3, AdvanceStep
  <1>8. pc'[r] = p /\ i'[r] = j /\ created'[r] = {} /\ opt' = opt
    BY <1>t, <1>1, <1>2, <1>7, MoveTo
  <1>9. AtWork(r)'
    BY <1>1, <1>2, <1>6, <1>7, <1>8 DEF AtWork
  <1>10. Staged(r)'
    <2>1. p = "stage" => 1..(j - 1) = 1..i[r]
      BY <1>2, <1>p, <1>7
    <2>2. p = "publish" => 1..i[r] = Places(r)
      BY <1>p, <1>7
    <2>3. QED
      BY <1>3, <1>5, <1>6, <1>7, <1>8, <2>1, <2>2 DEF Staged, Unstaged
  <1>11. Ordered(r)'
    <2>1. p = "publish" => 1..(j - 1) = {}
      BY <1>7
    <2>2. QED
      BY <1>7, <1>8, <2>1 DEF Ordered
  <1>12. Holds(r)' = {} /\ Left(r)'
    BY <1>7, <1>8 DEF Holds, Left
  <1>13. QED
    BY <1>1, <1>4, <1>7, <1>9, <1>10, <1>11, <1>12, QuietStep

\* A run is killed.
LEMMA KillStep ==
  ASSUME IInv, NEW r \in Runs, Kill(r)
  PROVE  IInv'
  <1>t. TypeOK /\ AtWork(r) /\ Ordered(r)
    BY DEF IInv, RunInv
  <1>1. pc' = [pc EXCEPT ![r] = "killed"] /\ UNCHANGED <<i, fs, temps, created, stuck, opt, ca, signer>>
    BY DEF Kill, Go, disk, loaded
  <1>2. Move(r, "killed", i[r], ca[r], signer[r])
    <2>1. faults' \in 0..MaxFaults
      BY <1>t, FaultStep DEF Kill, TypeOK
    <2>2. QED
      BY <1>t, <1>1, <2>1, MoveOnly DEF PCs, Ended
  <1>3. pc'[r] = "killed"
    BY <1>t, <1>2, MoveTo
  <1>4. (Signed(r)' <=> Signed(r)) /\ (Acceptable(opt[r])' <=> Acceptable(opt[r])) /\ Places(r)' = Places(r)
    BY <1>1, SameBundle
  <1>5. AtWork(r)' /\ Staged(r)' /\ Ordered(r)'
    BY <1>t, <1>1, <1>3, <1>4 DEF AtWork, Staged, Ordered, Started, Staging, Unstaged
  <1>6. Holds(r)' = {} /\ Left(r)'
    BY <1>3 DEF Holds, Left
  <1>7. QED
    BY <1>t, <1>1, <1>2, <1>5, <1>6, Kept, QuietStep

\* A step of a run that has published nothing, to the removal of its temporary files.
LEMMA StageFailsStep ==
  ASSUME IInv, NEW r \in Runs, StageFails(r)
  PROVE  IInv'
  <1>t. TypeOK /\ OptInv /\ OwnInv /\ DOMAIN temps = Runs
        /\ created \in [Runs -> SUBSET (1..3)] /\ stuck \in [Runs -> SUBSET Files]
        /\ DOMAIN temps[r] \subseteq 1..3 /\ \A n \in DOMAIN temps[r] : temps[r][n] \in Files
    BY DEF IInv, TypeOK
  <1>1. /\ pc[r] = "stage" /\ (AddTemp(r, FALSE) \/ UNCHANGED temps)
        /\ pc' = [pc EXCEPT ![r] = "cleanup"] /\ UNCHANGED <<i, fs, created, stuck, opt, ca, signer>>
    BY DEF StageFails, StageError, Go, loaded
  <1>2. /\ Acceptable(opt[r]) /\ i[r] \in Places(r) /\ (opt[r].kind = "ca" \/ Signed(r))
        /\ created[r] = {} /\ DOMAIN temps[r] = 1..(i[r] - 1)
    BY <1>1, StageState
  <1>3. Has(r, temps'[r], created[r], stuck[r])
    <2>1. CASE AddTemp(r, FALSE)
      <3>1. /\ DOMAIN temps' = Runs /\ \A q \in Runs \ {r} : temps'[q] = temps[q]
            /\ DOMAIN temps'[r] = 1..i[r] /\ 1..i[r] \subseteq 1..3
            /\ \A n \in 1..i[r] : temps'[r][n] \in Files
        BY <1>t, <1>2, <2>1, AddedTemp
      <3>2. QED
        BY <1>t, <1>1, <3>1 DEF Has
    <2>2. CASE UNCHANGED temps
      BY <1>t, <1>1, <2>2 DEF Has
    <2>3. QED
      BY <1>1, <2>1, <2>2
  <1>4. Move(r, "cleanup", i[r], ca[r], signer[r])
    <2>1. faults' \in 0..MaxFaults
      BY <1>t, FaultStep DEF StageFails, TypeOK
    <2>2. QED
      BY <1>t, <1>1, <2>1, MoveOnly DEF PCs
  <1>5. pc'[r] = "cleanup" /\ created'[r] = {} /\ opt' = opt
    BY <1>t, <1>1, <1>2, <1>4, MoveTo
  <1>6. (Signed(r)' <=> Signed(r)) /\ (Acceptable(opt[r])' <=> Acceptable(opt[r])) /\ Places(r)' = Places(r)
    BY <1>1, SameBundle
  <1>7. AtWork(r)' /\ Staged(r)' /\ Ordered(r)'
    BY <1>1, <1>2, <1>5, <1>6 DEF AtWork, Staged, Ordered, Unstaged
  <1>8. Holds(r)' = {}
    BY <1>5 DEF Holds
  <1>9. Left(r)'
    <2>1. Cleared(r)
      BY <1>t, <1>2, NothingPublished
    <2>2. Cleared(r)'
      BY <1>1, <2>1 DEF Cleared
    <2>3. QED
      BY <1>5, <2>2 DEF Left
  <1>10. QED
    BY <1>1, <1>3, <1>4, <1>7, <1>8, <1>9, QuietStep

\* A run gives up its publication: it takes back what it has published, unless it uses --force.
LEMMA GiveUpStep ==
  ASSUME IInv, NEW r \in Runs, pc[r] = "publish", AfterFailure(r), UNCHANGED <<fs, temps, stuck, opt, ca, signer>>,
         faults' \in 0..MaxFaults
  PROVE  IInv'
  <1>t. TypeOK /\ OptInv /\ OwnInv /\ ca[r] \in Certs \cup {Nil} /\ signer[r] \in Keys \cup {Nil}
        /\ ca = [ca EXCEPT ![r] = ca[r]] /\ signer = [signer EXCEPT ![r] = signer[r]]
    BY DEF IInv, TypeOK
  <1> DEFINE p == IF opt[r].force \/ created[r] = {} THEN "cleanup" ELSE "rollback"
  <1>1. pc' = [pc EXCEPT ![r] = p] /\ i' = [i EXCEPT ![r] = 1] /\ UNCHANGED created
    BY DEF AfterFailure, Go
  <1>2. /\ Acceptable(opt[r]) /\ i[r] \in Places(r) /\ (opt[r].kind = "ca" \/ Signed(r))
        /\ created[r] = 1..(i[r] - 1)
    BY StageState
  <1>3. /\ p \in {"cleanup", "rollback"}
        /\ p = "cleanup" => opt[r].force \/ created[r] = {}
        /\ p = "rollback" => ~opt[r].force /\ created[r] # {}
    OBVIOUS
  <1> HIDE DEF p
  <1>4. Move(r, p, 1, ca[r], signer[r])
    <2>1. p \in PCs /\ 1 \in 1..4
      BY <1>3 DEF PCs
    <2>2. QED
      BY <1>t, <1>1, <2>1 DEF Move
  <1>5. pc'[r] = p /\ i'[r] = 1 /\ opt' = opt
    BY <1>t, <1>4, MoveTo
  <1>6. (Signed(r)' <=> Signed(r)) /\ (Acceptable(opt[r])' <=> Acceptable(opt[r])) /\ Places(r)' = Places(r)
    BY SameBundle
  <1>7. AtWork(r)'
    BY <1>1, <1>2, <1>3, <1>5, <1>6 DEF AtWork
  <1>8. Staged(r)'
    BY <1>3, <1>5 DEF Staged, Unstaged
  <1>p. Places(r) = 1..Len(Names(opt[r])) /\ Len(Names(opt[r])) \in {2, 3}
    BY <1>2, PlacesOf
  <1>9. Ordered(r)'
    <2>1. created[r] \subseteq Places(r)
      <3>1. \A n, m : m \in {2, 3} /\ n \in 1..m => 1..(n - 1) \subseteq 1..m
        OBVIOUS
      <3>2. QED
        BY <1>2, <1>p, <3>1
    <2>2. created[r] # {} => \E m \in 1..2 : created[r] = 1..m /\ 1 <= m /\ m < Len(Names(opt[r]))
      <3>1. \A n, m : m \in {2, 3} /\ n \in 1..m /\ 1..(n - 1) # {} => n - 1 \in 1..2 /\ 1 <= n - 1 /\ n - 1 < m
        OBVIOUS
      <3>2. QED
        BY <1>2, <1>p, <3>1
    <2>3. QED
      BY <1>1, <1>3, <1>5, <1>6, <2>1, <2>2 DEF Ordered, Unstaged
  <1>10. Holds(r)' \subseteq Holds(r)
    <2>1. created[r] = {} => created[r] # Places(r)
      BY <1>2
    <2>2. QED
      BY <1>1, <1>3, <1>5, <1>6, <2>1 DEF Holds
  <1>11. Left(r)'
    <2>1. created[r] = {} => Cleared(r)
      BY <1>t, NothingPublished
    <2>2. Cleared(r)' <=> Cleared(r)
      BY DEF Cleared
    <2>3. \A n \in created[r] : ~(n < 1)
      BY <1>2, <1>p
    <2>4. QED
      BY <1>1, <1>3, <1>5, <2>1, <2>2, <2>3 DEF Left
  <1>12. QED
    BY <1>t, <1>1, <1>4, <1>7, <1>8, <1>9, <1>10, <1>11, Kept, QuietStep

\* The temporary files are removed, or some are left that the run could not remove.
LEMMA CleanupStep ==
  ASSUME IInv, NEW r \in Runs, Cleanup(r)
  PROVE  IInv'
  <1>t. TypeOK /\ AtWork(r) /\ Ordered(r) /\ Left(r) /\ faults \in 0..MaxFaults
        /\ created \in [Runs -> SUBSET (1..3)] /\ stuck \in [Runs -> SUBSET Files]
        /\ DOMAIN temps = Runs /\ DOMAIN temps[r] \subseteq 1..3 /\ \A n \in DOMAIN temps[r] : temps[r][n] \in Files
    BY DEF IInv, RunInv, LeftInv, TypeOK
  <1> DEFINE p == IF created[r] = Places(r) THEN "done" ELSE "failed"
             all == {temps[r][n] : n \in DOMAIN temps[r]}
  <1>1. pc[r] = "cleanup" /\ pc' = [pc EXCEPT ![r] = p] /\ UNCHANGED <<fs, i, created, opt, ca, signer>>
    BY DEF Cleanup, Go, loaded
  <1>2. /\ p \in {"done", "failed"}
        /\ p = "done" => created[r] = Places(r)
        /\ p = "failed" => created[r] # Places(r)
    OBVIOUS
  <1> HIDE DEF p
  <1>3. PICK s : /\ Has(r, temps'[r], created[r], s) /\ stuck[r] \subseteq s /\ stuck'[r] = s
                 /\ {temps'[r][n] : n \in DOMAIN temps'[r]} \subseteq s
    <2>1. CASE temps' = [temps EXCEPT ![r] = <<>>] /\ UNCHANGED stuck
      <3>1. temps'[r] = <<>> /\ DOMAIN temps'[r] = {} /\ DOMAIN temps' = Runs
        BY <1>t, <2>1
      <3>2. \A q \in Runs \ {r} : temps'[q] = temps[q]
        BY <1>t, <2>1
      <3>3. Has(r, temps'[r], created[r], stuck[r])
        BY <1>t, <1>1, <2>1, <3>1, <3>2 DEF Has
      <3>4. QED
        BY <2>1, <3>1, <3>3
    <2>2. CASE UNCHANGED temps /\ stuck' = [stuck EXCEPT ![r] = @ \cup all]
      <3>1. stuck' = [stuck EXCEPT ![r] = stuck[r] \cup all] /\ stuck'[r] = stuck[r] \cup all
        BY <1>t, <2>2
      <3>2. all \subseteq Files /\ stuck[r] \cup all \in SUBSET Files
        BY <1>t
      <3> DEFINE s == stuck[r] \cup all
      <3>3. Has(r, temps'[r], created[r], s)
        BY <1>t, <1>1, <2>2, <3>1, <3>2 DEF Has
      <3>4. QED
        BY <2>2, <3>1, <3>3
    <2>3. QED
      BY <2>1, <2>2 DEF Cleanup
  <1>4. Move(r, p, i[r], ca[r], signer[r])
    <2>1. faults' \in 0..MaxFaults
      BY <1>t, FaultStep DEF Cleanup
    <2>2. QED
      BY <1>t, <1>1, <1>2, <2>1, MoveOnly DEF PCs, Ended
  <1>5. pc'[r] = p /\ i'[r] = i[r] /\ opt' = opt
    BY <1>t, <1>4, MoveTo
  <1>6. (Signed(r)' <=> Signed(r)) /\ (Acceptable(opt[r])' <=> Acceptable(opt[r])) /\ Places(r)' = Places(r)
    BY <1>1, SameBundle
  <1>7. AtWork(r)'
    BY <1>t, <1>1, <1>2, <1>5, <1>6 DEF AtWork, Started, Staging
  <1>8. Staged(r)' /\ Ordered(r)'
    BY <1>t, <1>1, <1>2, <1>5, <1>6 DEF Staged, Ordered, Unstaged
  <1>9. Holds(r)' \subseteq Holds(r)
    BY <1>1, <1>2, <1>5, <1>6 DEF Holds
  <1>10. Left(r)'
    <2>1. Cleared(r) => Cleared(r)'
      BY <1>1, <1>3 DEF Cleared
    <2>2. QED
      BY <1>t, <1>1, <1>2, <1>3, <1>5, <1>6, <2>1 DEF Left
  <1>11. QED
    BY <1>1, <1>3, <1>4, <1>7, <1>8, <1>9, <1>10, QuietStep

-----------------------------------------------------------------------------
(* Publication and roll-back *)

\* One entry of one directory is written.
LEMMA PutStep ==
  ASSUME TypeOK, OptInv, NEW r \in Runs, Acceptable(opt[r]), i[r] \in Places(r), NEW file \in Files \cup {Nil}, Put(r, file)
  PROVE  /\ fs' \in Disks
         /\ fs'[opt[r].out][Names(opt[r])[i[r]]] = file
         /\ \A d \in Dirs, name \in FileNames :
              ~(d = opt[r].out /\ name = Names(opt[r])[i[r]]) => fs'[d][name] = fs[d][name]
  <1> DEFINE dir == opt[r].out
             here == Names(opt[r])[i[r]]
  <1>1. dir \in Dirs /\ here \in FileNames
    BY OptionTypes, NamesOf DEF Places
  <1>2. fs \in [Dirs -> [FileNames -> Files \cup {Nil}]]
    BY DEF TypeOK, Disks
  <1>3. fs' = [fs EXCEPT ![dir][here] = file]
    BY DEF Put
  <1> HIDE DEF dir, here
  <1>4. /\ fs' \in [Dirs -> [FileNames -> Files \cup {Nil}]] /\ fs'[dir][here] = file
        /\ \A d \in Dirs, name \in FileNames : ~(d = dir /\ name = here) => fs'[d][name] = fs[d][name]
    BY <1>1, <1>2, <1>3
  <1>5. QED
    BY <1>4 DEF dir, here, Disks

\* A file that a run holds is in a directory under a name.
LEMMA HeldPlaces ==
  ASSUME OptInv, RunInv, NEW r \in Runs, NEW n \in Holds(r)
  PROVE  /\ n \in created[r] /\ n \in Places(r) /\ Acceptable(opt[r])
         /\ opt[r].out \in Dirs /\ Names(opt[r])[n] \in FileNames
  <1>1. n \in created[r]
    BY DEF Holds
  <1>2. QED
    BY <1>1, CreatedPlaces

\* A file of the run's bundle gets its final name.
LEMMA PublishStep ==
  ASSUME IInv, NEW r \in Runs, Publish(r), CanPublish(r)
  PROVE  IInv'
  <1>t. TypeOK /\ OptInv /\ RunInv /\ HeldInv /\ DOMAIN temps = Runs /\ faults \in 0..MaxFaults
        /\ DOMAIN temps[r] \subseteq 1..3 /\ (\A n \in DOMAIN temps[r] : temps[r][n] \in Files)
        /\ created \in [Runs -> SUBSET (1..3)] /\ stuck \in [Runs -> SUBSET Files]
        /\ ca[r] \in Certs \cup {Nil} /\ signer[r] \in Keys \cup {Nil}
        /\ ca = [ca EXCEPT ![r] = ca[r]] /\ signer = [signer EXCEPT ![r] = signer[r]]
    BY DEF IInv, TypeOK
  <1>1. /\ pc[r] = "publish" /\ Put(r, temps[r][i[r]]) /\ Advance(r, "publish", "cleanup")
        /\ created' = [created EXCEPT ![r] = created[r] \cup {i[r]}]
        /\ temps' = IF opt[r].force THEN [temps EXCEPT ![r] = [n \in DOMAIN temps[r] \ {i[r]} |-> temps[r][n]]] ELSE temps
        /\ UNCHANGED <<stuck, opt, ca, signer, faults>>
    BY <1>t DEF Publish, loaded
  <1>2. /\ Acceptable(opt[r]) /\ i[r] \in Places(r) /\ (opt[r].kind = "ca" \/ Signed(r))
        /\ created[r] = 1..(i[r] - 1)
        /\ (\A n \in DOMAIN temps[r] : temps[r][n] = Output(r, n))
        /\ \A n \in Places(r) : n >= i[r] => n \in DOMAIN temps[r]
    BY <1>1, StageState
  <1>p. Places(r) = 1..Len(Names(opt[r])) /\ Len(Names(opt[r])) \in {2, 3}
    BY <1>2, PlacesOf
  <1>h. PICK h : h = i[r]
    OBVIOUS
  <1> DEFINE g == created[r] \cup {i[r]}
  <1>3. /\ h \in 1..3 /\ h \in Places(r) /\ h \in DOMAIN temps[r] /\ g = 1..h /\ g \subseteq 1..3
        /\ created[r] = 1..(h - 1) /\ g \subseteq Places(r)
    <2>1. \A n, m : m \in {2, 3} /\ n \in 1..m =>
            n \in 1..3 /\ n >= n /\ (1..(n - 1)) \cup {n} = 1..n /\ 1..n \subseteq 1..3 /\ 1..n \subseteq 1..m
      OBVIOUS
    <2>2. QED
      BY <1>2, <1>p, <1>h, <2>1
  <1>4. /\ Output(r, h) \in Files /\ Output(r, h).by = r /\ Output(r, h) # Nil
        /\ Output(r, h).data \in IF Secret(Names(opt[r])[h]) THEN [key : Keys] ELSE Certs
    <2>1. OptInv /\ h \in Places(r) /\ Acceptable(opt[r]) /\ (opt[r].kind = "ca" \/ Signed(r))
      BY <1>t, <1>2, <1>3
    <2>2. /\ Output(r, h) \in Files /\ Output(r, h).by = r
          /\ Output(r, h).data \in IF Secret(Names(opt[r])[h]) THEN [key : Keys] ELSE Certs
      BY <2>1, OutputType
    <2>3. QED
      BY <2>2, PkiAssumption
  <1>5. /\ fs' \in Disks
        /\ fs'[opt[r].out][Names(opt[r])[h]] = Output(r, h)
        /\ \A d \in Dirs, name \in FileNames :
             ~(d = opt[r].out /\ name = Names(opt[r])[h]) => fs'[d][name] = fs[d][name]
    <2>1. temps[r][h] = Output(r, h)
      BY <1>2, <1>3
    <2>2. Put(r, Output(r, h))
      BY <1>1, <1>h, <2>1
    <2>3. Output(r, h) \in Files \cup {Nil}
      BY <1>4
    <2>4. QED
      BY <1>t, <1>2, <1>h, <2>2, <2>3, PutStep
  <1>6. \A n : Output(r, n)' = Output(r, n)
    BY <1>1, SameBundle
  <1>7. (Signed(r)' <=> Signed(r)) /\ (Acceptable(opt[r])' <=> Acceptable(opt[r])) /\ Places(r)' = Places(r)
    BY <1>1, SameBundle
  <1>8. created' = [created EXCEPT ![r] = g] /\ created'[r] = g
    BY <1>t, <1>1
  <1>9. Has(r, temps'[r], g, stuck[r])
    <2>1. CASE opt[r].force
      <3> DEFINE t == [n \in DOMAIN temps[r] \ {i[r]} |-> temps[r][n]]
      <3>1. temps' = [temps EXCEPT ![r] = t]
        BY <1>1, <2>1
      <3>2. DOMAIN t \subseteq 1..3 /\ \A n \in DOMAIN t : t[n] \in Files
        BY <1>t
      <3> HIDE DEF t
      <3>3. temps'[r] = t /\ DOMAIN temps' = Runs /\ \A q \in Runs \ {r} : temps'[q] = temps[q]
        BY <1>t, <3>1
      <3> HIDE DEF g
      <3>4. created[r] \subseteq g
        BY DEF g
      <3>5. QED
        BY <1>t, <1>1, <1>3, <1>8, <3>2, <3>3, <3>4 DEF Has
    <2>2. CASE ~opt[r].force
      <3>1. temps' = temps
        BY <1>1, <2>2
      <3>4. created[r] \subseteq g
        OBVIOUS
      <3> HIDE DEF g
      <3>5. QED
        BY <1>t, <1>1, <1>3, <1>8, <3>1, <3>4 DEF Has
    <2>3. QED
      BY <2>1, <2>2
  <1>10. \A n \in DOMAIN temps'[r] : n \in DOMAIN temps[r] /\ temps'[r][n] = temps[r][n]
    BY <1>t, <1>1
  <1>11. \A n \in DOMAIN temps[r] : n # h => n \in DOMAIN temps'[r]
    BY <1>t, <1>1, <1>h
  <1>12. PICK p \in {"publish", "cleanup"}, j \in 1..4 :
           /\ Move(r, p, j, ca[r], signer[r])
           /\ p = "publish" => j = h + 1 /\ j \in Places(r)
           /\ p = "cleanup" => g = Places(r)
    <2>1. "cleanup" \in PCs /\ "publish" \in PCs /\ 1 \in 1..4
      BY DEF PCs
    <2>2. CASE i[r] = Len(Names(opt[r])) /\ pc' = [pc EXCEPT ![r] = "cleanup"] /\ i' = [i EXCEPT ![r] = 1]
      <3>1. Move(r, "cleanup", 1, ca[r], signer[r])
        BY <1>t, <1>1, <2>1, <2>2 DEF Move
      <3>2. g = Places(r)
        BY <1>3, <1>p, <1>h, <2>2
      <3>3. QED
        BY <2>1, <3>1, <3>2
    <2>3. CASE /\ i[r] + 1 \in Places(r) /\ i[r] + 1 \in 1..4
               /\ pc' = [pc EXCEPT ![r] = "publish"] /\ i' = [i EXCEPT ![r] = i[r] + 1]
      <3>1. Move(r, "publish", i[r] + 1, ca[r], signer[r])
        BY <1>t, <1>1, <2>1, <2>3 DEF Move
      <3>2. QED
        BY <1>h, <2>3, <3>1
    <2>4. QED
      BY <1>1, <1>2, <2>2, <2>3, AdvanceStep
  <1> HIDE DEF g
  <1>13. pc'[r] = p /\ i'[r] = j /\ opt' = opt
    BY <1>t, <1>12, MoveTo
  <1>14. AtWork(r)'
    BY <1>1, <1>2, <1>7, <1>12, <1>13 DEF AtWork
  <1>15. Staged(r)'
    <2>1. p = "publish" => \A n \in Places(r) : n >= j => n \in DOMAIN temps'[r]
      <3>1. p = "publish" => \A n \in Places(r) : n >= j => n >= h /\ n # h
        BY <1>3, <1>p, <1>12
      <3>2. QED
        BY <1>2, <1>h, <1>11, <3>1
    <2>2. \A n \in DOMAIN temps'[r] : temps'[r][n] = Output(r, n)'
      BY <1>2, <1>6, <1>10
    <2>3. QED
      BY <1>7, <1>12, <1>13, <2>1, <2>2 DEF Staged, Unstaged
  <1>16. Ordered(r)'
    <2>1. p = "publish" => 1..(j - 1) = 1..h
      BY <1>3, <1>12
    <2>2. QED
      BY <1>3, <1>7, <1>8, <1>12, <1>13, <2>1 DEF Ordered, Unstaged
  <1>17. Left(r)'
    BY <1>7, <1>8, <1>12, <1>13 DEF Left
  <1>18. Adds(r)
    <2>1. Own(opt[r].out, Names(opt[r])[h], r)'
      BY <1>3, <1>5, <1>6, <1>8, <1>13 DEF Own
    <2>2. QED
      BY <1>4, <1>5, <1>13, <2>1 DEF Adds
  <1>f. Frame(r)
    BY <1>t, <1>9, <1>12 DEF Frame, Move, Has, TypeOK
  <1>19. HeldInv'
    <2>1. \A q \in Runs : \A n : Output(q, n)' = Output(q, n)
      BY <1>6, <1>f, Unmoved
    <2>2. \A q \in Runs \ {r} : Holds(q)' = Holds(q)
      BY <1>f, Unmoved
    <2>3. opt[r].force => Holds(r)' = {}
      BY <1>13 DEF Holds
    <2>4. Holds(r)' \subseteq Holds(r) \cup {h}
      <3>1. Holds(r)' \subseteq g
        BY <1>8 DEF Holds
      <3>2. ~opt[r].force => g = Holds(r) \cup {h}
        BY <1>1, <1>h DEF Holds, g
      <3>3. QED
        BY <2>3, <3>1, <3>2
    <2>5. \A d : Unforced(d)' <=> Unforced(d)
      BY <1>13 DEF Unforced
    <2>6. At(r, h)' = Output(r, h)
      BY <1>5, <1>13 DEF At
    <2>7. ~opt[r].force => fs[opt[r].out][Names(opt[r])[h]] = Nil
      BY <1>h DEF CanPublish, At
    \* What a run holds stays, unless somebody uses --force in the directory.
    <2>8. ASSUME NEW q \in Runs, NEW n \in Holds(q)
          PROVE  /\ At(q, n)' # Nil
                 /\ Unforced(opt[q].out) => At(q, n)' = At(q, n)
                 /\ ~opt[r].force => ~(opt[q].out = opt[r].out /\ Names(opt[q])[n] = Names(opt[r])[h])
      <3>1. opt[q].out \in Dirs /\ Names(opt[q])[n] \in FileNames
        BY <1>t, HeldPlaces
      <3>2. fs[opt[q].out][Names(opt[q])[n]] # Nil
        BY <1>t DEF HeldInv, At
      <3>3. CASE opt[q].out = opt[r].out /\ Names(opt[q])[n] = Names(opt[r])[h]
        <4>1. opt[r].force
          BY <2>7, <3>2, <3>3
        <4>2. ~Unforced(opt[q].out)
          BY <3>3, <4>1 DEF Unforced
        <4>3. At(q, n)' = Output(r, h)
          BY <1>5, <1>13, <3>3 DEF At
        <4>4. QED
          BY <1>4, <4>1, <4>2, <4>3
      <3>4. CASE ~(opt[q].out = opt[r].out /\ Names(opt[q])[n] = Names(opt[r])[h])
        <4>1. At(q, n)' = At(q, n)
          BY <1>5, <1>13, <3>1, <3>4 DEF At
        <4>2. QED
          BY <3>2, <3>4, <4>1 DEF At
      <3>5. QED
        BY <3>3, <3>4
    <2> SUFFICES ASSUME NEW q \in Runs, NEW n \in Holds(q)'
                 PROVE  /\ At(q, n)' # Nil
                        /\ Unforced(opt[q].out)' => At(q, n)' = Output(q, n)'
                        /\ \A o \in Runs \ {q} : \A m \in Holds(o)' :
                             ~(opt'[o].out = opt'[q].out /\ Names(opt'[o])[m] = Names(opt'[q])[n])
      BY DEF HeldInv
    <2>9. n \in Holds(q) \/ (q = r /\ n = h /\ ~opt[r].force)
      BY <2>2, <2>3, <2>4
    <2>10. At(q, n)' # Nil /\ (Unforced(opt[q].out)' => At(q, n)' = Output(q, n)')
      <3>1. CASE n \in Holds(q)
        <4>1. Unforced(opt[q].out) => At(q, n) = Output(q, n)
          BY <1>t, <3>1 DEF HeldInv
        <4>2. QED
          BY <1>13, <2>1, <2>5, <2>8, <3>1, <4>1
      <3>2. CASE q = r /\ n = h
        BY <1>4, <2>1, <2>6, <3>2
      <3>3. QED
        BY <2>9, <3>1, <3>2
    <2>11. ASSUME NEW o \in Runs \ {q}, NEW m \in Holds(o)'
           PROVE  ~(opt[o].out = opt[q].out /\ Names(opt[o])[m] = Names(opt[q])[n])
      <3>1. m \in Holds(o) \/ (o = r /\ m = h /\ ~opt[r].force)
        BY <2>2, <2>3, <2>4
      <3>2. CASE n \in Holds(q) /\ m \in Holds(o)
        BY <1>t, <3>2 DEF HeldInv
      <3>3. CASE n \in Holds(q) /\ o = r /\ m = h /\ ~opt[r].force
        BY <2>8, <3>3
      <3>4. CASE m \in Holds(o) /\ q = r /\ n = h /\ ~opt[r].force
        BY <2>8, <3>4
      <3>5. QED
        BY <2>9, <2>11, <3>1, <3>2, <3>3, <3>4
    <2>12. QED
      BY <1>13, <2>10, <2>11
  <1>20. QED
    BY <1>5, <1>9, <1>12, <1>14, <1>15, <1>16, <1>17, <1>18, <1>19, MoveStep

\* A run that rolls back removes a file of its own, and no other, or keeps in mind that it
\* could not.
LEMMA RemovedOne ==
  ASSUME IInv, NEW r \in Runs, RollBack(r), NEW h, h = i[r]
  PROVE  /\ Acceptable(opt[r]) /\ h \in created[r] /\ h \in Holds(r) /\ h \in Places(r)
         /\ fs' \in Disks /\ faults' \in 0..MaxFaults
         /\ \A d \in Dirs, name \in FileNames :
              \/ fs'[d][name] = fs[d][name]
              \/ d = opt[r].out /\ name = Names(opt[r])[h] /\ fs'[d][name] = Nil
         /\ \E s \in SUBSET Files :
              /\ stuck' = [stuck EXCEPT ![r] = s] /\ stuck[r] \subseteq s
              /\ At(r, h)' = Nil \/ At(r, h)' \in s
  <1>t. TypeOK /\ OptInv /\ RunInv /\ HeldInv /\ faults \in 0..MaxFaults /\ fs \in Disks
        /\ stuck \in [Runs -> SUBSET Files] /\ opt' = opt
    BY DEF IInv, TypeOK, RollBack, loaded
  <1>1. pc[r] = "rollback" /\ Acceptable(opt[r]) /\ ~opt[r].force
    BY <1>t DEF RollBack, RunInv, AtWork, Ordered, Started
  <1>2. PICK m \in 1..2 : created[r] = 1..m /\ i[r] <= m
    BY <1>t, <1>1 DEF RunInv, Ordered
  <1>3. h \in created[r]
    <2>1. i[r] \in 1..4
      BY <1>t DEF TypeOK
    <2>2. QED
      BY <1>2, <2>1
  <1>4. h \in Places(r) /\ opt[r].out \in Dirs /\ Names(opt[r])[h] \in FileNames
    BY <1>t, <1>3, CreatedPlaces
  <1>5. h \in Holds(r)
    <2>1. h >= i[r]
      BY <1>2, <1>3
    <2>2. QED
      BY <1>1, <1>3, <2>1 DEF Holds
  <1>6. At(r, h) \in Files
    <2>1. At(r, h) # Nil
      BY <1>t, <1>5 DEF HeldInv
    <2>2. QED
      BY <1>t, <1>4, <2>1 DEF At, Disks
  <1>7. CASE Put(r, Nil) /\ UNCHANGED <<stuck, faults>>
    <2>1. /\ fs' \in Disks /\ fs'[opt[r].out][Names(opt[r])[h]] = Nil
          /\ \A d \in Dirs, name \in FileNames :
               ~(d = opt[r].out /\ name = Names(opt[r])[h]) => fs'[d][name] = fs[d][name]
      BY <1>t, <1>1, <1>4, <1>7, PutStep
    <2>2. At(r, h)' = Nil
      BY <1>t, <2>1 DEF At
    <2>3. stuck[r] \in SUBSET Files /\ stuck' = [stuck EXCEPT ![r] = stuck[r]]
      BY <1>t, <1>7
    <2>4. QED
      BY <1>t, <1>1, <1>3, <1>4, <1>5, <1>7, <2>1, <2>2, <2>3
  <1>8. CASE Fault /\ stuck' = [stuck EXCEPT ![r] = @ \cup {At(r, i[r])}] /\ UNCHANGED fs
    <2> DEFINE s == stuck[r] \cup {At(r, h)}
    <2>1. s \in SUBSET Files /\ stuck[r] \subseteq s /\ At(r, h) \in s
      BY <1>t, <1>6
    <2>2. stuck' = [stuck EXCEPT ![r] = s]
      BY <1>t, <1>8
    <2>3. At(r, h)' = At(r, h)
      BY <1>t, <1>8 DEF At
    <2> HIDE DEF s
    <2>4. faults' \in 0..MaxFaults
      BY <1>t, <1>8, FaultStep
    <2>5. QED
      BY <1>t, <1>1, <1>3, <1>4, <1>5, <1>8, <2>1, <2>2, <2>3, <2>4
  <1>9. QED
    BY <1>7, <1>8 DEF RollBack

\* One name of what the run has published is removed.
LEMMA RollBackStep ==
  ASSUME IInv, NEW r \in Runs, RollBack(r)
  PROVE  IInv'
  <1>t. TypeOK /\ OptInv /\ RunInv /\ OwnInv /\ HeldInv /\ DOMAIN temps = Runs
        /\ DOMAIN temps[r] \subseteq 1..3 /\ (\A n \in DOMAIN temps[r] : temps[r][n] \in Files)
        /\ created \in [Runs -> SUBSET (1..3)] /\ i \in [Runs -> 1..4]
        /\ ca[r] \in Certs \cup {Nil} /\ signer[r] \in Keys \cup {Nil}
        /\ ca = [ca EXCEPT ![r] = ca[r]] /\ signer = [signer EXCEPT ![r] = signer[r]]
    BY DEF IInv, TypeOK
  <1>w. AtWork(r) /\ Ordered(r) /\ Left(r)
    BY DEF IInv, RunInv, LeftInv
  <1>1. pc[r] = "rollback" /\ UNCHANGED <<temps, created, opt, ca, signer>>
    BY DEF RollBack, loaded
  <1>h. PICK h : h = i[r]
    OBVIOUS
  <1>2. /\ Acceptable(opt[r]) /\ h \in created[r] /\ h \in Holds(r) /\ h \in Places(r)
        /\ fs' \in Disks /\ faults' \in 0..MaxFaults
        /\ \A d \in Dirs, name \in FileNames :
             \/ fs'[d][name] = fs[d][name]
             \/ d = opt[r].out /\ name = Names(opt[r])[h] /\ fs'[d][name] = Nil
    BY <1>h, RemovedOne
  <1>3. PICK s \in SUBSET Files :
          /\ stuck' = [stuck EXCEPT ![r] = s] /\ stuck[r] \subseteq s
          /\ At(r, h)' = Nil \/ At(r, h)' \in s
    BY <1>h, RemovedOne
  <1>4. ~opt[r].force /\ (opt[r].kind = "ca" \/ Signed(r)) /\ created[r] \subseteq Places(r)
    BY <1>1, <1>w DEF AtWork, Ordered, Staging
  <1>5. PICK m \in 1..2 : created[r] = 1..m /\ h <= m /\ m < Len(Names(opt[r]))
    BY <1>1, <1>h, <1>w DEF Ordered
  <1>i. h \in 1..4
    BY <1>t, <1>h
  <1>6. Cardinality(created[r]) = m
    <2>1. m \in Int /\ 1 \in Int /\ ~(1 > m) /\ m - 1 + 1 = m
      BY <1>5
    <2>2. Cardinality(1..m) = IF 1 > m THEN 0 ELSE m - 1 + 1
      BY <2>1, FS_Interval
    <2>3. QED
      BY <1>5, <2>1, <2>2
  <1>7. created[r] # Places(r)
    <2>1. Places(r) = 1..Len(Names(opt[r])) /\ Len(Names(opt[r])) \in {2, 3}
      BY <1>2, PlacesOf
    <2>2. Len(Names(opt[r])) \in Places(r) /\ Len(Names(opt[r])) \notin 1..m
      BY <1>5, <2>1
    <2>3. QED
      BY <1>5, <2>2
  <1>8. PICK p \in {"rollback", "cleanup"}, j \in 1..4 :
          /\ Move(r, p, j, ca[r], signer[r])
          /\ p = "rollback" => j = h + 1 /\ j <= m
          /\ p = "cleanup" => h = m
    <2>1. "cleanup" \in PCs /\ "rollback" \in PCs /\ 1 \in 1..4
      BY DEF PCs
    <2>2. CASE i[r] = Cardinality(created[r])
      <3>1. pc' = [pc EXCEPT ![r] = "cleanup"] /\ i' = [i EXCEPT ![r] = 1]
        BY <2>2 DEF RollBack, Go
      <3>2. Move(r, "cleanup", 1, ca[r], signer[r])
        BY <1>t, <1>1, <1>2, <2>1, <3>1 DEF Move
      <3>3. QED
        BY <1>h, <1>6, <2>1, <2>2, <3>2
    <2>3. CASE i[r] # Cardinality(created[r])
      <3>1. pc' = [pc EXCEPT ![r] = "rollback"]
        BY <1>t, <1>1, <2>3 DEF RollBack, TypeOK
      <3>2. i' = [i EXCEPT ![r] = i[r] + 1]
        BY <1>t, <2>3 DEF RollBack
      <3>3. i[r] + 1 \in 1..4 /\ i[r] + 1 <= m
        <4>1. i[r] \in 1..4
          BY <1>t
        <4>2. QED
          BY <1>h, <1>5, <1>6, <2>3, <4>1
      <3>4. Move(r, "rollback", i[r] + 1, ca[r], signer[r])
        BY <1>t, <1>1, <1>2, <2>1, <3>1, <3>2, <3>3 DEF Move
      <3>5. QED
        BY <1>h, <3>3, <3>4
    <2>4. QED
      BY <2>2, <2>3
  <1>9. pc'[r] = p /\ i'[r] = j /\ opt' = opt
    BY <1>t, <1>8, MoveTo
  <1>10. Has(r, temps[r], created[r], s)
    BY <1>t, <1>1, <1>3 DEF Has
  <1>11. (Signed(r)' <=> Signed(r)) /\ (Acceptable(opt[r])' <=> Acceptable(opt[r])) /\ Places(r)' = Places(r)
    BY <1>1, SameBundle
  <1>12. \A n : Output(r, n)' = Output(r, n)
    BY <1>1, SameBundle
  <1>13. AtWork(r)' /\ Staged(r)'
    BY <1>1, <1>2, <1>4, <1>8, <1>9, <1>11 DEF AtWork, Staged, Unstaged
  <1>14. Ordered(r)'
    BY <1>1, <1>4, <1>5, <1>8, <1>9, <1>11 DEF Ordered, Unstaged
  <1>15. Adds(r)
    BY <1>2 DEF Adds
  <1>16. \A n \in created[r] : n # h => At(r, n)' = At(r, n)
    <2> SUFFICES ASSUME NEW n \in created[r], n # h PROVE At(r, n)' = At(r, n)
      OBVIOUS
    <2>1. n \in Places(r) /\ opt[r].out \in Dirs /\ Names(opt[r])[n] \in FileNames
      BY <1>t, CreatedPlaces
    <2>2. Names(opt[r])[n] # Names(opt[r])[h]
      BY <1>2, <2>1, NamesOf DEF Places
    <2>3. QED
      BY <1>2, <1>9, <2>1, <2>2 DEF At
  <1>17. stuck'[r] = s
    BY <1>3, <1>t DEF TypeOK
  <1>18. Left(r)'
    <2>1. \A n \in created[r] : n < h /\ At(r, n)' # Nil /\ At(r, n)'.by = r => At(r, n)' \in s
      <3>1. \A n \in created[r] : n < h => n # h
        BY <1>5
      <3>2. QED
        BY <1>1, <1>3, <1>h, <1>w, <1>16, <3>1 DEF Left
    <2>2. p = "rollback" => \A n \in created[r] : n < j => n < h \/ n = h
      BY <1>i, <1>5, <1>8
    <2>3. p = "cleanup" => Cleared(r)'
      <3> SUFFICES ASSUME p = "cleanup", NEW name \in FileNames, fs'[opt[r].out][name] # Nil, fs'[opt[r].out][name].by = r
                   PROVE  fs'[opt[r].out][name] \in s
        BY <1>9, <1>17 DEF Cleared
      <3>1. fs'[opt[r].out][name] = fs[opt[r].out][name] /\ opt[r].out \in Dirs /\ r # Nil
        BY <1>t, <1>2, OptionTypes, PkiAssumption
      <3>2. PICK n \in created[r] : name = Names(opt[r])[n]
        BY <1>t, <3>1 DEF OwnInv, Own
      <3>3. At(r, n)' = fs'[opt[r].out][name]
        BY <1>9, <3>2 DEF At
      <3>4. n < h \/ n = h
        BY <1>5, <1>8
      <3>5. QED
        BY <1>3, <2>1, <3>3, <3>4
    <2>4. QED
      BY <1>1, <1>3, <1>8, <1>9, <1>17, <2>1, <2>2, <2>3 DEF Left
  <1>f. Frame(r)
    BY <1>t, <1>8, <1>10, <1>1 DEF Frame, Move, Has, TypeOK
  <1>19. HeldInv'
    <2>1. \A q \in Runs : \A n : Output(q, n)' = Output(q, n)
      BY <1>12, <1>f, Unmoved
    <2>2. \A q \in Runs : Holds(q)' \subseteq Holds(q)
      <3> TAKE q \in Runs
      <3>1. CASE q = r
        <4>1. Holds(r)' \subseteq {n \in created[r] : n >= h}
          <5>1. \A n \in created[r] : n >= h + 1 => n >= h
            BY <1>i, <1>5
          <5>2. QED
            BY <1>1, <1>7, <1>8, <1>9, <1>11, <5>1 DEF Holds
        <4>2. QED
          BY <1>1, <1>4, <1>h, <3>1, <4>1 DEF Holds
      <3>2. CASE q # r
        BY <1>f, <3>2, Unmoved
      <3>3. QED
        BY <3>1, <3>2
    <2>3. h \notin Holds(r)'
      <3>1. \A n \in created[r] : n >= h + 1 => n # h
        BY <1>5
      <3>2. QED
        BY <1>1, <1>7, <1>8, <1>9, <1>11, <3>1 DEF Holds
    <2>4. \A d : Unforced(d)' <=> Unforced(d)
      BY <1>9 DEF Unforced
    <2>5. ASSUME NEW q \in Runs, NEW n \in Holds(q)' PROVE At(q, n)' = At(q, n) /\ n \in Holds(q)
      <3>1. n \in Holds(q)
        BY <2>2
      <3>2. CASE q = r
        <4>1. n \in created[r] /\ n # h
          BY <2>3, <2>5, <3>1, <3>2 DEF Holds
        <4>2. QED
          BY <1>16, <3>1, <3>2, <4>1
      <3>3. CASE q # r
        <4>1. ~(opt[q].out = opt[r].out /\ Names(opt[q])[n] = Names(opt[r])[h])
          BY <1>t, <1>2, <3>1, <3>3 DEF HeldInv
        <4>2. opt[q].out \in Dirs /\ Names(opt[q])[n] \in FileNames
          BY <1>t, <3>1, HeldPlaces
        <4>3. QED
          BY <1>2, <1>9, <3>1, <4>1, <4>2 DEF At
      <3>4. QED
        BY <3>2, <3>3
    <2> SUFFICES ASSUME NEW q \in Runs, NEW n \in Holds(q)'
                 PROVE  /\ At(q, n)' # Nil
                        /\ Unforced(opt[q].out)' => At(q, n)' = Output(q, n)'
                        /\ \A o \in Runs \ {q} : \A l \in Holds(o)' :
                             ~(opt'[o].out = opt'[q].out /\ Names(opt'[o])[l] = Names(opt'[q])[n])
      BY DEF HeldInv
    <2>6. At(q, n)' # Nil /\ (Unforced(opt[q].out)' => At(q, n)' = Output(q, n)')
      BY <1>t, <1>9, <2>1, <2>4, <2>5 DEF HeldInv
    <2>7. \A o \in Runs \ {q} : \A l \in Holds(o)' :
            ~(opt'[o].out = opt'[q].out /\ Names(opt'[o])[l] = Names(opt'[q])[n])
      BY <1>t, <1>9, <2>5 DEF HeldInv
    <2>8. QED
      BY <2>6, <2>7
  <1> DEFINE g == created[r]
  <1>20. Has(r, temps[r], g, s)
    BY <1>10
  <1> HIDE DEF g
  <1>21. QED
    BY <1>2, <1>8, <1>13, <1>14, <1>15, <1>18, <1>19, <1>20, MoveStep

-----------------------------------------------------------------------------
(* The theorems *)

\* The generator starts with the files from before, of which none is a run's.
LEMMA InitIInv == Init => IInv
  <1> SUFFICES ASSUME Init PROVE IInv
    OBVIOUS
  <1> USE DEF Init
  <1>1. TypeOK
    <2>1. InitialFiles \in Disks /\ 0 \in 0..MaxFaults
      BY PkiAssumption, FilesAssumption
    <2>2. "begin" \in PCs /\ 1 \in 1..4
      BY DEF PCs
    <2>3. DOMAIN <<>> = {}
      OBVIOUS
    <2>4. \A r \in Runs : temps[r] = <<>>
      OBVIOUS
    <2>5. \A r \in Runs : DOMAIN temps[r] \subseteq 1..3 /\ \A n \in DOMAIN temps[r] : temps[r][n] \in Files
      BY <2>3, <2>4
    <2>6. QED
      BY <2>1, <2>2, <2>5 DEF TypeOK
  <1>2. OptInv
    BY DEF OptInv
  <1>3. RunInv
    <2> SUFFICES ASSUME NEW r \in Runs PROVE AtWork(r) /\ Staged(r) /\ Ordered(r)
      BY DEF RunInv
    <2>1. pc[r] = "begin" /\ i[r] = 1 /\ created[r] = {} /\ temps[r] = <<>>
      OBVIOUS
    <2>2. DOMAIN temps[r] = {}
      BY <2>1
    <2>3. QED
      BY <2>1, <2>2 DEF AtWork, Staged, Ordered, Started, Staging, Unstaged
  <1>4. OwnInv
    BY FilesAssumption DEF OwnInv
  <1>5. HeldInv /\ LeftInv
    <2>1. \A r \in Runs : pc[r] = "begin"
      OBVIOUS
    <2>2. \A r \in Runs : Holds(r) = {} /\ Left(r)
      BY <2>1 DEF Holds, Left
    <2>3. QED
      BY <2>2 DEF HeldInv, LeftInv
  <1>6. QED
    BY <1>1, <1>2, <1>3, <1>4, <1>5 DEF IInv

\* Every step of every run keeps the invariant.
LEMMA NextIInv == IInv /\ [Next]_vars => IInv'
  <1> SUFFICES ASSUME IInv, [Next]_vars PROVE IInv'
    OBVIOUS
  <1>1. CASE UNCHANGED vars
    <2>1. UNCHANGED <<opt, fs, pc, i, ca, signer, temps, created, stuck, faults>>
      BY <1>1 DEF vars, loaded, disk
    <2>2. \A r, n : Output(r, n)' = Output(r, n) /\ At(r, n)' = At(r, n)
      BY <2>1 DEF Output, Certificate, At
    <2>3. \A r : Places(r)' = Places(r) /\ Holds(r)' = Holds(r) /\ (Signed(r)' <=> Signed(r))
      BY <2>1 DEF Places, Holds, Signed
    <2>4. TypeOK' /\ OptInv'
      BY <2>1 DEF IInv, TypeOK, OptInv
    <2>5. RunInv'
      <3>1. ASSUME NEW r \in Runs, AtWork(r), Staged(r), Ordered(r) PROVE AtWork(r)' /\ Staged(r)' /\ Ordered(r)'
        <4>1. AtWork(r)'
          BY <2>1, <2>3, <3>1 DEF AtWork
        <4>2. Staged(r)'
          BY <2>1, <2>2, <2>3, <3>1 DEF Staged
        <4>3. Ordered(r)'
          BY <2>1, <2>3, <3>1 DEF Ordered
        <4>4. QED
          BY <4>1, <4>2, <4>3
      <3>2. QED
        BY <3>1 DEF IInv, RunInv
    <2>6. OwnInv'
      <3>1. \A d, name, r : Own(d, name, r)' <=> Own(d, name, r)
        BY <2>1, <2>2 DEF Own
      <3>2. QED
        BY <2>1, <3>1 DEF IInv, OwnInv
    <2>7. HeldInv'
      <3>1. \A d : Unforced(d)' <=> Unforced(d)
        BY <2>1 DEF Unforced
      <3>2. QED
        BY <2>1, <2>2, <2>3, <3>1 DEF IInv, HeldInv
    <2>8. LeftInv'
      <3>1. \A r : Cleared(r)' <=> Cleared(r)
        BY <2>1 DEF Cleared
      <3>2. QED
        BY <2>1, <2>2, <2>3, <3>1 DEF IInv, LeftInv, Left
    <2>9. QED
      BY <2>4, <2>5, <2>6, <2>7, <2>8 DEF IInv
  <1>2. ASSUME NEW r \in Runs, Step(r) PROVE IInv'
    <2>1. CASE Publish(r)
      <3>1. CASE CanPublish(r)
        BY <2>1, <3>1, PublishStep
      <3>2. CASE ~CanPublish(r)
        <4>1. pc[r] = "publish" /\ AfterFailure(r) /\ UNCHANGED <<fs, temps, stuck, opt, ca, signer, faults>>
          BY <2>1, <3>2 DEF Publish, loaded
        <4>2. faults' \in 0..MaxFaults
          BY <4>1 DEF IInv, TypeOK
        <4>3. QED
          BY <4>1, <4>2, GiveUpStep
      <3>3. QED
        BY <3>1, <3>2
    <2>2. CASE PublishFails(r)
      <3>1. pc[r] = "publish" /\ AfterFailure(r) /\ UNCHANGED <<fs, temps, stuck, opt, ca, signer>> /\ Fault
        BY <2>2 DEF PublishFails, loaded
      <3>2. faults' \in 0..MaxFaults
        BY <3>1, FaultStep DEF IInv, TypeOK
      <3>3. QED
        BY <3>1, <3>2, GiveUpStep
    <2>3. QED
      BY <1>2, <2>1, <2>2, BeginStep, CheckStep, LoadCertStep, LoadKeyStep, FailsStep, StageStep, StageFailsStep,
         RollBackStep, CleanupStep DEF Step
  <1>3. QED
    BY <1>1, <1>2, KillStep DEF Next

LEMMA Invariant == Spec => []IInv
  BY InitIInv, NextIInv, PTL DEF Spec

\* Whatever runs there are and whatever fails, what Generate loads, stages and publishes is
\* of the types that its cursor and its directories ask for.
THEOREM TypeCorrect == Spec => []TypeOK
  <1>1. IInv => TypeOK
    BY DEF IInv
  <1>2. QED
    BY <1>1, Invariant, PTL

\* With any number of runs and faults: under its final name a file of a run is complete and,
\* if it is a key, private (writeBundle).
THEOREM PublishedIsWhole == Spec => []PublishedWhole
  <1>1. ASSUME IInv PROVE PublishedWhole
    <2>t. OptInv /\ RunInv /\ OwnInv
      BY <1>1 DEF IInv
    <2> SUFFICES ASSUME NEW d \in Dirs, NEW name \in FileNames, fs[d][name] # Nil, fs[d][name].by # Nil
                 PROVE  fs[d][name].whole /\ fs[d][name].mode = IF Secret(name) THEN "0600" ELSE "0644"
      BY DEF PublishedWhole
    <2>1. PICK r \in Runs : Own(d, name, r)
      BY <2>t DEF OwnInv
    <2>2. PICK n \in created[r] : name = Names(opt[r])[n] /\ fs[d][name] = Output(r, n)
      BY <2>1 DEF Own
    <2>3. Acceptable(opt[r]) /\ n \in Places(r) /\ (opt[r].kind = "ca" \/ Signed(r))
      BY <2>t, CreatedPlaces
    <2>4. Output(r, n).whole = TRUE /\ Output(r, n).mode = IF Secret(Names(opt[r])[n]) THEN "0600" ELSE "0644"
      BY <2>t, <2>3, OutputType
    <2>5. QED
      BY <2>2, <2>4
  <1>2. QED
    BY <1>1, Invariant, PTL

\* With any number of runs and faults: a run that fails leaves nothing behind but what it
\* could not remove (the roll-back and the deferred removal in writeBundle).
THEOREM FailureLeaves == Spec => []FailureLeavesNothing
  <1>1. ASSUME IInv PROVE FailureLeavesNothing
    <2> SUFFICES ASSUME NEW r \in Runs, pc[r] = "failed"
                 PROVE  /\ {temps[r][n] : n \in DOMAIN temps[r]} \subseteq stuck[r]
                        /\ ~opt[r].force => {file \in Published(opt[r].out) : file.by = r} \subseteq stuck[r]
      BY DEF FailureLeavesNothing
    <2>1. Left(r)
      BY <1>1 DEF IInv, LeftInv
    <2>2. ~opt[r].force => Cleared(r)
      BY <2>1 DEF Left
    <2>3. {temps[r][n] : n \in DOMAIN temps[r]} \subseteq stuck[r]
      BY <2>1 DEF Left
    <2>4. QED
      BY <2>2, <2>3 DEF Cleared, Published
  <1>2. QED
    BY <1>1, Invariant, PTL

\* With any number of runs and faults: the bundle of a run that has succeeded, in a directory
\* that no run with --force writes into, is there, is of one piece, and verifies against the
\* CA beside it for as long as it lives (loadCA, Generate).
THEOREM BundlesVerify == Spec => []BundleVerifies
  <1>1. ASSUME IInv PROVE BundleVerifies
    <2>t. OptInv /\ RunInv /\ HeldInv
      BY <1>1 DEF IInv
    <2> SUFFICES ASSUME NEW r \in Runs, pc[r] = "done", Unforced(opt[r].out)
                 PROVE  LET own   == At(r, 1).data
                            chain == IF opt[r].kind = "ca" THEN own ELSE At(r, 3).data
                        IN  /\ \A n \in Places(r) : At(r, n) # Nil /\ At(r, n).by = r
                            /\ own.key = At(r, 2).data.key
                            /\ chain.isCA /\ own.issuer = chain.key
                            /\ chain.from <= 0 /\ own.until <= chain.until
      BY DEF BundleVerifies
    <2>1. created[r] = Places(r) /\ Acceptable(opt[r]) /\ (opt[r].kind = "ca" \/ Signed(r)) /\ ~opt[r].force
      BY <2>t DEF RunInv, AtWork, Ordered, Started, Staging, Unforced
    <2>2. Holds(r) = Places(r)
      BY <2>1 DEF Holds
    <2>3. \A n \in Places(r) : At(r, n) # Nil /\ At(r, n) = Output(r, n)
      BY <2>t, <2>2 DEF HeldInv
    <2>4. \A n \in Places(r) : At(r, n).by = r
      BY <2>3 DEF Output
    <2>5. 1 \in Places(r) /\ 2 \in Places(r) /\ (opt[r].kind # "ca" => 3 \in Places(r))
      BY <2>1, PlacesOf
    <2>6. /\ ~Secret(Names(opt[r])[1]) /\ Secret(Names(opt[r])[2])
          /\ opt[r].kind # "ca" => ~Secret(Names(opt[r])[3])
      BY <2>1, NamesOf
    <2>7. At(r, 1).data = Certificate(r) /\ At(r, 2).data.key = r /\ (opt[r].kind # "ca" => At(r, 3).data = ca[r])
      BY <2>3, <2>5, <2>6 DEF Output
    <2>8. /\ Certificate(r).key = r /\ Certificate(r).from = -1 /\ Certificate(r).until = Lifetime(opt[r])
          /\ Certificate(r).isCA = (opt[r].kind = "ca")
          /\ Certificate(r).issuer = IF opt[r].kind = "ca" THEN r ELSE signer[r]
      BY DEF Certificate
    <2>9. Lifetime(opt[r]) \in Int
      <3>1. Lifetime(opt[r]) \in 1..MaxDays
        BY <2>1 DEF Acceptable
      <3>2. QED
        BY <3>1, PkiAssumption
    <2>10. CASE opt[r].kind = "ca"
      <3>1. -1 <= 0 /\ Lifetime(opt[r]) <= Lifetime(opt[r])
        BY <2>9
      <3>2. QED
        BY <2>3, <2>4, <2>7, <2>8, <2>10, <3>1
    <2>11. CASE opt[r].kind # "ca"
      BY <2>1, <2>3, <2>4, <2>7, <2>8, <2>11 DEF Signed
    <2>12. QED
      BY <2>10, <2>11
  <1>2. QED
    BY <1>1, Invariant, PTL

\* Only publication and roll-back change a directory.
LEMMA OnlyThese ==
  ASSUME NEW r \in Runs, Step(r) \/ Kill(r), fs' # fs
  PROVE  (Publish(r) /\ CanPublish(r)) \/ RollBack(r)
  <1>1. Begin(r) \/ Check(r) \/ LoadCert(r) \/ LoadKey(r) \/ Fails(r) \/ Kill(r) => fs' = fs
    BY DEF Begin, Check, LoadCert, LoadKey, Fails, Kill, disk
  <1>2. Stage(r) \/ StageFails(r) \/ PublishFails(r) \/ Cleanup(r) => fs' = fs
    BY DEF Stage, StageFails, PublishFails, Cleanup
  <1>3. Publish(r) /\ ~CanPublish(r) => fs' = fs
    BY DEF Publish
  <1>4. QED
    BY <1>1, <1>2, <1>3 DEF Step

\* A step changes a file in a directory without --force only where its run takes it back.
LEMMA OnlyOwnRemoved ==
  ASSUME IInv, Next, NEW d \in Dirs, NEW name \in FileNames,
         Unforced(d), fs[d][name] # Nil, fs'[d][name] # fs[d][name]
  PROVE  fs'[d][name] = Nil /\ fs[d][name].by # Nil /\ pc[fs[d][name].by] = "rollback"
  <1>t. TypeOK /\ OptInv /\ RunInv /\ HeldInv
    BY DEF IInv
  <1>1. PICK r \in Runs : Step(r) \/ Kill(r)
    BY DEF Next
  <1>h. PICK h : h = i[r]
    OBVIOUS
  <1>2. CASE Publish(r) /\ CanPublish(r)
    <2>1. /\ pc[r] = "publish" /\ Put(r, temps[r][i[r]])
          /\ DOMAIN temps[r] \subseteq 1..3 /\ (\A n \in DOMAIN temps[r] : temps[r][n] \in Files)
      BY <1>t, <1>2 DEF Publish, TypeOK
    <2>2. Acceptable(opt[r]) /\ i[r] \in Places(r) /\ \A n \in Places(r) : n >= i[r] => n \in DOMAIN temps[r]
      BY <2>1, StageState
    <2>3. temps[r][i[r]] \in Files \cup {Nil}
      <3>1. i[r] >= i[r]
        BY <2>2, PlacesOf
      <3>2. QED
        BY <2>1, <2>2, <3>1
    <2>4. d = opt[r].out /\ name = Names(opt[r])[i[r]]
      BY <1>t, <2>1, <2>2, <2>3, PutStep
    <2>5. At(r, i[r]) = Nil
      BY <1>2, <2>4 DEF Unforced, CanPublish
    <2>6. QED
      BY <2>4, <2>5 DEF At
  <1>3. CASE RollBack(r)
    <2>1. /\ h \in Holds(r)
          /\ \/ fs'[d][name] = fs[d][name]
             \/ d = opt[r].out /\ name = Names(opt[r])[h] /\ fs'[d][name] = Nil
      BY <1>h, <1>3, RemovedOne
    <2>2. d = opt[r].out /\ name = Names(opt[r])[h] /\ fs'[d][name] = Nil
      BY <2>1
    <2>3. fs[d][name] = Output(r, h)
      BY <1>t, <2>1, <2>2 DEF HeldInv, At
    <2>4. Output(r, h).by = r /\ r # Nil /\ pc[r] = "rollback"
      BY <1>3, PkiAssumption DEF Output, RollBack
    <2>5. QED
      BY <2>2, <2>3, <2>4
  <1>4. QED
    BY <1>1, <1>2, <1>3, OnlyThese

\* With any number of runs and faults: where no run with --force writes, no run replaces or
\* removes a file it did not put there, although its roll-back goes by name (writeBundle).
THEOREM OthersArePreserved == Spec => OthersPreserved
  <1>1. IInv /\ [Next]_vars =>
          [\A d \in Dirs, name \in FileNames :
             Unforced(d) /\ fs[d][name] # Nil /\ fs'[d][name] # fs[d][name] =>
               /\ fs'[d][name] = Nil
               /\ fs[d][name].by # Nil
               /\ pc[fs[d][name].by] = "rollback"]_vars
    BY OnlyOwnRemoved
  <1>2. QED
    BY <1>1, Invariant, PTL DEF Spec, OthersPreserved

-----------------------------------------------------------------------------
(* Runs that compete for a directory *)

\* The directory was empty, and nobody uses --force, fails or is killed.
Fair(d) == Unforced(d) /\ faults = 0 /\ \A name \in FileNames : InitialFiles[d][name] = Nil

\* The run has published something, and no file has been in its way.
Prevails(r) ==
  /\ created[r] # {}
  /\ pc[r] \in {"publish", "done"} \/ (pc[r] = "cleanup" /\ created[r] = Places(r))

\* It has published the file that all bundles share.
HasCA(r) == Prevails(r) /\ \E n \in created[r] : Names(opt[r])[n] = "ca.pem"

\* Every file is there for a run that holds its place.
Claimed(d) ==
  \A name \in FileNames : fs[d][name] # Nil =>
    \E r \in Runs : opt[r].out = d /\ \E n \in Holds(r) : Names(opt[r])[n] = name

\* A run gives way only to one that prevails, and takes files back only for one that has
\* ca.pem, which no other run can stop any more.
GivesWay(r) ==
  /\ pc[r] # "killed"
  /\ pc[r] = "rollback" => \E q \in Runs : opt[q].out = opt[r].out /\ HasCA(q)
  /\ pc[r] = "failed" \/ (pc[r] = "cleanup" /\ created[r] # Places(r)) =>
       \E q \in Runs : opt[q].out = opt[r].out /\ Prevails(q)

Race(d) == Claimed(d) /\ \A r \in Runs : opt[r].out = d => GivesWay(r)

RaceInv == \A d \in Dirs : Fair(d) => Race(d)

\* What run r does in its own directory is no harm to the others there.
Harmless(r) ==
  LET d == opt[r].out
  IN  /\ \A name \in FileNames : fs'[d][name] # Nil =>
           fs[d][name] # Nil \/ \E n \in Holds(r)' : Names(opt[r])[n] = name
      /\ \A n \in Holds(r) : n \in Holds(r)' \/ fs'[d][Names(opt[r])[n]] = Nil
      /\ HasCA(r) => HasCA(r)'
      /\ Prevails(r) => Prevails(r)' \/ \E q \in Runs \ {r} : opt[q].out = d /\ HasCA(q)
      /\ GivesWay(r)'

\* A run that does not move prevails as before.
LEMMA UnmovedRace ==
  ASSUME NEW r, Frame(r), NEW q \in Runs \ {r}
  PROVE  /\ Prevails(q)' <=> Prevails(q)
         /\ HasCA(q)' <=> HasCA(q)
         /\ Holds(q)' = Holds(q) /\ Places(q)' = Places(q) /\ pc'[q] = pc[q] /\ created'[q] = created[q]
  <1>1. Holds(q)' = Holds(q) /\ Places(q)' = Places(q)
    BY Unmoved
  <1>2. pc'[q] = pc[q] /\ created'[q] = created[q] /\ opt' = opt
    BY DEF Frame
  <1>3. Prevails(q)' <=> Prevails(q)
    BY <1>1, <1>2 DEF Prevails
  <1>4. HasCA(q)' <=> HasCA(q)
    BY <1>2, <1>3 DEF HasCA
  <1>5. QED
    BY <1>1, <1>2, <1>3, <1>4

\* The race goes on after a harmless step.
LEMMA RaceStep ==
  ASSUME RaceInv, NEW r \in Runs, Frame(r), faults' = 0 => faults = 0,
         \A d \in Dirs : d # opt[r].out => \A name \in FileNames : fs'[d][name] = fs[d][name],
         Fair(opt[r].out) /\ faults' = 0 => Harmless(r)
  PROVE  RaceInv'
  <1> SUFFICES ASSUME NEW d \in Dirs, Fair(d)' PROVE Race(d)'
    BY DEF RaceInv
  <1>1. opt' = opt
    BY DEF Frame
  <1>2. Fair(d) /\ faults' = 0
    BY <1>1 DEF Fair, Unforced
  <1>3. Claimed(d) /\ \A q \in Runs : opt[q].out = d => GivesWay(q)
    BY <1>2 DEF RaceInv, Race
  <1>4. d = opt[r].out => Harmless(r)
    BY <1>2
  <1>5. Claimed(d)'
    <2> SUFFICES ASSUME NEW name \in FileNames, fs'[d][name] # Nil
                 PROVE  \E q \in Runs : opt[q].out = d /\ \E n \in Holds(q)' : Names(opt[q])[n] = name
      BY <1>1 DEF Claimed
    <2>1. CASE fs[d][name] = Nil
      <3>1. d = opt[r].out
        BY <2>1
      <3>2. QED
        BY <1>4, <2>1, <3>1 DEF Harmless
    <2>2. CASE fs[d][name] # Nil
      <3>1. PICK q \in Runs : opt[q].out = d /\ \E n \in Holds(q) : Names(opt[q])[n] = name
        BY <1>3, <2>2 DEF Claimed
      <3>2. PICK n \in Holds(q) : Names(opt[q])[n] = name
        BY <3>1
      <3>3. CASE q = r
        BY <1>4, <3>1, <3>2, <3>3 DEF Harmless
      <3>4. CASE q # r
        BY <3>1, <3>2, <3>4, UnmovedRace
      <3>5. QED
        BY <3>3, <3>4
    <2>3. QED
      BY <2>1, <2>2
  <1>6. ASSUME NEW q \in Runs, opt[q].out = d, HasCA(q) PROVE \E p \in Runs : opt[p].out = d /\ HasCA(p)'
    <2>1. CASE q = r
      BY <1>4, <1>6, <2>1 DEF Harmless
    <2>2. CASE q # r
      BY <1>6, <2>2, UnmovedRace
    <2>3. QED
      BY <2>1, <2>2
  <1>7. ASSUME NEW q \in Runs, opt[q].out = d, Prevails(q) PROVE \E p \in Runs : opt[p].out = d /\ Prevails(p)'
    <2>1. CASE q = r
      <3>1. Prevails(r)' \/ \E p \in Runs \ {r} : opt[p].out = d /\ HasCA(p)
        BY <1>4, <1>7, <2>1 DEF Harmless
      <3>2. ASSUME NEW p \in Runs \ {r}, opt[p].out = d, HasCA(p) PROVE Prevails(p)'
        BY <3>2, UnmovedRace DEF HasCA
      <3>3. QED
        BY <1>7, <2>1, <3>1, <3>2
    <2>2. CASE q # r
      BY <1>7, <2>2, UnmovedRace
    <2>3. QED
      BY <2>1, <2>2
  <1>8. ASSUME NEW q \in Runs, opt[q].out = d PROVE GivesWay(q)'
    <2>1. CASE q = r
      BY <1>4, <1>8, <2>1 DEF Harmless
    <2>2. CASE q # r
      <3>1. /\ Places(q)' = Places(q) /\ pc'[q] = pc[q] /\ created'[q] = created[q]
        BY <2>2, UnmovedRace
      <3>2. GivesWay(q)
        BY <1>3, <1>8
      <3>3. pc'[q] = "rollback" => \E p \in Runs : opt[p].out = d /\ HasCA(p)'
        BY <1>6, <1>8, <3>1, <3>2 DEF GivesWay
      <3>4. pc'[q] = "failed" \/ (pc'[q] = "cleanup" /\ created'[q] # Places(q)') =>
              \E p \in Runs : opt[p].out = d /\ Prevails(p)'
        BY <1>7, <1>8, <3>1, <3>2 DEF GivesWay
      <3>5. QED
        BY <1>1, <1>8, <3>1, <3>2, <3>3, <3>4 DEF GivesWay
    <2>3. QED
      BY <2>1, <2>2
  <1>9. QED
    BY <1>1, <1>5, <1>8 DEF Race

\* Where there is a file, there is a run that prevails.
LEMMA SomePrevails ==
  ASSUME NEW d, Race(d), NEW name \in FileNames, fs[d][name] # Nil
  PROVE  \E q \in Runs : opt[q].out = d /\ Prevails(q)
  <1>1. PICK q \in Runs : opt[q].out = d /\ \E n \in Holds(q) : Names(opt[q])[n] = name
    BY DEF Race, Claimed
  <1>2. PICK n \in Holds(q) : Names(opt[q])[n] = name
    BY <1>1
  <1>3. CASE pc[q] = "rollback"
    BY <1>1, <1>3 DEF Race, GivesWay, HasCA
  <1>4. CASE pc[q] # "rollback"
    <2>1. Prevails(q)
      BY <1>2, <1>4 DEF Holds, Prevails
    <2>2. QED
      BY <1>1, <2>1
  <1>5. QED
    BY <1>3, <1>4

\* A run whose directory is fair does not use --force.
LEMMA FairRun ==
  ASSUME NEW r \in Runs, Fair(opt[r].out)
  PROVE  ~opt[r].force
  BY DEF Fair, Unforced

\* The step of a run that has published nothing is harmless, if it is not killed and gives
\* way, if at all, to a file.
LEMMA QuietRace ==
  ASSUME NEW r \in Runs, Frame(r), Race(opt[r].out), created[r] = {}, UNCHANGED <<fs, created>>,
         pc'[r] # "killed", pc'[r] # "rollback",
         pc'[r] \in {"failed", "cleanup"} => \E name \in FileNames : fs[opt[r].out][name] # Nil
  PROVE  Harmless(r)
  <1>1. Holds(r) = {} /\ ~Prevails(r) /\ ~HasCA(r) /\ opt' = opt
    BY DEF Holds, Prevails, HasCA, Frame
  <1>2. pc'[r] \in {"failed", "cleanup"} => \E q \in Runs : opt[q].out = opt[r].out /\ Prevails(q)'
    <2> SUFFICES ASSUME pc'[r] \in {"failed", "cleanup"} PROVE \E q \in Runs : opt[q].out = opt[r].out /\ Prevails(q)'
      OBVIOUS
    <2>1. PICK q \in Runs : opt[q].out = opt[r].out /\ Prevails(q)
      BY SomePrevails
    <2>2. q # r
      BY <1>1, <2>1
    <2>3. QED
      BY <2>1, <2>2, UnmovedRace
  <1>3. GivesWay(r)'
    BY <1>1, <1>2 DEF GivesWay
  <1>4. QED
    BY <1>1, <1>3 DEF Harmless

\* A run that does not take anything back and holds a place holds the first one too.
LEMMA FirstHeld ==
  ASSUME OptInv, RunInv, NEW p \in Runs, NEW n \in Holds(p), pc[p] # "rollback"
  PROVE  1 \in Holds(p) /\ Prevails(p)
  <1>1. /\ n \in created[p] /\ Acceptable(opt[p]) /\ n \in {1, 2, 3}
        /\ Holds(p) = created[p]
        /\ pc[p] \in {"publish", "done"} \/ (pc[p] = "cleanup" /\ created[p] = Places(p))
    BY HeldPlaces, CreatedPlaces DEF Holds
  <1>2. Ordered(p) /\ AtWork(p)
    BY DEF RunInv
  <1>3. CASE pc[p] = "publish"
    <2>1. created[p] = 1..(i[p] - 1) /\ i[p] \in Places(p)
      BY <1>2, <1>3 DEF Ordered, AtWork
    <2>2. i[p] \in {1, 2, 3}
      BY <1>1, <2>1, PlacesOf
    <2>3. 1 \in created[p]
      BY <1>1, <2>1, <2>2
    <2>4. QED
      BY <1>1, <2>3 DEF Prevails
  <1>4. CASE created[p] = Places(p)
    <2>1. 1 \in created[p]
      BY <1>1, <1>4, PlacesOf
    <2>2. QED
      BY <1>1, <2>1 DEF Prevails
  <1>5. QED
    BY <1>1, <1>2, <1>3, <1>4 DEF Ordered

\* Which run may want which name, and at which of its places.
LEMMA NamesApart ==
  ASSUME NEW o, NEW n \in DOMAIN Names(o), Acceptable(o)
  PROVE  /\ Names(o)[n] = "ca.pem" <=> n = IF o.kind = "ca" THEN 1 ELSE 3
         /\ Names(o)[n] = "ca-key.pem" <=> o.kind = "ca" /\ n = 2
         /\ Names(o)[n] = "server-key.pem" <=> o.kind = "server" /\ n = 2
         /\ Names(o)[n] = "key.pem" <=> o.kind = "client" /\ n = 2
  <1>1. CASE o.kind = "ca"
    <2>1. Names(o) = <<"ca.pem", "ca-key.pem">> /\ n \in {1, 2}
      BY <1>1 DEF Names
    <2>2. QED
      BY <1>1, <2>1
  <1>2. CASE o.kind = "server"
    <2>1. Names(o) = <<"server-cert.pem", "server-key.pem", "ca.pem">> /\ n \in {1, 2, 3}
      BY <1>2 DEF Names
    <2>2. QED
      BY <1>2, <2>1
  <1>3. CASE o.kind = "client"
    <2>1. Names(o) = <<"cert.pem", "key.pem", "ca.pem">> /\ n \in {1, 2, 3}
      BY <1>3 DEF Names
    <2>2. QED
      BY <1>3, <2>1
  <1>4. QED
    BY <1>1, <1>2, <1>3 DEF Acceptable

\* The order of publication: a run that has published something and finds a file in its way
\* finds ca.pem in the hands of another run, and has not got it itself.
LEMMA Blocked ==
  ASSUME IInv, NEW r \in Runs, Fair(opt[r].out), Race(opt[r].out), pc[r] = "publish", created[r] # {},
         At(r, i[r]) # Nil
  PROVE  ~HasCA(r) /\ \E q \in Runs \ {r} : opt[q].out = opt[r].out /\ HasCA(q)
  <1>t. OptInv /\ RunInv /\ HeldInv /\ ~opt[r].force
    BY FairRun DEF IInv
  <1>1. /\ Acceptable(opt[r]) /\ i[r] \in Places(r) /\ created[r] = 1..(i[r] - 1)
    BY StageState
  <1>2. i[r] \in {1, 2, 3} /\ (opt[r].kind = "ca" => i[r] # 3)
    BY <1>1, PlacesOf
  <1>3. i[r] \in {2, 3} /\ 1 \in created[r] /\ i[r] \notin created[r] /\ Holds(r) = created[r]
    BY <1>t, <1>1, <1>2 DEF Holds
  <1> DEFINE x == Names(opt[r])[i[r]]
  <1>4. x \in FileNames /\ fs[opt[r].out][x] # Nil
    BY <1>1, NamesOf DEF At, Places
  <1>5. PICK p \in Runs : opt[p].out = opt[r].out /\ \E n \in Holds(p) : Names(opt[p])[n] = x
    BY <1>4 DEF Race, Claimed
  <1>6. PICK n \in Holds(p) : Names(opt[p])[n] = x
    BY <1>5
  <1>7. /\ n \in created[p] /\ Acceptable(opt[p]) /\ n \in DOMAIN Names(opt[p]) /\ n \in {1, 2, 3}
    BY <1>t, HeldPlaces, CreatedPlaces DEF Places
  <1>8. p # r
    <2>1. SUFFICES ASSUME p = r PROVE FALSE
      OBVIOUS
    <2>2. n # i[r]
      BY <1>3, <1>7, <2>1
    <2>3. QED
      BY <1>1, <1>6, <1>7, <2>1, <2>2, NamesOf DEF Places
  \* Both would hold the first place of one kind of bundle.
  <1>9. pc[p] # "rollback" => Names(opt[p])[1] # Names(opt[r])[1]
    <2> SUFFICES ASSUME pc[p] # "rollback", Names(opt[p])[1] = Names(opt[r])[1] PROVE FALSE
      OBVIOUS
    <2>1. 1 \in Holds(p) /\ 1 \in Holds(r)
      BY <1>t, <1>3, FirstHeld
    <2>2. p \in Runs \ {r} /\ r \in Runs \ {p}
      BY <1>8
    <2>3. QED
      BY <1>t, <1>5, <2>1, <2>2 DEF HeldInv
  <1>10. CASE i[r] = 2
    <2>1. opt[p].kind = opt[r].kind /\ n = 2
      <3>1. /\ opt[r].kind = "ca" => x = "ca-key.pem"
            /\ opt[r].kind = "server" => x = "server-key.pem"
            /\ opt[r].kind = "client" => x = "key.pem"
        BY <1>1, <1>10, NamesApart DEF Places
      <3>2. opt[r].kind \in {"ca", "server", "client"}
        BY <1>1 DEF Acceptable
      <3>3. QED
        BY <1>6, <1>7, <3>1, <3>2, NamesApart
    <2>2. Names(opt[p]) = Names(opt[r])
      BY <2>1 DEF Names
    <2>3. pc[p] = "rollback"
      BY <1>9, <2>2
    <2>4. opt[r].kind # "ca"
      <3> SUFFICES ASSUME opt[r].kind = "ca" PROVE FALSE
        OBVIOUS
      <3>1. Len(Names(opt[p])) = 2
        BY <1>7, <2>1, NamesOf
      <3>2. PICK m \in 1..2 : created[p] = 1..m /\ m < 2
        BY <1>t, <2>3, <3>1 DEF RunInv, Ordered
      <3>3. QED
        BY <1>7, <2>1, <3>2
    <2>5. ~HasCA(r)
      <3>1. \A l \in created[r] : l # 3 /\ l \in Places(r)
        BY <1>1, <1>2, <1>10, PlacesOf
      <3>2. QED
        BY <1>1, <2>4, <3>1, NamesApart DEF HasCA, Places
    <2>6. GivesWay(p)
      BY <1>5 DEF Race
    <2>7. PICK q \in Runs : opt[q].out = opt[p].out /\ HasCA(q)
      BY <2>3, <2>6 DEF GivesWay
    <2>8. QED
      BY <1>5, <2>5, <2>7
  <1>11. CASE i[r] = 3
    <2>1. opt[r].kind # "ca" /\ x = "ca.pem"
      BY <1>1, <1>2, <1>11, NamesApart DEF Places
    <2>2. ~HasCA(r)
      <3>1. \A l \in created[r] : l # 3 /\ l \in Places(r)
        BY <1>1, <1>2, <1>11, PlacesOf
      <3>2. QED
        BY <1>1, <2>1, <3>1, NamesApart DEF HasCA, Places
    <2>3. CASE pc[p] = "rollback"
      <3>1. GivesWay(p)
        BY <1>5 DEF Race
      <3>2. PICK q \in Runs : opt[q].out = opt[p].out /\ HasCA(q)
        BY <2>3, <3>1 DEF GivesWay
      <3>3. QED
        BY <1>5, <2>2, <3>2
    <2>4. CASE pc[p] # "rollback"
      <3>1. Prevails(p)
        BY <1>t, <2>4, FirstHeld
      <3>2. HasCA(p)
        BY <1>6, <1>7, <2>1, <3>1 DEF HasCA
      <3>3. QED
        BY <1>5, <1>8, <2>2, <3>2
    <2>5. QED
      BY <2>3, <2>4
  <1>12. QED
    BY <1>3, <1>10, <1>11

\* A step of a run moves no other.
LEMMA StepFrame ==
  ASSUME TypeOK, NEW r \in Runs, Step(r) \/ Kill(r)
  PROVE  Frame(r) /\ faults' \in {faults, faults + 1}
  <1> USE DEF TypeOK, Frame, Go, loaded, disk
  <1>1. CASE Begin(r)
    BY <1>1 DEF Begin
  <1>2. CASE Check(r)
    BY <1>2 DEF Check, Advance
  <1>3. CASE LoadCert(r)
    BY <1>3 DEF LoadCert
  <1>4. CASE LoadKey(r)
    BY <1>4 DEF LoadKey
  <1>5. CASE Fails(r)
    BY <1>5 DEF Fails, Fault
  <1>6. CASE Stage(r)
    <2>1. \A q \in Runs \ {r} : temps'[q] = temps[q]
      BY <1>6 DEF Stage, AddTemp
    <2>2. QED
      BY <1>6, <2>1 DEF Stage, Advance
  <1>7. CASE StageFails(r)
    <2>1. \A q \in Runs \ {r} : temps'[q] = temps[q]
      BY <1>7 DEF StageFails, AddTemp
    <2>2. QED
      BY <1>7, <2>1 DEF StageFails, StageError, Fault
  <1>8. CASE Publish(r)
    <2>1. \A q \in Runs \ {r} : temps'[q] = temps[q]
      BY <1>8 DEF Publish
    <2>2. QED
      BY <1>8, <2>1 DEF Publish, Advance, AfterFailure
  <1>9. CASE PublishFails(r)
    BY <1>9 DEF PublishFails, AfterFailure, Fault
  <1>10. CASE RollBack(r)
    BY <1>10 DEF RollBack, Fault
  <1>11. CASE Cleanup(r)
    BY <1>11 DEF Cleanup, Fault
  <1>12. CASE Kill(r)
    BY <1>12 DEF Kill, Fault
  <1>13. QED
    BY <1>1, <1>2, <1>3, <1>4, <1>5, <1>6, <1>7, <1>8, <1>9, <1>10, <1>11, <1>12 DEF Step

\* Publication of a file: the run holds one place more, or gives way.
LEMMA PublishRace ==
  ASSUME IInv, NEW r \in Runs, Fair(opt[r].out), Race(opt[r].out), Frame(r), Publish(r)
  PROVE  Harmless(r)
  <1>t. TypeOK /\ OptInv /\ RunInv /\ ~opt[r].force /\ opt' = opt /\ pc[r] = "publish"
        /\ created \in [Runs -> SUBSET (1..3)] /\ pc \in [Runs -> PCs] /\ i \in [Runs -> 1..4]
    BY FairRun DEF IInv, Publish, loaded, TypeOK
  <1>1. /\ Acceptable(opt[r]) /\ i[r] \in Places(r) /\ created[r] = 1..(i[r] - 1)
        /\ Places(r)' = Places(r) /\ opt[r].out \in Dirs /\ Names(opt[r])[i[r]] \in FileNames
    BY <1>t, StageState, OptionTypes, NamesOf DEF Places
  <1>2. Holds(r) = created[r]
    BY <1>t DEF Holds
  <1>3. CASE CanPublish(r)
    <2>1. /\ fs' = [fs EXCEPT ![opt[r].out][Names(opt[r])[i[r]]] = temps[r][i[r]]]
          /\ created' = [created EXCEPT ![r] = @ \cup {i[r]}]
          /\ Advance(r, "publish", "cleanup")
      BY <1>3 DEF Publish, Put
    <2>2. created'[r] = created[r] \cup {i[r]}
      BY <1>t, <2>1
    <2>3. \/ pc'[r] = "publish"
          \/ pc'[r] = "cleanup" /\ created'[r] = Places(r)
      <3>1. \/ i[r] = Len(Names(opt[r])) /\ pc' = [pc EXCEPT ![r] = "cleanup"]
            \/ pc' = [pc EXCEPT ![r] = "publish"]
        BY <1>1, <2>1, AdvanceStep
      <3>2. CASE pc' = [pc EXCEPT ![r] = "publish"]
        BY <1>t, <3>2
      <3>3. CASE i[r] = Len(Names(opt[r])) /\ pc' = [pc EXCEPT ![r] = "cleanup"]
        <4>1. Places(r) = 1..i[r] /\ i[r] \in {2, 3}
          BY <1>1, <3>3, PlacesOf
        <4>2. created'[r] = Places(r)
          BY <1>1, <2>2, <4>1
        <4>3. QED
          BY <1>t, <3>3, <4>2
      <3>4. QED
        BY <3>1, <3>2, <3>3
    <2>4. Holds(r)' = created'[r] /\ Prevails(r)'
      BY <1>t, <1>1, <2>2, <2>3 DEF Holds, Prevails
    <2>5. HasCA(r) => HasCA(r)'
      BY <1>t, <2>2, <2>4 DEF HasCA
    <2>6. GivesWay(r)'
      BY <1>1, <2>3 DEF GivesWay
    <2>7. \A name \in FileNames : name # Names(opt[r])[i[r]] => fs'[opt[r].out][name] = fs[opt[r].out][name]
      BY <1>t, <1>1, <2>1 DEF TypeOK, Disks
    <2>8. \A name \in FileNames : fs'[opt[r].out][name] # Nil =>
            fs[opt[r].out][name] # Nil \/ \E n \in Holds(r)' : Names(opt[r])[n] = name
      BY <2>2, <2>4, <2>7
    <2>9. QED
      BY <1>2, <2>2, <2>4, <2>5, <2>6, <2>8 DEF Harmless
  <1>4. CASE ~CanPublish(r)
    <2>1. AfterFailure(r) /\ UNCHANGED <<fs, created>> /\ At(r, i[r]) # Nil
      BY <1>4 DEF Publish, AfterFailure, CanPublish
    <2>2. CASE created[r] = {}
      <3>1. pc'[r] = "cleanup"
        BY <1>t, <2>1, <2>2 DEF AfterFailure, Go
      <3>2. fs[opt[r].out][Names(opt[r])[i[r]]] # Nil
        BY <2>1 DEF At
      <3>3. QED
        BY <1>1, <2>1, <2>2, <3>1, <3>2, QuietRace
    <2>3. CASE created[r] # {}
      <3>1. pc'[r] = "rollback" /\ i'[r] = 1
        BY <1>t, <2>1, <2>3 DEF AfterFailure, Go
      <3>2. Holds(r)' = created[r]
        <4>1. \A n \in created[r] : n >= 1
          BY <1>t
        <4>2. QED
          BY <1>t, <2>1, <3>1, <4>1 DEF Holds
      <3>3. ~HasCA(r) /\ \E q \in Runs \ {r} : opt[q].out = opt[r].out /\ HasCA(q)
        BY <1>t, <2>1, <2>3, Blocked
      <3>4. GivesWay(r)'
        BY <1>t, <3>1, <3>3, UnmovedRace DEF GivesWay
      <3>5. QED
        BY <1>2, <2>1, <3>2, <3>3, <3>4 DEF Harmless
    <2>4. QED
      BY <2>2, <2>3
  <1>5. QED
    BY <1>3, <1>4

\* The roll-back lets go of one place after the other, with the file.
LEMMA RollBackRace ==
  ASSUME IInv, NEW r \in Runs, Fair(opt[r].out), Race(opt[r].out), Frame(r), RollBack(r), faults' = faults
  PROVE  Harmless(r)
  <1>t. TypeOK /\ OptInv /\ RunInv /\ ~opt[r].force /\ opt' = opt /\ pc[r] = "rollback" /\ created' = created
        /\ pc \in [Runs -> PCs] /\ i \in [Runs -> 1..4] /\ faults \in Nat
    BY FairRun DEF IInv, RollBack, loaded, TypeOK
  <1>1. PICK m \in 1..2 : created[r] = 1..m /\ i[r] <= m /\ m < Len(Names(opt[r]))
    BY <1>t DEF RunInv, Ordered
  <1>2. Acceptable(opt[r]) /\ i[r] \in Places(r)
    BY RemovedOne
  <1>3. Places(r) = 1..Len(Names(opt[r])) /\ Len(Names(opt[r])) \in {2, 3} /\ created[r] # Places(r)
        /\ Places(r)' = Places(r)
    <2>1. Places(r) = 1..Len(Names(opt[r])) /\ Len(Names(opt[r])) \in {2, 3}
      BY <1>2, PlacesOf
    <2>2. Len(Names(opt[r])) \in Places(r) /\ Len(Names(opt[r])) \notin created[r]
      BY <1>1, <2>1
    <2>3. QED
      BY <1>t, <2>1, <2>2 DEF Places
  <1>4. Cardinality(created[r]) = m
    <2>1. m \in Int /\ 1 \in Int /\ ~(1 > m) /\ m - 1 + 1 = m
      BY <1>1
    <2>2. QED
      BY <1>1, <2>1, FS_Interval
  <1>5. Put(r, Nil)
    BY <1>t DEF RollBack, Fault
  <1>6. /\ fs'[opt[r].out][Names(opt[r])[i[r]]] = Nil
        /\ \A name \in FileNames : fs'[opt[r].out][name] # Nil => fs[opt[r].out][name] # Nil
    <2>1. opt[r].out \in Dirs
      BY <1>t, OptionTypes
    <2>2. /\ fs'[opt[r].out][Names(opt[r])[i[r]]] = Nil
          /\ \A d \in Dirs, name \in FileNames :
               ~(d = opt[r].out /\ name = Names(opt[r])[i[r]]) => fs'[d][name] = fs[d][name]
      BY <1>t, <1>2, <1>5, PutStep
    <2>3. \A name \in FileNames : fs'[opt[r].out][name] # Nil => fs[opt[r].out][name] # Nil
      BY <2>1, <2>2
    <2>4. QED
      BY <2>2, <2>3
  <1>7. ~Prevails(r) /\ ~HasCA(r)
    BY <1>t DEF Prevails, HasCA
  <1>8. \E q \in Runs \ {r} : opt[q].out = opt[r].out /\ HasCA(q)
    <2>1. GivesWay(r)
      BY DEF Race
    <2>2. QED
      BY <1>t, <1>7, <2>1 DEF GivesWay
  <1>9. PICK q \in Runs \ {r} : opt[q].out = opt[r].out /\ HasCA(q)' /\ Prevails(q)'
    BY <1>8, UnmovedRace DEF HasCA
  <1>10. \/ i[r] = m /\ pc'[r] = "cleanup"
         \/ i'[r] = i[r] + 1 /\ pc'[r] = "rollback"
    <2>1. CASE i[r] = Cardinality(created[r])
      BY <1>t, <1>4, <2>1 DEF RollBack, Go
    <2>2. CASE i[r] # Cardinality(created[r])
      <3>1. i' = [i EXCEPT ![r] = @ + 1] /\ UNCHANGED pc
        BY <2>2 DEF RollBack
      <3>2. QED
        BY <1>t, <3>1
    <2>3. QED
      BY <2>1, <2>2
  <1>11. GivesWay(r)'
    BY <1>t, <1>9, <1>10 DEF GivesWay
  <1>12. \A n \in Holds(r) : n = i[r] \/ n \in Holds(r)'
    <2> SUFFICES ASSUME NEW n \in Holds(r), n # i[r] PROVE n \in Holds(r)'
      OBVIOUS
    <2>1. n \in 1..m /\ n >= i[r] /\ i[r] \in 1..4
      BY <1>t, <1>1 DEF Holds
    <2>2. i[r] # m /\ n >= i[r] + 1
      BY <1>1, <2>1
    <2>3. i'[r] = i[r] + 1 /\ pc'[r] = "rollback"
      BY <1>10, <2>2
    <2>4. QED
      BY <1>t, <1>1, <2>1, <2>2, <2>3 DEF Holds
  <1>13. \A n \in Holds(r) : n \in Holds(r)' \/ fs'[opt[r].out][Names(opt[r])[n]] = Nil
    BY <1>6, <1>12
  <1>14. QED
    BY <1>6, <1>7, <1>11, <1>13 DEF Harmless

\* The end of writeBundle: with everything published, or giving way as before.
LEMMA CleanupRace ==
  ASSUME IInv, NEW r \in Runs, Fair(opt[r].out), Race(opt[r].out), Frame(r), Cleanup(r)
  PROVE  Harmless(r)
  <1>t. ~opt[r].force /\ opt' = opt /\ pc[r] = "cleanup" /\ UNCHANGED <<fs, created>> /\ pc \in [Runs -> PCs]
        /\ pc' = [pc EXCEPT ![r] = IF created[r] = Places(r) THEN "done" ELSE "failed"]
    BY FairRun DEF IInv, Cleanup, loaded, TypeOK, Go
  <1>1. Places(r)' = Places(r)
    BY <1>t DEF Places
  <1>2. CASE created[r] = Places(r)
    <2>1. pc'[r] = "done"
      BY <1>t, <1>2
    <2>2. Holds(r)' = Holds(r) /\ (Prevails(r)' <=> Prevails(r))
      BY <1>t, <1>1, <1>2, <2>1 DEF Holds, Prevails
    <2>3. HasCA(r)' <=> HasCA(r)
      BY <1>t, <2>2 DEF HasCA
    <2>4. GivesWay(r)'
      BY <2>1 DEF GivesWay
    <2>5. QED
      BY <1>t, <2>2, <2>3, <2>4 DEF Harmless
  <1>3. CASE created[r] # Places(r)
    <2>1. pc'[r] = "failed"
      BY <1>t, <1>3
    <2>2. Holds(r) = {} /\ ~Prevails(r) /\ ~HasCA(r)
      BY <1>t, <1>3 DEF Holds, Prevails, HasCA
    <2>3. PICK q \in Runs : opt[q].out = opt[r].out /\ Prevails(q)
      BY <1>t, <1>3 DEF Race, GivesWay
    <2>4. Prevails(q)'
      BY <2>2, <2>3, UnmovedRace
    <2>5. GivesWay(r)'
      BY <1>t, <2>1, <2>3, <2>4 DEF GivesWay
    <2>6. QED
      BY <1>t, <2>2, <2>5 DEF Harmless
  <1>4. QED
    BY <1>2, <1>3

\* A run that has not come to its bundle yet gives way only to a file it sees.
LEMMA EarlyRace ==
  ASSUME IInv, NEW r \in Runs, Race(opt[r].out), Frame(r),
         Begin(r) \/ Check(r) \/ LoadCert(r) \/ LoadKey(r) \/ Stage(r)
  PROVE  Harmless(r)
  <1>t. OptInv /\ RunInv /\ pc \in [Runs -> PCs]
    BY DEF IInv, TypeOK
  <1>1. pc[r] \in Unstaged \cup {"stage"} /\ UNCHANGED <<fs, created>>
    BY DEF Begin, Check, LoadCert, LoadKey, Stage, Unstaged, disk
  <1>2. created[r] = {}
    BY <1>t, <1>1 DEF RunInv, Ordered
  <1>3. CASE Check(r) /\ At(r, i[r]) # Nil
    <2>1. pc'[r] = "failed"
      BY <1>t, <1>3 DEF Check, Go
    <2>2. Acceptable(opt[r]) /\ i[r] \in Places(r)
      BY <1>t, <1>3 DEF RunInv, AtWork, Check, Started
    <2>3. Names(opt[r])[i[r]] \in FileNames /\ fs[opt[r].out][Names(opt[r])[i[r]]] # Nil
      BY <1>3, <2>2, NamesOf DEF At, Places
    <2>4. QED
      BY <1>1, <1>2, <2>1, <2>3, QuietRace
  <1>4. CASE ~(Check(r) /\ At(r, i[r]) # Nil)
    <2>1. pc'[r] \in {"refused", "check", "loadCert", "loadKey", "stage", "publish"}
      BY <1>t, <1>4 DEF Begin, Check, LoadCert, LoadKey, Stage, Advance, AfterCheck, Go
    <2>2. QED
      BY <1>1, <1>2, <2>1, QuietRace
  <1>5. QED
    BY <1>3, <1>4

\* Every step keeps the race as it is.
LEMMA NextRace == IInv /\ RaceInv /\ [Next]_vars => RaceInv'
  <1> SUFFICES ASSUME IInv, RaceInv, [Next]_vars PROVE RaceInv'
    OBVIOUS
  <1>1. CASE UNCHANGED vars
    <2>1. UNCHANGED <<opt, fs, pc, i, created, faults>>
      BY <1>1 DEF vars, loaded, disk
    <2>2. \A r : Places(r)' = Places(r) /\ Holds(r)' = Holds(r) /\ (Prevails(r)' <=> Prevails(r))
      BY <2>1 DEF Places, Holds, Prevails
    <2>3. \A r : HasCA(r)' <=> HasCA(r)
      BY <2>1, <2>2 DEF HasCA
    <2>4. \A r : GivesWay(r)' <=> GivesWay(r)
      BY <2>1, <2>2, <2>3 DEF GivesWay
    <2>5. \A d : (Claimed(d)' <=> Claimed(d)) /\ (Fair(d)' <=> Fair(d))
      BY <2>1, <2>2 DEF Claimed, Fair, Unforced
    <2>6. QED
      BY <2>1, <2>4, <2>5 DEF RaceInv, Race
  <1>2. ASSUME NEW r \in Runs, Step(r) \/ Kill(r) PROVE RaceInv'
    <2>t. TypeOK /\ OptInv /\ faults \in Nat /\ opt[r].out \in Dirs
      BY OptionTypes DEF IInv, TypeOK
    <2>1. Frame(r) /\ faults' \in {faults, faults + 1}
      BY <1>2, <2>t, StepFrame
    <2>2. faults' = 0 => faults = 0 /\ ~Fault
      BY <2>t, <2>1 DEF Fault
    <2>3. \A d \in Dirs : d # opt[r].out => \A name \in FileNames : fs'[d][name] = fs[d][name]
      <3>1. CASE Publish(r) /\ CanPublish(r)
        BY <2>t, <3>1 DEF Publish, Put, TypeOK, Disks
      <3>2. CASE RollBack(r)
        BY <2>t, <3>2 DEF RollBack, Put, TypeOK, Disks
      <3>3. QED
        BY <1>2, <3>1, <3>2, OnlyThese
    <2>4. ASSUME Fair(opt[r].out), faults' = 0 PROVE Harmless(r)
      <3>1. Race(opt[r].out)
        BY <2>t, <2>4 DEF RaceInv
      <3>2. ~Fault /\ faults' = faults
        BY <2>2, <2>4
      <3>3. ~(Fails(r) \/ StageFails(r) \/ PublishFails(r) \/ Kill(r))
        BY <3>2 DEF Fails, StageFails, PublishFails, Kill
      <3>4. \/ Begin(r) \/ Check(r) \/ LoadCert(r) \/ LoadKey(r) \/ Stage(r)
            \/ Publish(r) \/ RollBack(r) \/ Cleanup(r)
        BY <1>2, <3>3 DEF Step
      <3>5. QED
        BY <2>1, <2>4, <3>1, <3>2, <3>4, EarlyRace, PublishRace, RollBackRace, CleanupRace
    <2>5. QED
      BY <2>1, <2>2, <2>3, <2>4, RaceStep
  <1>3. QED
    BY <1>1, <1>2 DEF Next

\* Any number of runs without --force that compete for an empty directory do not all give way, whatever
\* their kinds and their order: if all have ended and nothing failed but for files in the
\* way, one has succeeded (the order of the files in Generate).
THEOREM OneSucceeds == Spec => []SomeRunSucceeds
  <1>1. Init => RaceInv
    <2> SUFFICES ASSUME Init, NEW d \in Dirs, Fair(d) PROVE Race(d)
      BY DEF RaceInv
    <2>1. Claimed(d)
      BY DEF Init, Fair, Claimed
    <2>2. \A r \in Runs : GivesWay(r)
      BY DEF Init, GivesWay
    <2>3. QED
      BY <2>1, <2>2 DEF Race
  <1>2. RaceInv => SomeRunSucceeds
    <2> SUFFICES ASSUME RaceInv, NEW d \in Dirs, Fair(d), NEW r \in Runs, opt[r].out = d, pc[r] # "refused",
                        \A q \in Runs : opt[q].out = d /\ pc[q] # "refused" => pc[q] \in Ended
                 PROVE  \E q \in Runs : opt[q].out = d /\ pc[q] # "refused" /\ pc[q] = "done"
      BY DEF SomeRunSucceeds, Fair
    <2>1. Race(d) /\ GivesWay(r)
      BY DEF RaceInv, Race
    <2>2. pc[r] \in {"failed", "done"}
      BY <2>1 DEF Ended, GivesWay
    <2>3. CASE pc[r] = "failed"
      <3>1. PICK q \in Runs : opt[q].out = d /\ Prevails(q)
        BY <2>1, <2>3 DEF GivesWay
      <3>2. pc[q] = "done"
        BY <3>1 DEF Prevails, Ended
      <3>3. QED
        BY <3>1, <3>2
    <2>4. QED
      BY <2>2, <2>3
  <1>3. QED
    BY <1>1, <1>2, Invariant, NextRace, PTL DEF Spec
=============================================================================
