--------------------------- MODULE Service_proofs ---------------------------
(***************************************************************************)
(* Why the service around the controller keeps what it has, for every set  *)
(* of requests, certificates, emitters and readers, and buffers, pages,    *)
(* retentions and bounds of every size: a pair served is of one renewal,   *)
(* the store's certificate is never given up for a worse one, a restart    *)
(* goes on with the records last written, a suspend released in time finds *)
(* nothing running and is released once, every event is accounted for, and *)
(* a client pages through all of them.                                     *)
(***************************************************************************)
EXTENDS MCService, SequenceTheorems, FiniteSetTheorems, WellFoundedInduction, TLAPS

-----------------------------------------------------------------------------
(* The certificate.                                                        *)

TlsPhases == {"down", "keygen", "certgen", "serve", "cert", "key", "stat", "stat2", "fail", "fail2"}

TlsType ==
    /\ source \in {"files", "self_signed", "store"}
    /\ file \in [Tl!Files -> [pair : Nat, time : Nat]]
    /\ served \in [Tl!Files -> Nat] /\ mtimes \in [Tl!Files -> Nat] /\ got \in [Tl!Files -> Nat]
    /\ pc \in TlsPhases /\ problems \in Nat /\ writes \in Nat
    /\ source = "store" => pc \in {"down", "serve"}
    /\ source = "files" => pc \notin {"keygen", "certgen"}

\* What is served or about to be loads; a failed load has a pair to fall back on.
ServedLoads ==
    /\ Tl!ServedIsWhole
    /\ pc \in {"stat", "stat2"} => Tl!Loads(got)
    /\ pc \in {"fail", "fail2"} => served # Tl!None

\* The number of the last write that a look at the times has seen.
Newer(a, b) == IF a > b THEN a ELSE b
Seen == Newer(mtimes["cert"], mtimes["key"])
OnFile == Newer(file["cert"].time, file["key"].time)

\* No two writes have one number, and no time is seen that was not written.
TimesAreWrites ==
    /\ \A f \in Tl!Files : mtimes[f] <= file[f].time /\ file[f].time <= writes
    /\ file["cert"].time = file["key"].time => file["cert"].time = 0

\* Every problem reported is due to a write of its own.  A look at the times
\* takes the certificate's first: a write to the key it does not see comes
\* after both looks, one to the certificate may come between them.
ProblemsAreWrites ==
    /\ served = Tl!None => problems = 0
    /\ pc = "serve" =>
         /\ file["key"].time # mtimes["key"] => file["key"].time > mtimes["cert"]
         /\ problems <= Seen
         /\ file["cert"].time # mtimes["cert"] /\ file["cert"].time < mtimes["key"] => problems < Seen
    /\ served # Tl!None /\ pc \in {"cert", "key", "stat", "fail"} => problems < OnFile
    /\ served # Tl!None /\ pc \in {"stat2", "fail2"} =>
         /\ problems < Newer(mtimes["cert"], file["key"].time)
         /\ file["cert"].time # mtimes["cert"] => problems + 1 < file["cert"].time
    /\ pc = "down" => served = Tl!None

TlsInv == TlsType /\ ServedLoads /\ (source = "files" => TimesAreWrites /\ ProblemsAreWrites)

(* A new start knows of no problem and has read no time.                   *)
LEMMA TlsStarts == Tl!Init /\ Tl!TlsAssumption => TlsInv
<1> SUFFICES ASSUME Tl!Init, Tl!TlsAssumption PROVE TlsInv
  OBVIOUS
<1>1. Pairs \cup {0} \subseteq Nat /\ "cert" \in Tl!Files /\ "key" \in Tl!Files
  BY DEF Tl!TlsAssumption, Tl!Files
<1>2. file \in [Tl!Files -> [pair : Nat, time : Nat]] /\ \A f \in Tl!Files : file[f].time = 0
  BY <1>1 DEF Tl!Init
<1>3. Tl!None \in [Tl!Files -> Nat] /\ \A f \in Tl!Files : Tl!None[f] = 0
  BY DEF Tl!None
<1>4. TlsType
  BY <1>2, <1>3 DEF TlsType, TlsPhases, Tl!Init, Tl!TlsAssumption
<1>5. ServedLoads
  BY DEF ServedLoads, Tl!ServedIsWhole, Tl!Init
<1>6. TimesAreWrites /\ ProblemsAreWrites
  BY <1>1, <1>2, <1>3 DEF TimesAreWrites, ProblemsAreWrites, Tl!Init
<1> QED BY <1>4, <1>5, <1>6 DEF TlsInv

(* The two files, and what the later of two numbers is.                    *)
LEMMA BothFiles == /\ "cert" \in Tl!Files /\ "key" \in Tl!Files /\ Tl!Files = {"cert", "key"}
                   /\ \A f \in Tl!Files : f = "cert" \/ f = "key"
  BY DEF Tl!Files

(* A renewal in between two looks at the files.                            *)
LEMMA RenewCounts ==
    ASSUME TlsInv, Tl!TlsAssumption, Tl!Renew
    PROVE  TlsInv'
<1>1. PICK f \in Tl!Files, i \in Pairs : file' = [file EXCEPT ![f] = [pair |-> i, time |-> writes']]
  BY DEF Tl!Renew
<1>2. /\ writes' = writes + 1 /\ source = "files"
      /\ UNCHANGED <<served, mtimes, pc, got, problems, store, clock, crashes, source>>
  BY DEF Tl!Renew, Tl!unread
<1>3. i \in Nat /\ TlsType
  BY DEF Tl!TlsAssumption, TlsInv
<1>4. TlsType'
  BY <1>1, <1>2, <1>3 DEF TlsType
<1>5. ServedLoads'
  BY <1>2 DEF TlsInv, ServedLoads, Tl!ServedIsWhole, Tl!Loads, Tl!InForce, Tl!None
<1>6. /\ file["cert"] \in [pair : Nat, time : Nat] /\ file["key"] \in [pair : Nat, time : Nat]
      /\ mtimes["cert"] \in Nat /\ mtimes["key"] \in Nat /\ writes \in Nat /\ problems \in Nat
  BY <1>3, BothFiles DEF TlsType
<1>7. /\ mtimes["cert"] <= file["cert"].time /\ file["cert"].time <= writes
      /\ mtimes["key"] <= file["key"].time /\ file["key"].time <= writes
      /\ file["cert"].time = file["key"].time => file["cert"].time = 0
  BY <1>2, BothFiles DEF TlsInv, TimesAreWrites
<1>8. \/ /\ file'["cert"].time = writes + 1 /\ file'["key"] = file["key"]
      \/ /\ file'["key"].time = writes + 1 /\ file'["cert"] = file["cert"]
  BY <1>1, <1>2, <1>3, BothFiles DEF TlsType
<1>9. TimesAreWrites'
  BY <1>2, <1>6, <1>7, <1>8, BothFiles DEF TimesAreWrites
<1>10. ProblemsAreWrites'
  <2> DEFINE c == file["cert"].time  k == file["key"].time  d == file'["cert"].time  l == file'["key"].time
             m == mtimes["cert"]  n == mtimes["key"]
  <2>1. /\ c \in Nat /\ k \in Nat /\ d \in Nat /\ l \in Nat /\ m \in Nat /\ n \in Nat
        /\ (d = writes + 1 /\ l = k) \/ (l = writes + 1 /\ d = c)
        /\ m <= c /\ c <= writes /\ n <= k /\ k <= writes
    BY <1>6, <1>7, <1>8
  <2>2. ProblemsAreWrites
    BY <1>2 DEF TlsInv
  <2>3. /\ served = Tl!None => problems = 0
        /\ pc = "down" => served = Tl!None
    BY <2>2 DEF ProblemsAreWrites
  <2>4. pc = "serve" => (k # n => k > m) /\ problems <= Newer(m, n) /\ (c # m /\ c < n => problems < Newer(m, n))
    BY <2>2 DEF ProblemsAreWrites, Seen
  <2>5. served # Tl!None /\ pc \in {"cert", "key", "stat", "fail"} => problems < Newer(c, k)
    BY <2>2 DEF ProblemsAreWrites, OnFile
  <2>6. served # Tl!None /\ pc \in {"stat2", "fail2"} => problems < Newer(m, k) /\ (c # m => problems + 1 < c)
    BY <2>2 DEF ProblemsAreWrites
  <2> HIDE DEF c, k, d, l, m, n
  <2>7. pc = "serve" => (l # n => l > m) /\ problems <= Newer(m, n) /\ (d # m /\ d < n => problems < Newer(m, n))
    BY <1>6, <2>1, <2>4 DEF Newer
  <2>8. served # Tl!None /\ pc \in {"cert", "key", "stat", "fail"} => problems < Newer(d, l)
    BY <1>6, <2>1, <2>5 DEF Newer
  <2>9. served # Tl!None /\ pc \in {"stat2", "fail2"} => problems < Newer(m, l) /\ (d # m => problems + 1 < d)
    BY <1>6, <2>1, <2>6 DEF Newer
  <2> QED BY <1>2, <2>3, <2>7, <2>8, <2>9 DEF ProblemsAreWrites, Seen, OnFile, c, k, d, l, m, n, Tl!None
<1> QED BY <1>4, <1>5, <1>9, <1>10 DEF TlsInv

(* The manager's own steps: a check, a load, and its result.               *)
LEMMA ManagerCounts ==
    ASSUME TlsInv, Tl!TlsAssumption, Tl!Manager
    PROVE  TlsInv'
<1> USE DEF TlsInv
<1>0. /\ file["cert"] \in [pair : Nat, time : Nat] /\ file["key"] \in [pair : Nat, time : Nat]
      /\ mtimes["cert"] \in Nat /\ mtimes["key"] \in Nat /\ writes \in Nat /\ problems \in Nat
      /\ file["cert"].time \in Nat /\ file["key"].time \in Nat /\ file["cert"].pair \in Nat /\ file["key"].pair \in Nat
  BY BothFiles DEF TlsType
<1>00. Pairs \subseteq Nat \ {0}
  BY DEF Tl!TlsAssumption
<1>t. source = "files" =>
      /\ mtimes["cert"] <= file["cert"].time /\ file["cert"].time <= writes
      /\ mtimes["key"] <= file["key"].time /\ file["key"].time <= writes
      /\ file["cert"].time = file["key"].time => file["cert"].time = 0
  BY BothFiles DEF TimesAreWrites
<1>n. Tl!None \in [Tl!Files -> Nat]
  BY DEF Tl!None
<1>1. CASE Tl!New
  <2>1. TlsType' /\ ServedLoads'
    BY <1>1, <1>n DEF Tl!New, TlsType, TlsPhases, ServedLoads, Tl!ServedIsWhole, Tl!unread, Tl!None
  <2>2. source = "files" => TimesAreWrites' /\ ProblemsAreWrites'
    BY <1>1 DEF Tl!New, TlsType, TimesAreWrites, ProblemsAreWrites, Tl!unread, Tl!None
  <2> QED BY <1>1, <2>1, <2>2 DEF Tl!New, Tl!unread
<1>2. CASE Tl!Check
  <2>1. TlsType' /\ ServedLoads'
    BY <1>2 DEF Tl!Check, TlsType, TlsPhases, ServedLoads, Tl!ServedIsWhole, Tl!unread, Tl!None, Tl!Loads, Tl!InForce
  <2>2. ASSUME source = "files" PROVE TimesAreWrites' /\ ProblemsAreWrites'
    <3>1. file["cert"].time # mtimes["cert"] \/ file["key"].time # mtimes["key"]
      BY <1>2, BothFiles DEF Tl!Check, Tl!filesChanged
    <3>2. /\ file["key"].time # mtimes["key"] => file["key"].time > mtimes["cert"]
          /\ problems <= Seen
          /\ file["cert"].time # mtimes["cert"] /\ file["cert"].time < mtimes["key"] => problems < Seen
      BY <1>2, <2>2 DEF Tl!Check, ProblemsAreWrites
    <3>3. problems < OnFile
      BY <1>0, <1>t, <2>2, <3>1, <3>2 DEF Seen, OnFile, Newer
    <3>4. served = Tl!None => problems = 0
      BY <2>2 DEF ProblemsAreWrites
    <3>5. TimesAreWrites' /\ OnFile' = OnFile
      BY <1>2, <2>2 DEF Tl!Check, TimesAreWrites, OnFile, Newer
    <3> QED BY <1>2, <3>3, <3>4, <3>5 DEF Tl!Check, ProblemsAreWrites, Tl!None
  <2> QED BY <1>2, <2>1, <2>2 DEF Tl!Check, Tl!unread
<1>3. CASE Tl!ReadCert
  <2>1. TlsType' /\ ServedLoads'
    BY <1>0, <1>3 DEF Tl!ReadCert, TlsType, TlsPhases, ServedLoads, Tl!ServedIsWhole, Tl!unread, Tl!None, Tl!Loads, Tl!InForce
  <2>2. source = "files" => TimesAreWrites' /\ ProblemsAreWrites'
    BY <1>3 DEF Tl!ReadCert, TimesAreWrites, ProblemsAreWrites, Seen, OnFile, Newer, Tl!unread, Tl!None
  <2> QED BY <1>3, <2>1, <2>2 DEF Tl!ReadCert, Tl!unread
<1>4. CASE Tl!ReadKey
  <2>1. pc' \in {"stat", "down", "fail"} /\ (pc' = "stat" => Tl!Loads(got')) /\ (pc' = "fail" => served # Tl!None)
        /\ (pc' = "down" => served = Tl!None)
    BY <1>4 DEF Tl!ReadKey
  <2>2. TlsType'
    BY <1>0, <1>4, <2>1 DEF Tl!ReadKey, TlsType, TlsPhases, Tl!unread
  <2>3. ServedLoads'
    BY <1>4, <2>1 DEF Tl!ReadKey, ServedLoads, Tl!ServedIsWhole, Tl!unread, Tl!None, Tl!Loads, Tl!InForce
  <2>4. source = "files" => TimesAreWrites' /\ ProblemsAreWrites'
    BY <1>4, <2>1 DEF Tl!ReadKey, TimesAreWrites, ProblemsAreWrites, Seen, OnFile, Newer, Tl!unread, Tl!None
  <2> QED BY <1>4, <2>2, <2>3, <2>4 DEF Tl!ReadKey, Tl!unread
<1>5. CASE Tl!Stat("cert", "stat", "stat2") \/ Tl!LoadFailed
  <2>1. /\ mtimes' = [mtimes EXCEPT !["cert"] = file["cert"].time]
        /\ (pc = "stat" /\ pc' = "stat2") \/ (pc = "fail" /\ pc' = "fail2")
        /\ UNCHANGED <<file, served, got, problems, writes, store, clock, crashes, source>>
    BY <1>5 DEF Tl!Stat, Tl!LoadFailed, Tl!Keep, Tl!unread
  <2>2. TlsType' /\ mtimes'["cert"] = file["cert"].time /\ mtimes'["key"] = mtimes["key"]
    BY <1>0, <2>1, BothFiles DEF TlsType, TlsPhases
  <2>3. ServedLoads'
    BY <2>1 DEF ServedLoads, Tl!ServedIsWhole, Tl!None, Tl!Loads, Tl!InForce
  <2>4. ASSUME source = "files" PROVE TimesAreWrites' /\ ProblemsAreWrites'
    <3>1. TimesAreWrites'
      BY <1>0, <1>t, <2>1, <2>2, <2>4, BothFiles DEF TimesAreWrites
    <3>2. /\ served = Tl!None => problems = 0
          /\ served # Tl!None => problems < OnFile
      BY <2>1, <2>4 DEF ProblemsAreWrites
    <3>3. ProblemsAreWrites'
      BY <2>1, <2>2, <3>2 DEF ProblemsAreWrites, OnFile, Newer, Tl!None
    <3> QED BY <3>1, <3>3
  <2> QED BY <2>1, <2>2, <2>3, <2>4
<1>6. CASE Tl!Install
  <2>1. /\ pc \in {"stat2", "fail2"} /\ pc' = "serve"
        /\ served' = IF pc = "stat2" THEN got ELSE served
        /\ mtimes' = [mtimes EXCEPT !["key"] = file["key"].time]
        /\ problems' = problems + (IF pc = "fail2" THEN 1 ELSE 0)
        /\ UNCHANGED <<file, got, writes, store, clock, crashes, source>>
    BY <1>6 DEF Tl!Install, Tl!unread
  <2>2. TlsType' /\ mtimes'["cert"] = mtimes["cert"] /\ mtimes'["key"] = file["key"].time
    BY <1>0, <2>1, BothFiles DEF TlsType, TlsPhases
  <2>3. ServedLoads'
    BY <2>1 DEF ServedLoads, Tl!ServedIsWhole, Tl!None, Tl!Loads, Tl!InForce
  <2>4. ASSUME source = "files" PROVE TimesAreWrites' /\ ProblemsAreWrites'
    <3>1. TimesAreWrites'
      BY <1>0, <1>t, <2>1, <2>2, <2>4, BothFiles DEF TimesAreWrites
    <3>2. /\ served = Tl!None => problems = 0
          /\ served # Tl!None =>
               /\ problems < Newer(mtimes["cert"], file["key"].time)
               /\ file["cert"].time # mtimes["cert"] => problems + 1 < file["cert"].time
      BY <2>1, <2>4 DEF ProblemsAreWrites
    <3>3. served' = Tl!None => served = Tl!None /\ pc # "fail2" /\ problems' = 0
      <4>1. pc = "fail2" => served # Tl!None
        BY DEF ServedLoads
      <4>2. pc = "stat2" => got # Tl!None
        BY <1>00, BothFiles DEF ServedLoads, Tl!Loads, Tl!InForce, Tl!None
      <4> QED BY <2>1, <3>2, <4>1, <4>2
    <3>4. served = Tl!None => problems' = 0
      <4>1. pc = "fail2" => served # Tl!None
        BY DEF ServedLoads
      <4> QED BY <2>1, <3>2, <4>1
    <3>5. problems' <= problems + 1 /\ problems' \in Nat
      BY <1>0, <2>1
    <3>6. /\ problems' <= Newer(mtimes["cert"], file["key"].time)
          /\ file["cert"].time # mtimes["cert"] /\ file["cert"].time < file["key"].time
               => problems' < Newer(mtimes["cert"], file["key"].time)
      <4>1. CASE served = Tl!None
        BY <1>0, <1>t, <2>4, <3>4, <4>1 DEF Newer
      <4>2. CASE served # Tl!None
        BY <1>0, <3>2, <3>5, <4>2 DEF Newer
      <4> QED BY <4>1, <4>2
    <3>7. ProblemsAreWrites'
      BY <2>1, <2>2, <3>3, <3>6 DEF ProblemsAreWrites, Seen, Tl!None
    <3> QED BY <3>1, <3>7
  <2> QED BY <2>1, <2>2, <2>3, <2>4
<1>7. ASSUME NEW f \in Tl!Files, NEW from \in {"keygen", "certgen"}, NEW to \in {"certgen", "cert"}, Tl!Generate(f, from, to)
      PROVE  TlsInv'
  <2>1. PICK i \in Pairs : file' = [file EXCEPT ![f] = [pair |-> i, time |-> writes']]
    BY <1>7 DEF Tl!Generate
  <2>2. /\ pc = from /\ pc' = to /\ writes' = writes + 1
        /\ UNCHANGED <<served, mtimes, got, problems, store, clock, crashes, source>>
    BY <1>7 DEF Tl!Generate, Tl!unread
  <2>3. source = "self_signed"
    BY <2>2 DEF TlsType
  <2>4. TlsType'
    BY <1>0, <1>00, <2>1, <2>2, <2>3 DEF TlsType, TlsPhases
  <2>5. ServedLoads'
    BY <2>2 DEF ServedLoads, Tl!ServedIsWhole, Tl!None, Tl!Loads, Tl!InForce
  <2> QED BY <2>2, <2>3, <2>4, <2>5
<1> QED BY <1>1, <1>2, <1>3, <1>4, <1>5, <1>6, <1>7, BothFiles DEF Tl!Manager

(* Time that passes, the store's steps, and a crash, which forgets what was *)
(* served, seen and reported.                                              *)
LEMMA StoreOrCrash ==
    ASSUME TlsInv, Tl!TlsAssumption, Tl!Pass \/ Tl!Enrol \/ Tl!LoadStore \/ Tl!Crash
    PROVE  TlsInv'
<1> USE DEF TlsInv
<1>0. CASE Tl!Pass
  <2>1. TlsType' /\ ServedLoads'
    BY <1>0 DEF Tl!Pass, TlsType, ServedLoads, Tl!ServedIsWhole
  <2>2. source = "files" => TimesAreWrites' /\ ProblemsAreWrites'
    BY <1>0 DEF Tl!Pass, TimesAreWrites, ProblemsAreWrites, Seen, OnFile, Newer, Tl!None
  <2> QED BY <1>0, <2>1, <2>2 DEF Tl!Pass
<1>1. CASE Tl!Enrol
  BY <1>1 DEF Tl!Enrol, TlsType, ServedLoads, Tl!ServedIsWhole
<1>2. CASE Tl!LoadStore
  <2>1. /\ source = "store" /\ pc' \in {"down", "serve"} /\ problems' \in Nat
        /\ served' = served \/ \E c \in StoreCerts : served' = [f \in Tl!Files |-> c.id]
        /\ UNCHANGED <<file, mtimes, got, writes, store, clock, crashes, source>>
    BY <1>2 DEF Tl!LoadStore, TlsType, Tl!unread
  <2>2. served' \in [Tl!Files -> Nat]
    BY <2>1 DEF TlsType, Tl!TlsAssumption
  <2> QED BY <2>1, <2>2 DEF TlsType, TlsPhases, ServedLoads, Tl!ServedIsWhole
<1>3. CASE Tl!Crash
  <2>1. TlsType' /\ ServedLoads'
    BY <1>3 DEF Tl!Crash, TlsType, TlsPhases, ServedLoads, Tl!ServedIsWhole, Tl!None
  <2>2. source = "files" => TimesAreWrites' /\ ProblemsAreWrites'
    <3>1. \A f \in Tl!Files : mtimes'[f] = 0 /\ file[f].time \in Nat
      BY <1>3 DEF Tl!Crash, Tl!None, TlsType
    <3> QED BY <1>3, <3>1 DEF Tl!Crash, TimesAreWrites, ProblemsAreWrites, Tl!None
  <2> QED BY <1>3, <2>1, <2>2 DEF Tl!Crash
<1> QED BY <1>0, <1>1, <1>2, <1>3

(* Where the certificate does not move, nothing of it changes.              *)
LEMMA TlsRests == TlsInv /\ UNCHANGED tlsVars => TlsInv'
  BY DEF tlsVars, TlsInv, TlsType, ServedLoads, Tl!ServedIsWhole, Tl!Loads, Tl!InForce, Tl!None, TimesAreWrites,
         ProblemsAreWrites, Seen, OnFile

(* A step of the certificate gives up a certificate of the store only for   *)
(* one that lasts as long, or when it no longer serves.                     *)
LEMMA BestIsServed ==
    ASSUME TlsInv, Tl!TlsAssumption, Tl!Next \/ UNCHANGED tlsVars
    PROVE  Tl!StoreNeverWorse
<1> SUFFICES ASSUME NEW c \in StoreCerts, NEW d \in StoreCerts, source = "store", served["cert"] = c.id,
                    served'["cert"] = d.id, c # d, pc = "serve"
             PROVE  ~Tl!Serves(c) \/ c.until <= d.until
  BY DEF Tl!StoreNeverWorse
<1>1. c.id # d.id /\ d.id # 0
  BY DEF Tl!TlsAssumption
<1>2. served' # served
  BY <1>1
<1>3. ~Tl!Crash
  BY <1>1, BothFiles DEF Tl!Crash, Tl!None
<1>4. ~Tl!Manager
  BY DEF Tl!Manager, Tl!New, Tl!Check, Tl!ReadCert, Tl!ReadKey, Tl!Stat, Tl!LoadFailed, Tl!Install, Tl!Generate
<1>5. Tl!LoadStore
  BY <1>2, <1>3, <1>4 DEF Tl!Next, Tl!Renew, Tl!Pass, Tl!Enrol, tlsVars
<1>6. PICK e \in StoreCerts : Tl!Newest(e) /\ served' = [f \in Tl!Files |-> e.id]
  BY <1>2, <1>5 DEF Tl!LoadStore
<1>7. e = d
  BY <1>6, BothFiles DEF Tl!TlsAssumption
<1> QED BY <1>6, <1>7 DEF Tl!Newest

(* The problems reported are no more than the writes.                       *)
LEMMA WarnedByWrites == TlsInv => Tl!WarnedOnce
<1> SUFFICES ASSUME TlsInv, source = "files" PROVE problems <= writes
  BY DEF Tl!WarnedOnce
<1>1. /\ file["cert"].time \in Nat /\ file["key"].time \in Nat /\ mtimes["cert"] \in Nat /\ mtimes["key"] \in Nat
      /\ writes \in Nat /\ problems \in Nat /\ pc \in TlsPhases /\ pc \notin {"keygen", "certgen"}
  BY BothFiles DEF TlsInv, TlsType
<1>2. /\ mtimes["cert"] <= file["cert"].time /\ file["cert"].time <= writes
      /\ mtimes["key"] <= file["key"].time /\ file["key"].time <= writes
  BY BothFiles DEF TlsInv, TimesAreWrites
<1>3. ProblemsAreWrites
  BY DEF TlsInv
<1> QED BY <1>1, <1>2, <1>3 DEF ProblemsAreWrites, Seen, OnFile, Newer, TlsPhases

(* A step of the certificate takes up only what loads, and a file's         *)
(* certificate is changed by the end of a load or given up in a crash.      *)
LEMMA LoadedIsTakenUp ==
    ASSUME TlsInv, Tl!Next \/ UNCHANGED tlsVars
    PROVE  Tl!TakenUpInForce
<1> SUFFICES ASSUME source # "store", served' # served PROVE served' = Tl!None \/ Tl!Loads(served')
  BY DEF Tl!TakenUpInForce
<1>1. CASE Tl!Install
  <2>1. pc = "stat2" /\ served' = got /\ clock' = clock
    BY <1>1 DEF Tl!Install, Tl!unread
  <2>2. Tl!Loads(got)
    BY <2>1 DEF TlsInv, ServedLoads
  <2> QED BY <2>1, <2>2 DEF Tl!Loads, Tl!InForce
<1>2. CASE ~Tl!Install
  <2>1. Tl!New \/ Tl!Crash
    BY <1>2 DEF Tl!Next, Tl!Manager, Tl!Renew, Tl!Pass, Tl!Enrol, Tl!LoadStore, Tl!Check, Tl!ReadCert, Tl!ReadKey,
                Tl!Stat, Tl!LoadFailed, Tl!Generate, tlsVars
  <2> QED BY <2>1 DEF Tl!New, Tl!Crash, Tl!None
<1> QED BY <1>1, <1>2

CertificateInv == part = "tls" => TlsInv

(* What the listener serves is of one renewal and in force when it is taken *)
(* up, wherever a write or a crash falls between the steps of a load and    *)
(* whenever certificates come into force and expire; each failed load is    *)
(* reported once for a write of its own; and the store is never served      *)
(* worse than it could be (load, current, storeCertificate).                *)
THEOREM CertificateSound == Spec => CertificateIsSound
<1>1. Init => CertificateInv
  BY TlsStarts, ConstantsAssumption DEF Init, CertificateInv
<1>2. CertificateInv /\ [Next]_vars =>
        CertificateInv' /\ (part = "tls" => (Tl!ServedIsWhole /\ Tl!WarnedOnce)' /\ Tl!TakenUpInForce /\ Tl!StoreNeverWorse)
  <2> SUFFICES ASSUME CertificateInv, [Next]_vars, part' = "tls"
               PROVE  TlsInv' /\ (Tl!ServedIsWhole /\ Tl!WarnedOnce)' /\ Tl!TakenUpInForce /\ Tl!StoreNeverWorse
    BY DEF CertificateInv, Next, SvMoves, TlMoves, RsMoves, EvMoves, vars
  <2>1. part = "tls" /\ TlsInv /\ Tl!TlsAssumption
    BY ConstantsAssumption DEF CertificateInv, Next, SvMoves, TlMoves, RsMoves, EvMoves, vars
  <2>2. Tl!Next \/ UNCHANGED tlsVars
    BY <2>1 DEF Next, SvMoves, TlMoves, RsMoves, EvMoves, vars
  <2>3. TlsInv'
    BY <2>1, <2>2, RenewCounts, ManagerCounts, StoreOrCrash, TlsRests DEF Tl!Next
  <2>4. Tl!StoreNeverWorse
    BY <2>1, <2>2, BestIsServed
  <2>5. Tl!ServedIsWhole'
    BY <2>3 DEF TlsInv, ServedLoads
  <2>6. Tl!WarnedOnce'
    BY <2>3, WarnedByWrites, PTL
  <2>7. Tl!TakenUpInForce
    BY <2>1, <2>2, LoadedIsTakenUp
  <2> QED BY <2>3, <2>4, <2>5, <2>6, <2>7
<1> QED BY <1>1, <1>2, PTL DEF Spec, CertificateIsSound

-----------------------------------------------------------------------------
(* What a restart restores.                                                *)

ModeRecords ==
    [mode : {"auto", "pause"}, until : 0..RestartNow, reboot : BOOLEAN, boot : 0..2, set : 0..MaxSets]
TimerRecords ==
    [crashes : 0..MaxFaults, competing : 0..RestartNow, until : Nat, reason : {"none", "fault", "startup"}]

RestartType ==
    /\ Rs!TypeOK
    /\ disk \in [mode : ModeRecords, timers : TimerRecords]
    /\ mode \in ModeRecords /\ timers \in TimerRecords /\ durable \in TimerRecords

\* Nothing is counted or set that did not happen.
CountedOnce ==
    /\ timers.crashes <= faults /\ disk.timers.crashes <= faults /\ durable.crashes <= faults
    /\ mode.set <= sets /\ disk.mode.set <= sets

\* A running service's mode is not over, and no document names a boot.
ModeInForce ==
    /\ up => (mode.until = 0 \/ mode.until > restartNow) /\ (mode.reboot => mode.boot = boot)
    /\ disk.mode.boot = 0

\* The document has the counts and records of the last timers written.
DocumentIsDurable ==
    disk.timers.crashes = durable.crashes /\ disk.timers.competing = durable.competing

RestartInv == RestartType /\ CountedOnce /\ ModeInForce /\ DocumentIsDurable

(* The first start finds empty documents.                                   *)
LEMMA RestartStarts == Rs!Init /\ Rs!RestartConstants => RestartInv
<1> SUFFICES ASSUME Rs!Init, Rs!RestartConstants PROVE RestartInv
  OBVIOUS
<1>1. Rs!Auto \in ModeRecords /\ Rs!NoTimers \in TimerRecords
  BY DEF Rs!Auto, Rs!NoTimers, ModeRecords, TimerRecords, Rs!RestartConstants
<1>2. RestartType
  <2>1. /\ mode \in ModeRecords /\ timers \in TimerRecords /\ durable \in TimerRecords
        /\ disk = [mode |-> Rs!Auto, timers |-> Rs!NoTimers]
    BY <1>1 DEF Rs!Init
  <2>2. disk \in [mode : ModeRecords, timers : TimerRecords] /\ disk.mode \in ModeRecords /\ disk.timers \in TimerRecords
    BY <1>1, <2>1
  <2>3. restartNow \in 1..RestartNow /\ boot \in 1..2 /\ faults \in 0..MaxFaults /\ sets \in 0..MaxSets /\ failures \in 0..SaveFailures
    BY DEF Rs!Init, Rs!RestartConstants
  <2> QED BY <2>1, <2>2, <2>3 DEF RestartType, Rs!TypeOK, Rs!Init, ModeRecords, TimerRecords
<1> QED BY <1>2 DEF RestartInv, CountedOnce, ModeInForce, DocumentIsDurable, Rs!Init, Rs!Auto, Rs!NoTimers

(* A wait that is set is a wait, and touches nothing else.                  *)
LEMMA RecoveryIsSet ==
    ASSUME NEW t \in TimerRecords, NEW d \in Nat, NEW why \in {"fault", "startup"}, restartNow \in Nat
    PROVE  /\ Rs!setRecovery(t, d, why) \in TimerRecords
           /\ Rs!setRecovery(t, d, why).crashes = t.crashes
           /\ Rs!setRecovery(t, d, why).competing = t.competing
<1>1. t.until \in Nat /\ t.crashes \in 0..MaxFaults /\ t.competing \in 0..RestartNow
  BY DEF TimerRecords
<1> DEFINE u == restartNow + d
<1>2. u \in Nat
  OBVIOUS
<1> HIDE DEF u
<1> DEFINE w == [t EXCEPT !.until = u, !.reason = why]
<1>3. w \in TimerRecords
  BY <1>1, <1>2 DEF TimerRecords
<1>4. w.crashes = t.crashes /\ w.competing = t.competing
  BY DEF TimerRecords
<1>5. Rs!setRecovery(t, d, why) \in {t, w}
  BY DEF Rs!setRecovery, u
<1> HIDE DEF w
<1> QED BY <1>3, <1>4, <1>5

(* The controller's own steps change the mode and the timers in memory.     *)
LEMMA ControllerSteps ==
    ASSUME RestartInv, Rs!RestartConstants,
           Rs!Fault \/ Rs!Healthy \/ Rs!Tick \/ Rs!Step \/ \E m \in Rs!Modes : Rs!SetMode(m)
    PROVE  RestartInv'
<1> USE DEF RestartInv
<1>0. /\ restartNow \in 1..RestartNow /\ restartNow \in Nat /\ faults \in 0..MaxFaults /\ sets \in 0..MaxSets
      /\ MaxFaults \in Nat /\ MaxSets \in Nat /\ RestartNow \in Nat /\ boot \in 1..2
      /\ FaultCooldown \in Nat
  BY DEF RestartType, Rs!TypeOK, Rs!RestartConstants
<1>1. /\ mode.set \in 0..MaxSets /\ mode.until \in 0..RestartNow /\ timers.crashes \in 0..MaxFaults
      /\ disk.mode \in ModeRecords /\ disk.timers \in TimerRecords
  BY DEF RestartType, ModeRecords, TimerRecords
<1>2. CASE Rs!Fault
  <2> DEFINE t == [timers EXCEPT !.crashes = @ + 1, !.competing = restartNow]
  <2>1. /\ Rs!Free /\ faults < MaxFaults /\ faults' = faults + 1
        /\ timers' = Rs!setRecovery(t, FaultCooldown, "fault") /\ persistPc' = "mode"
        /\ UNCHANGED <<restartNow, boot, up, mode, disk, persisted, sets, failures, durable>>
    BY <1>2 DEF Rs!Fault
  <2>2. t \in TimerRecords /\ t.crashes = timers.crashes + 1
    <3>1. /\ timers.crashes <= faults /\ timers.until \in Nat /\ timers.reason \in {"none", "fault", "startup"}
          /\ timers \in TimerRecords
      BY DEF CountedOnce, RestartType, TimerRecords
    <3>2. t = [crashes |-> timers.crashes + 1, competing |-> restartNow, until |-> timers.until, reason |-> timers.reason]
      <4> DEFINE n == timers.crashes + 1
      <4>1. t = [timers EXCEPT !.crashes = n, !.competing = restartNow]
        OBVIOUS
      <4> HIDE DEF n, t
      <4>2. t = [crashes |-> n, competing |-> restartNow, until |-> timers.until, reason |-> timers.reason]
        BY <3>1, <4>1 DEF TimerRecords
      <4> QED BY <4>2 DEF n
    <3>3. timers.crashes + 1 \in 0..MaxFaults /\ restartNow \in 0..RestartNow
      BY <1>0, <1>1, <2>1, <3>1
    <3> HIDE DEF t
    <3> QED BY <3>1, <3>2, <3>3 DEF TimerRecords
  <2>3. timers' \in TimerRecords /\ timers'.crashes = timers.crashes + 1
    BY <1>0, <2>1, <2>2, RecoveryIsSet
  <2> HIDE DEF t
  <2>4. RestartType'
    BY <1>0, <1>1, <2>1, <2>3 DEF RestartType, Rs!TypeOK, ModeRecords, TimerRecords
  <2>5. CountedOnce'
    BY <1>0, <1>1, <2>1, <2>3 DEF CountedOnce, RestartType, TimerRecords
  <2> QED BY <2>1, <2>4, <2>5 DEF ModeInForce, DocumentIsDurable
<1>3. CASE Rs!Healthy
  <2>1. /\ timers' = [timers EXCEPT !.crashes = 0] /\ persistPc' = "mode"
        /\ UNCHANGED <<restartNow, boot, up, mode, disk, persisted, faults, sets, failures, durable>>
    BY <1>3 DEF Rs!Healthy
  <2>2. timers' \in TimerRecords /\ timers'.crashes = 0
    BY <1>0, <2>1 DEF RestartType, TimerRecords
  <2>3. RestartType'
    BY <1>0, <1>1, <2>1, <2>2 DEF RestartType, Rs!TypeOK, ModeRecords, TimerRecords
  <2> QED BY <1>0, <2>1, <2>2, <2>3 DEF ModeInForce, DocumentIsDurable, CountedOnce
<1>4. CASE Rs!Tick
  <2>1. /\ restartNow < RestartNow /\ restartNow' = restartNow + 1
        /\ mode' = IF up /\ mode.until # 0 /\ mode.until <= restartNow' THEN [Rs!Auto EXCEPT !.set = mode.set] ELSE mode
        /\ persistPc' \in {"mode", "idle"}
        /\ UNCHANGED <<boot, up, timers, disk, persisted, faults, sets, failures, durable>>
    BY <1>4 DEF Rs!Tick
  <2>2. /\ mode' \in ModeRecords /\ mode'.set = mode.set
        /\ up => (mode'.until = 0 \/ mode'.until > restartNow') /\ (mode'.reboot => mode'.boot = boot)
    <3>1. CASE up /\ mode.until # 0 /\ mode.until <= restartNow'
      <4>1. mode' = [mode |-> "auto", until |-> 0, reboot |-> FALSE, boot |-> 0, set |-> mode.set]
        BY <2>1, <3>1 DEF Rs!Auto
      <4> QED BY <1>0, <1>1, <4>1 DEF ModeRecords
    <3>2. CASE ~ (up /\ mode.until # 0 /\ mode.until <= restartNow')
      <4>1. mode' = mode
        BY <2>1, <3>2
      <4> QED BY <1>0, <1>1, <2>1, <3>2, <4>1 DEF RestartType, ModeInForce
    <3> QED BY <3>1, <3>2
  <2>3. RestartType'
    BY <1>0, <1>1, <2>1, <2>2 DEF RestartType, Rs!TypeOK, ModeRecords, TimerRecords
  <2> QED BY <1>0, <2>1, <2>2, <2>3 DEF ModeInForce, DocumentIsDurable, CountedOnce
<1>5. CASE Rs!Step
  <2>1. /\ persistPc' = "mode"
        /\ UNCHANGED <<restartNow, boot, up, mode, timers, disk, persisted, faults, sets, failures, durable>>
    BY <1>5 DEF Rs!Step
  <2>2. RestartType'
    BY <2>1 DEF RestartType, Rs!TypeOK, ModeRecords, TimerRecords
  <2> QED BY <2>1, <2>2 DEF ModeInForce, DocumentIsDurable, CountedOnce
<1>6. ASSUME NEW m \in Rs!Modes, Rs!SetMode(m) PROVE RestartInv'
  <2>1. /\ sets < MaxSets /\ sets' = sets + 1 /\ (m.until = 0 \/ m.until > restartNow) /\ persistPc' = "mode"
        /\ mode' = [m EXCEPT !.set = sets', !.boot = IF m.reboot THEN boot ELSE 0]
        /\ UNCHANGED <<restartNow, boot, up, timers, disk, persisted, faults, failures, durable>>
    BY <1>6 DEF Rs!SetMode
  <2>2. m \in ModeRecords
    <3>0. \A u \in 0..RestartNow : /\ [mode |-> "auto", until |-> u, reboot |-> FALSE, boot |-> 0, set |-> 0] \in ModeRecords
                                   /\ [mode |-> "pause", until |-> u, reboot |-> FALSE, boot |-> 0, set |-> 0] \in ModeRecords
                                   /\ [mode |-> "pause", until |-> u, reboot |-> TRUE, boot |-> 0, set |-> 0] \in ModeRecords
      BY <1>0 DEF ModeRecords
    <3>1. 0 \in 0..RestartNow
      BY <1>0
    <3>2. CASE m = Rs!Auto
      BY <3>0, <3>1, <3>2 DEF Rs!Auto
    <3>3. CASE m = [Rs!Auto EXCEPT !.mode = "pause"]
      <4>1. m = [mode |-> "pause", until |-> 0, reboot |-> FALSE, boot |-> 0, set |-> 0]
        BY <3>3 DEF Rs!Auto
      <4> QED BY <3>0, <3>1, <4>1
    <3>4. CASE m = [Rs!Auto EXCEPT !.mode = "pause", !.reboot = TRUE]
      <4>1. m = [mode |-> "pause", until |-> 0, reboot |-> TRUE, boot |-> 0, set |-> 0]
        BY <3>4 DEF Rs!Auto
      <4> QED BY <3>0, <3>1, <4>1
    <3>5. ASSUME NEW u \in 1..RestartNow, m = [Rs!Auto EXCEPT !.mode = "pause", !.until = u]
          PROVE  m \in ModeRecords
      <4>1. m = [mode |-> "pause", until |-> u, reboot |-> FALSE, boot |-> 0, set |-> 0]
        BY <3>5 DEF Rs!Auto
      <4>2. u \in 0..RestartNow
        BY <1>0
      <4> QED BY <3>0, <4>1, <4>2
    <3> QED BY <3>2, <3>3, <3>4, <3>5 DEF Rs!Modes
  <2>3. /\ mode' \in ModeRecords /\ mode'.set = sets + 1 /\ mode'.until = m.until
        /\ mode'.reboot => mode'.boot = boot
    <3>1. mode' = [mode |-> m.mode, until |-> m.until, reboot |-> m.reboot,
                   boot |-> IF m.reboot THEN boot ELSE 0, set |-> sets + 1]
      BY <2>1, <2>2 DEF ModeRecords
    <3>2. m.mode \in {"auto", "pause"} /\ m.until \in 0..RestartNow /\ m.reboot \in BOOLEAN
      BY <2>2 DEF ModeRecords
    <3>3. sets + 1 \in 0..MaxSets /\ (IF m.reboot THEN boot ELSE 0) \in 0..2
      BY <1>0, <2>1
    <3> QED BY <3>1, <3>2, <3>3 DEF ModeRecords
  <2>4. RestartType'
    BY <1>0, <1>1, <2>1, <2>3 DEF RestartType, Rs!TypeOK, ModeRecords, TimerRecords
  <2>5. CountedOnce'
    <3>1. disk.mode.set \in 0..MaxSets
      BY <1>1 DEF ModeRecords
    <3> QED BY <1>0, <2>1, <2>3, <3>1 DEF CountedOnce
  <2> QED BY <2>1, <2>3, <2>4, <2>5 DEF ModeInForce, DocumentIsDurable
<1> QED BY <1>2, <1>3, <1>4, <1>5, <1>6

(* The saves, one document after the other, each of which may fail.         *)
LEMMA SaveSteps ==
    ASSUME RestartInv, Rs!RestartConstants, Rs!Persist
    PROVE  RestartInv'
<1> USE DEF RestartInv
<1>0. /\ failures \in 0..SaveFailures /\ SaveFailures \in Nat /\ boot \in 1..2
      /\ disk \in [mode : ModeRecords, timers : TimerRecords] /\ mode \in ModeRecords /\ timers \in TimerRecords
      /\ disk.mode \in ModeRecords /\ disk.timers \in TimerRecords
  BY DEF RestartType, Rs!TypeOK, Rs!RestartConstants
<1>1. ASSUME NEW ok \in BOOLEAN, Rs!PersistMode(ok) PROVE RestartInv'
  <2> DEFINE m == [mode EXCEPT !.boot = 0]
  <2>1. /\ disk' = disk \/ disk' = [disk EXCEPT !.mode = m]
        /\ failures' = failures \/ (failures < SaveFailures /\ failures' = failures + 1)
        /\ persistPc' \in {"idle", "timers"}
        /\ UNCHANGED <<restartNow, boot, up, mode, timers, persisted, faults, sets, durable>>
    BY <1>1 DEF Rs!PersistMode
  <2>2. m \in ModeRecords /\ m.boot = 0 /\ m.set = mode.set
    BY <1>0 DEF ModeRecords
  <2> HIDE DEF m
  <2>3. /\ disk' \in [mode : ModeRecords, timers : TimerRecords] /\ disk'.timers = disk.timers
        /\ disk'.mode \in {disk.mode, m}
    BY <1>0, <2>1, <2>2
  <2>4. failures' \in 0..SaveFailures
    BY <1>0, <2>1
  <2>5. RestartType'
    BY <1>0, <2>1, <2>2, <2>3, <2>4 DEF RestartType, Rs!TypeOK, ModeRecords, TimerRecords
  <2> QED BY <2>1, <2>2, <2>3, <2>5 DEF CountedOnce, ModeInForce, DocumentIsDurable
<1>2. ASSUME NEW ok \in BOOLEAN, NEW memo \in BOOLEAN, Rs!PersistTimers(ok, memo) PROVE RestartInv'
  <2> DEFINE t == [timers EXCEPT !.until = 0, !.reason = "none"]
  <2>1. /\ \/ disk' = disk /\ durable' = durable
           \/ disk' = [disk EXCEPT !.timers = t] /\ durable' = timers
        /\ failures' = failures \/ (failures < SaveFailures /\ failures' = failures + 1)
        /\ persistPc' = "idle"
        /\ UNCHANGED <<restartNow, boot, up, mode, timers, faults, sets>>
    BY <1>2 DEF Rs!PersistTimers
  <2>2. t \in TimerRecords /\ t.crashes = timers.crashes /\ t.competing = timers.competing
    BY <1>0 DEF TimerRecords
  <2> HIDE DEF t
  <2>3. /\ disk' \in [mode : ModeRecords, timers : TimerRecords] /\ disk'.mode = disk.mode
        /\ \/ disk'.timers = disk.timers /\ durable' = durable
           \/ disk'.timers = t /\ durable' = timers
    BY <1>0, <2>1, <2>2
  <2>4. failures' \in 0..SaveFailures
    BY <1>0, <2>1
  <2>5. RestartType'
    BY <1>0, <2>1, <2>2, <2>3, <2>4 DEF RestartType, Rs!TypeOK, ModeRecords, TimerRecords
  <2> QED BY <2>1, <2>2, <2>3, <2>5 DEF CountedOnce, ModeInForce, DocumentIsDurable
<1> QED BY <1>1, <1>2 DEF Rs!Persist

(* A death keeps the documents, and a start reads them.                     *)
LEMMA DeathAndStart ==
    ASSUME RestartInv, Rs!RestartConstants,
           (\E loads \in BOOLEAN : Rs!Start(loads)) \/ (\E reboots \in BOOLEAN : Rs!Crash(reboots))
    PROVE  RestartInv'
<1> USE DEF RestartInv
<1>0. /\ failures \in 0..SaveFailures /\ SaveFailures \in Nat /\ boot \in 1..2 /\ restartNow \in Nat
      /\ disk.mode \in ModeRecords /\ disk.timers \in TimerRecords /\ StartupCooldown \in Nat
      /\ faults \in Nat /\ sets \in Nat
  BY DEF RestartType, Rs!TypeOK, Rs!RestartConstants
<1>1. ASSUME NEW loads \in BOOLEAN, Rs!Start(loads) PROVE RestartInv'
  <2> DEFINE p == IF loads THEN disk.timers ELSE Rs!NoTimers
             kept == IF Rs!faultRecovery(p.reason) /\ p.until > restartNow THEN p
                     ELSE [p EXCEPT !.until = 0, !.reason = "none"]
             m == IF loads /\ Rs!Restored(disk.mode) THEN disk.mode ELSE Rs!Auto
  <2>1. /\ up' = TRUE /\ mode' = m /\ timers' = Rs!setRecovery(kept, StartupCooldown, "startup")
        /\ persistPc' = "mode"
        /\ failures' = failures \/ (failures < SaveFailures /\ failures' = failures + 1)
        /\ UNCHANGED <<restartNow, boot, disk, faults, sets, durable>>
    BY <1>1 DEF Rs!Start
  <2>2. /\ Rs!NoTimers \in TimerRecords /\ Rs!NoTimers.crashes = 0
        /\ Rs!Auto \in ModeRecords /\ Rs!Auto.set = 0 /\ Rs!Auto.until = 0 /\ ~Rs!Auto.reboot
    BY DEF Rs!Auto, Rs!NoTimers, ModeRecords, TimerRecords, Rs!RestartConstants
  <2>3. p \in TimerRecords /\ p.crashes <= faults
    BY <1>0, <2>2 DEF CountedOnce
  <2> HIDE DEF p
  <2>4. kept \in TimerRecords /\ kept.crashes = p.crashes
    BY <2>3 DEF TimerRecords
  <2>5. /\ m \in ModeRecords /\ m.set <= sets /\ (m.until = 0 \/ m.until > restartNow)
        /\ m.reboot => m.boot = boot
    BY <1>0, <2>2 DEF Rs!Restored, CountedOnce, ModeInForce
  <2> HIDE DEF kept, m
  <2>6. timers' \in TimerRecords /\ timers'.crashes <= faults
    BY <1>0, <2>1, <2>3, <2>4, RecoveryIsSet
  <2>7. failures' \in 0..SaveFailures
    BY <1>0, <2>1
  <2>8. RestartType'
    BY <1>0, <2>1, <2>5, <2>6, <2>7 DEF RestartType, Rs!TypeOK, ModeRecords, TimerRecords
  <2> QED BY <2>1, <2>5, <2>6, <2>8 DEF CountedOnce, ModeInForce, DocumentIsDurable
<1>2. ASSUME NEW reboots \in BOOLEAN, Rs!Crash(reboots) PROVE RestartInv'
  <2>1. /\ ~up' /\ persistPc' = "idle" /\ boot' \in 1..2
        /\ UNCHANGED <<restartNow, mode, timers, disk, persisted, faults, sets, failures, durable>>
    BY <1>0, <1>2 DEF Rs!Crash
  <2>2. up' \in BOOLEAN
    BY <1>2 DEF Rs!Crash
  <2>3. RestartType'
    BY <2>1, <2>2 DEF RestartType, Rs!TypeOK, ModeRecords, TimerRecords
  <2> QED BY <2>1, <2>3 DEF CountedOnce, ModeInForce, DocumentIsDurable
<1> QED BY <1>1, <1>2

(* Where the restart does not move, nothing of it changes.                  *)
LEMMA RestartRests == RestartInv /\ UNCHANGED restartVars => RestartInv'
  BY DEF restartVars, RestartInv, RestartType, Rs!TypeOK, ModeRecords, TimerRecords, CountedOnce, ModeInForce,
         DocumentIsDurable

(* Only a start brings the service up, and one that could read takes the    *)
(* counts from the document.                                                *)
LEMMA RecordsAreRead ==
    ASSUME RestartInv, Rs!RestartConstants, Rs!Next \/ UNCHANGED restartVars
    PROVE  Rs!RecordsSurvive
<1> SUFFICES ASSUME ~up, up', failures' = failures
             PROVE  timers'.crashes = durable.crashes /\ timers'.competing = durable.competing
  BY DEF Rs!RecordsSurvive
<1>1. /\ disk.timers \in TimerRecords /\ StartupCooldown \in Nat /\ restartNow \in Nat /\ failures \in Nat
      /\ DocumentIsDurable
  BY DEF RestartInv, RestartType, Rs!TypeOK, Rs!RestartConstants
<1>2. PICK loads \in BOOLEAN : Rs!Start(loads)
  BY DEF Rs!Next, Rs!SetMode, Rs!Fault, Rs!Healthy, Rs!Tick, Rs!Step, Rs!Persist, Rs!PersistMode, Rs!PersistTimers,
         Rs!Crash, Rs!Free, restartVars
<1>3. loads
  BY <1>1, <1>2 DEF Rs!Start
<1> DEFINE p == disk.timers
           kept == IF Rs!faultRecovery(p.reason) /\ p.until > restartNow THEN p
                   ELSE [p EXCEPT !.until = 0, !.reason = "none"]
<1>4. timers' = Rs!setRecovery(kept, StartupCooldown, "startup")
  BY <1>2, <1>3 DEF Rs!Start
<1>5. kept \in TimerRecords /\ kept.crashes = p.crashes /\ kept.competing = p.competing
  BY <1>1 DEF TimerRecords
<1> HIDE DEF kept
<1> QED BY <1>1, <1>4, <1>5, RecoveryIsSet DEF DocumentIsDurable

(* A mode that is in force while the service runs is so after each step.    *)
LEMMA ForcedInTime == RestartInv => Rs!TypeOK /\ Rs!ModeEndsOnTime
  BY DEF RestartInv, RestartType, ModeInForce, Rs!ModeEndsOnTime, Rs!Free

RestartPartInv == part = "restart" => RestartInv

(* However saves fail, and wherever the process or the machine dies between *)
(* two documents: a start goes on with the counts and records of the last   *)
(* timers that were written, and a mode that ends at a time or with the     *)
(* boot is never in force beyond it (persist, Start, expireMode).           *)
THEOREM RecordsKept == Spec => RestartKeepsRecords
<1>1. Init => RestartPartInv
  BY RestartStarts, ConstantsAssumption DEF Init, RestartPartInv
<1>2. RestartPartInv /\ [Next]_vars =>
        RestartPartInv' /\ (part = "restart" => (Rs!TypeOK /\ Rs!ModeEndsOnTime)' /\ Rs!RecordsSurvive)
  <2> SUFFICES ASSUME RestartPartInv, [Next]_vars, part' = "restart"
               PROVE  RestartInv' /\ (Rs!TypeOK /\ Rs!ModeEndsOnTime)' /\ Rs!RecordsSurvive
    BY DEF RestartPartInv, Next, SvMoves, TlMoves, RsMoves, EvMoves, vars
  <2>1. part = "restart" /\ RestartInv /\ Rs!RestartConstants
    BY ConstantsAssumption DEF RestartPartInv, Next, SvMoves, TlMoves, RsMoves, EvMoves, vars
  <2>2. Rs!Next \/ UNCHANGED restartVars
    BY <2>1 DEF Next, SvMoves, TlMoves, RsMoves, EvMoves, vars
  <2>3. RestartInv'
    BY <2>1, <2>2, ControllerSteps, SaveSteps, DeathAndStart, RestartRests DEF Rs!Next
  <2>4. (Rs!TypeOK /\ Rs!ModeEndsOnTime)'
    BY <2>3, ForcedInTime, PTL
  <2> QED BY <2>1, <2>2, <2>3, <2>4, RecordsAreRead
<1> QED BY <1>1, <1>2, PTL DEF Spec, RestartKeepsRecords

-----------------------------------------------------------------------------
(* Windows' requests and the power events.                                 *)

SupervisorPhases == {"start", "select", "parked", "got", "suspend", "leave", "release", "returned", "crashed"}

ControlRecords == [pc : {"idle", "queue", "hold"}, req : Sv!Request \cup {Sv!NoRequest}, until : Nat]
SupRecords == [phase : {"running", "stop_pending", "stopped"}, stopping : BOOLEAN, deadline : Nat, failed : BOOLEAN]
HandlerRecords ==
    [pc : SupervisorPhases, ev : Sv!Event \cup {Sv!NoEvent}, deadline : Nat, until : Nat, err : BOOLEAN]

\* Exactly a suspend names a Done channel, and one of a request already made.
Named(r) == r.done \in 0..sent /\ (r.cmd = "suspend" <=> r.done # 0)
NamedEvent(e) == e.done \in 0..sent /\ (e.kind = "suspend" <=> e.done # 0)

SupervisorType ==
    /\ Sv!TypeOK
    /\ control \in ControlRecords /\ sup \in SupRecords /\ handler \in HandlerRecords
    /\ Named(control.req) /\ (control.pc = "hold" => control.req.done # 0)
    /\ control.pc # "idle" => control.req \in Sv!Request
    /\ \A i \in 1..Len(reqs) : Named(reqs[i])
    /\ \A i \in 1..Len(events) : NamedEvent(events[i])
    /\ NamedEvent(handler.ev)

\* The service body holds an event only while it deals with it, and blocks
\* only when none is queued; it leaves only when it was asked to.
HandlerRegular ==
    /\ handler.pc = "got" => handler.ev \in Sv!Event
    /\ handler.pc = "suspend" => handler.ev.kind = "suspend"
    /\ handler.pc \notin {"got", "suspend"} => handler.ev = Sv!NoEvent
    /\ handler.pc = "parked" => events = <<>>
    /\ cancelled => sup.stopping
    /\ handler.pc \in {"leave", "release"} => sup.stopping
    /\ Sv!AsksToStop(handler.ev) => sup.stopping
    /\ \A i \in 1..Len(events) : Sv!AsksToStop(events[i]) => sup.stopping
    /\ sup.phase = "stopped" => handler.pc = "returned"

\* A suspend is in one place at most, and not acknowledged while it is there.
Pending(d) == acks[d] = 0

OnePlaceEach ==
    /\ \A i, j \in 1..Len(reqs) : reqs[i].done = reqs[j].done => i = j \/ reqs[i].done = 0
    /\ \A i, j \in 1..Len(events) : events[i].done = events[j].done => i = j \/ events[i].done = 0
    /\ \A i \in 1..Len(reqs), j \in 1..Len(events) : reqs[i].done = events[j].done => reqs[i].done = 0
    /\ \A i \in 1..Len(reqs) : reqs[i].done # 0 => Pending(reqs[i].done) /\ reqs[i].done # handler.ev.done
    /\ \A i \in 1..Len(events) : events[i].done # 0 => Pending(events[i].done) /\ events[i].done # handler.ev.done
    /\ handler.ev.done # 0 => Pending(handler.ev.done)
    /\ control.pc = "queue" /\ control.req.done # 0 =>
         /\ Pending(control.req.done) /\ control.req.done # handler.ev.done
         /\ \A i \in 1..Len(reqs) : reqs[i].done # control.req.done
         /\ \A i \in 1..Len(events) : events[i].done # control.req.done
    /\ \A d \in 1..MaxRequests : acks[d] <= 1 /\ (acks[d] > 0 => d <= sent)

\* Behind every suspend on its way, and behind a suspending controller,
\* there is a resume, once the machine is awake.
ResumeQueued == control.pc = "queue" /\ control.req.cmd = "resume"
ResumeAsked == ResumeQueued \/ \E j \in 1..Len(reqs) : reqs[j].cmd = "resume"
ResumeSent == ResumeAsked \/ \E j \in 1..Len(events) : events[j].kind = "resume"

Open == handler.pc \in {"start", "select", "parked", "got", "suspend"}

ResumeFollows ==
    host = "awake" /\ ~dropped /\ Open =>
        /\ control.pc = "queue" => control.req.cmd # "suspend"
        /\ \A i \in 1..Len(reqs) : reqs[i].cmd = "suspend" =>
             ResumeQueued \/ \E j \in 1..Len(reqs) : j > i /\ reqs[j].cmd = "resume"
        /\ \A i \in 1..Len(events) : events[i].kind = "suspend" =>
             ResumeAsked \/ \E j \in 1..Len(events) : j > i /\ events[j].kind = "resume"
        /\ handler.ev.kind = "suspend" => ResumeSent
        /\ suspending => ResumeSent \/ handler.ev.kind = "resume"

\* Where the suspend is that Windows waits for: last in a queue, with the
\* service body, or handled with the GPU free.
Excused == sup.stopping \/ dropped \/ sup.phase = "stopped" \/ now >= control.req.at + SuspendBudget

HeldIsLast ==
    control.pc = "hold" /\ ~Excused =>
        \/ reqs # <<>> /\ reqs[Len(reqs)] = control.req
        \/ reqs = <<>> /\ events # <<>> /\ events[Len(events)] = Sv!translate(control.req)
        \/ reqs = <<>> /\ events = <<>> /\ handler.pc = "got" /\ handler.ev = Sv!translate(control.req)
        \/ reqs = <<>> /\ events = <<>> /\ handler.pc = "suspend" /\ suspending /\ handler.ev = Sv!translate(control.req)
        \/ reqs = <<>> /\ events = <<>> /\ handler.pc \in {"select", "parked"} /\ suspending /\ live # "up"

SupervisorInv == SupervisorType /\ HandlerRegular /\ OnePlaceEach /\ ResumeFollows /\ HeldIsLast

(* A queue from which the first element is taken.                           *)
LEMMA Taken ==
    ASSUME NEW S, NEW s \in Seq(S), s # <<>>
    PROVE  /\ Tail(s) \in Seq(S) /\ Len(s) \in Nat \ {0} /\ Len(Tail(s)) = Len(s) - 1
           /\ Head(s) = s[1] /\ s[1] \in S
           /\ \A i \in 1..Len(Tail(s)) : i + 1 \in 1..Len(s) /\ Tail(s)[i] = s[i + 1]
<1>1. Len(s) \in Nat \ {0}
  BY EmptySeq, LenProperties
<1> QED BY <1>1, HeadTailProperties, ElementOfSeq

(* A queue to which an element is added.                                    *)
LEMMA Added ==
    ASSUME NEW S, NEW s \in Seq(S), NEW e \in S
    PROVE  /\ Append(s, e) \in Seq(S) /\ Append(s, e) # <<>> /\ Len(Append(s, e)) = Len(s) + 1
           /\ Len(s) \in Nat
           /\ \A i \in 1..Len(s) : Append(s, e)[i] = s[i]
           /\ Append(s, e)[Len(s) + 1] = e
  BY AppendProperties, LenProperties

(* The first start: nothing was asked, queued or acknowledged.              *)
LEMMA SupervisorStarts == Sv!Init /\ Sv!SupervisorConstants => SupervisorInv
<1> SUFFICES ASSUME Sv!Init, Sv!SupervisorConstants PROVE SupervisorInv
  OBVIOUS
<1>1. /\ reqs = <<>> /\ events = <<>> /\ Len(reqs) = 0 /\ Len(events) = 0
      /\ reqs \in Seq(Sv!Request) /\ events \in Seq(Sv!Event)
  BY DEF Sv!Init
<1>2. Sv!MaxNow \in Nat /\ MaxRequests \in Nat /\ EventBuffer \in Nat
  BY DEF Sv!MaxNow, Sv!SupervisorConstants
<1>3. /\ control \in ControlRecords /\ sup \in SupRecords /\ handler \in HandlerRecords
      /\ control.pc = "idle" /\ control.req = Sv!NoRequest /\ handler.pc = "start" /\ handler.ev = Sv!NoEvent
      /\ control.until = 0 /\ sup.phase = "running" /\ ~sup.stopping
  BY DEF Sv!Init, ControlRecords, SupRecords, HandlerRecords, SupervisorPhases
<1>4. SupervisorType
  <2>1. Sv!TypeOK
    <3>1. /\ control.req \in Sv!Request \cup {Sv!NoRequest} /\ control.until \in Nat
          /\ sup.stopping \in BOOLEAN /\ sup.failed \in BOOLEAN /\ sup.deadline \in Nat
          /\ handler.ev \in Sv!Event \cup {Sv!NoEvent} /\ handler.deadline \in Nat /\ handler.until \in Nat
      BY <1>3 DEF ControlRecords, SupRecords, HandlerRecords
    <3>2. {cancelled, dropped, suspending} \subseteq BOOLEAN
      BY Zenon DEF Sv!Init
    <3>3. /\ acks \in [1..MaxRequests -> Nat]
          /\ now \in 0..Sv!MaxNow /\ sent \in 0..MaxRequests
          /\ live \in {"none", "up", "zombie", "verifying"} /\ host \in {"awake", "asleep"}
      BY <1>2 DEF Sv!Init
    <3> QED BY <1>1, <1>2, <1>3, <3>1, <3>2, <3>3 DEF Sv!TypeOK
  <2>2. sent = 0
    BY DEF Sv!Init
  <2> QED BY <1>1, <1>3, <2>1, <2>2 DEF SupervisorType, Named, NamedEvent, Sv!NoRequest, Sv!NoEvent
<1>5. HandlerRegular
  BY <1>1, <1>3 DEF HandlerRegular, Sv!Init, Sv!AsksToStop, Sv!NoEvent
<1>6. OnePlaceEach
  BY <1>1, <1>2, <1>3 DEF OnePlaceEach, Sv!Init, Sv!NoEvent
<1>7. ResumeFollows /\ HeldIsLast
  BY <1>1, <1>3 DEF ResumeFollows, HeldIsLast, Sv!Init, Sv!NoEvent
<1> QED BY <1>4, <1>5, <1>6, <1>7 DEF SupervisorInv

(* What a request asks of the service body.                                 *)
LEMMA Translated ==
    ASSUME Sv!SupervisorConstants, NEW r \in Sv!Request, Named(r), r.cmd \notin {"interrogate", "other"}
    PROVE  /\ Sv!translate(r) \in Sv!Event /\ Sv!translate(r).done = r.done
           /\ NamedEvent(Sv!translate(r))
           /\ Sv!translate(r).kind = "suspend" <=> r.cmd = "suspend"
           /\ Sv!translate(r).kind = "resume" <=> r.cmd = "resume"
           /\ r.cmd = "suspend" => Sv!translate(r).deadline = r.at + SuspendBudget
<1> DEFINE t == Sv!translate(r)
           k == IF r.cmd = "preshutdown" THEN "shutdown" ELSE r.cmd
<1>1. /\ r.at \in Nat /\ r.done \in Nat
      /\ r.cmd \in {"stop", "preshutdown", "shutdown", "suspend", "resume", "session"}
      /\ StopTimeout \in Nat /\ PreshutdownTimeout \in Nat /\ ShutdownTimeout \in Nat /\ SuspendBudget \in Nat
  BY DEF Sv!Request, Sv!Cmd, Sv!SupervisorConstants
<1>2. /\ k \in {"stop", "shutdown", "suspend", "resume", "session"}
      /\ k = "suspend" <=> r.cmd = "suspend"
      /\ k = "resume" <=> r.cmd = "resume"
  BY <1>1
<1>3. t.kind = k /\ t.done = r.done /\ (r.cmd = "suspend" => t.deadline = r.at + SuspendBudget)
  BY <1>1 DEF Sv!translate
<1>4. t.deadline \in Nat
  BY <1>1 DEF Sv!translate
<1>5. t \in Sv!Event
  BY <1>1, <1>2, <1>4 DEF Sv!translate, Sv!Event
<1> HIDE DEF t, k
<1>6. NamedEvent(t)
  BY <1>2, <1>3 DEF Named, NamedEvent
<1> QED BY <1>2, <1>3, <1>5, <1>6 DEF t

\* What the supervising loop does with the request it takes: nothing is left
\* of it or it is acknowledged; a service body that waits gets it; or it is queued.
SuperviseDrops(r) ==
    /\ UNCHANGED <<events, handler>>
    /\ acks' = (IF r.done = 0 THEN acks ELSE [acks EXCEPT ![r.done] = @ + 1])
    /\ r.cmd = "resume" => dropped'
    /\ r.cmd = "suspend" => dropped' \/ sup'.stopping

SuperviseHands(r) ==
    /\ handler.pc = "parked" /\ handler' = [handler EXCEPT !.pc = "got", !.ev = Sv!translate(r)]
    /\ r.cmd \notin {"interrogate", "other"} /\ UNCHANGED <<events, acks>>

SuperviseQueues(r) ==
    /\ Len(events) < EventBuffer /\ events' = Append(events, Sv!translate(r))
    /\ handler.pc # "parked"
    /\ r.cmd \notin {"interrogate", "other"} /\ UNCHANGED <<handler, acks>>

(* The three ways a request goes.                                           *)
LEMMA SuperviseTakes ==
    ASSUME SupervisorInv, Sv!SupervisorConstants, Sv!Supervise
    PROVE  LET r == reqs[1] IN
           /\ reqs # <<>> /\ reqs' = Tail(reqs) /\ r \in Sv!Request /\ Named(r)
           /\ UNCHANGED <<now, control, suspending, live, host, sent>>
           /\ sup' \in SupRecords /\ sup'.phase # "stopped"
           /\ sup.stopping => sup'.stopping
           /\ cancelled' => sup'.stopping
           /\ cancelled' \in BOOLEAN /\ dropped' \in BOOLEAN
           /\ dropped => dropped'
           /\ r.cmd \notin {"interrogate", "other"} /\ Sv!AsksToStop(Sv!translate(r)) => sup'.stopping
           /\ SuperviseDrops(r) \/ SuperviseHands(r) \/ SuperviseQueues(r)
<1> DEFINE r == reqs[1]  ev == Sv!translate(r)
<1>1. /\ reqs # <<>> /\ reqs \in Seq(Sv!Request) /\ reqs' = Tail(reqs) /\ sup.phase # "stopped"
      /\ UNCHANGED <<now, control, suspending, live, host, sent>>
  BY DEF Sv!Supervise, SupervisorInv, SupervisorType, Sv!TypeOK
<1>2. r = Head(reqs) /\ r \in Sv!Request /\ Named(r)
  <2>1. Head(reqs) = reqs[1] /\ reqs[1] \in Sv!Request /\ 1 \in 1..Len(reqs)
    BY <1>1, Taken
  <2> QED BY <2>1 DEF SupervisorInv, SupervisorType
<1>3. /\ cancelled \in BOOLEAN /\ dropped \in BOOLEAN /\ sup \in SupRecords
      /\ cancelled => sup.stopping
      /\ Len(events) <= EventBuffer /\ Len(events) \in Nat /\ EventBuffer \in Nat
      /\ handler.pc = "parked" => events = <<>>
  BY DEF SupervisorInv, SupervisorType, Sv!TypeOK, HandlerRegular, Sv!SupervisorConstants
<1>4. CASE r.cmd \in {"interrogate", "other"}
  <2>1. UNCHANGED <<sup, events, cancelled, handler, acks, dropped>>
    BY <1>2, <1>4 DEF Sv!Supervise, Sv!Ignored
  <2>2. r.done = 0
    BY <1>2, <1>4 DEF Named
  <2> QED BY <1>1, <1>2, <1>3, <1>4, <2>1, <2>2 DEF SuperviseDrops
<1>5. CASE r.cmd \notin {"interrogate", "other"}
  <2> HIDE DEF r
  <2>1. /\ ev \in Sv!Event /\ ev.done = r.done /\ NamedEvent(ev)
        /\ ev.kind = "suspend" <=> r.cmd = "suspend"
        /\ ev.kind = "resume" <=> r.cmd = "resume"
    BY <1>2, <1>5, Translated
  <2>2. \/ Sv!SuperviseStop(ev) \/ Sv!SuperviseStopAgain(ev)
        \/ Sv!SuperviseSuspendStopping(ev) \/ Sv!SuperviseForward(ev)
    BY <1>2, <1>5 DEF Sv!Supervise, Sv!Ignored
  <2>3. r.done = 0 <=> r.cmd # "suspend"
    BY <1>2 DEF Named
  <2>4. ev.deadline \in Nat
    BY <2>1 DEF Sv!Event
  <2> HIDE DEF ev
  <2>5. ASSUME Sv!deliver(ev), acks' = acks
        PROVE  SuperviseHands(r) \/ SuperviseQueues(r) \/ (Sv!Full /\ UNCHANGED <<events, handler>>)
    BY <1>3, <1>5, <2>5 DEF Sv!deliver, Sv!Full, SuperviseHands, SuperviseQueues, ev
  <2>6. CASE Sv!SuperviseStop(ev)
    <3>1. /\ Sv!AsksToStop(ev) /\ sup' = [sup EXCEPT !.phase = "stop_pending", !.stopping = TRUE, !.deadline = ev.deadline]
          /\ Sv!deliver(ev) /\ cancelled' = TRUE /\ acks' = acks /\ dropped' = dropped
      BY <2>6 DEF Sv!SuperviseStop
    <3>2. sup' \in SupRecords /\ sup'.phase # "stopped" /\ sup'.stopping
      BY <1>3, <2>4, <3>1 DEF SupRecords
    <3>3. r.cmd # "suspend" /\ r.cmd # "resume" /\ r.done = 0
      BY <2>1, <2>3, <3>1 DEF Sv!AsksToStop
    <3>4. SuperviseDrops(r) \/ SuperviseHands(r) \/ SuperviseQueues(r)
      BY <2>5, <3>1, <3>3 DEF SuperviseDrops
    <3> QED BY <1>1, <1>2, <1>3, <3>1, <3>2, <3>4 DEF r
  <2>7. CASE Sv!SuperviseStopAgain(ev)
    <3>1. /\ Sv!AsksToStop(ev) /\ sup.stopping
          /\ (sup' = [sup EXCEPT !.deadline = ev.deadline] /\ Sv!deliver(ev)) \/ UNCHANGED <<sup, events, handler>>
          /\ UNCHANGED <<cancelled, acks, dropped>>
      BY <2>7 DEF Sv!SuperviseStopAgain
    <3>2. sup' \in SupRecords /\ sup'.phase # "stopped" /\ sup'.stopping
      BY <1>1, <1>3, <2>4, <3>1 DEF SupRecords
    <3>3. r.cmd # "suspend" /\ r.cmd # "resume" /\ r.done = 0
      BY <2>1, <2>3, <3>1 DEF Sv!AsksToStop
    <3>4. SuperviseDrops(r) \/ SuperviseHands(r) \/ SuperviseQueues(r)
      BY <2>5, <3>1, <3>3 DEF SuperviseDrops
    <3> QED BY <1>1, <1>2, <1>3, <3>1, <3>2, <3>4 DEF r
  <2>8. CASE Sv!SuperviseSuspendStopping(ev)
    <3>1. /\ r.cmd = "suspend" /\ sup.stopping /\ r.done # 0
          /\ acks' = [acks EXCEPT ![r.done] = @ + 1]
          /\ UNCHANGED <<sup, events, handler, cancelled, dropped>>
      BY <2>1, <2>3, <2>8 DEF Sv!SuperviseSuspendStopping, Sv!Ack
    <3>2. SuperviseDrops(r)
      BY <3>1 DEF SuperviseDrops
    <3> QED BY <1>1, <1>2, <1>3, <3>1, <3>2 DEF r
  <2>9. CASE Sv!SuperviseForward(ev)
    <3>1. /\ ~Sv!AsksToStop(ev) /\ Sv!deliver(ev) /\ dropped' = (dropped \/ Sv!Full)
          /\ UNCHANGED <<sup, cancelled>>
      BY <2>9 DEF Sv!SuperviseForward
    <3>2. acks' = IF Sv!Full /\ r.done # 0 THEN [acks EXCEPT ![r.done] = @ + 1] ELSE acks
      BY <2>1, <2>9 DEF Sv!SuperviseForward, Sv!Ack
    <3>3. SuperviseDrops(r) \/ SuperviseHands(r) \/ SuperviseQueues(r)
      <4>1. CASE Sv!Full
        <5>1. UNCHANGED <<events, handler>>
          BY <1>3, <3>1, <4>1 DEF Sv!Full, Sv!deliver
        <5>2. dropped'
          BY <3>1, <4>1, Zenon
        <5> QED BY <3>2, <4>1, <5>1, <5>2 DEF SuperviseDrops
      <4>2. CASE ~Sv!Full
        BY <2>5, <3>1, <3>2, <4>2
      <4> QED BY <4>1, <4>2
    <3>4. dropped' \in BOOLEAN /\ (dropped => dropped') /\ (cancelled' => sup'.stopping) /\ cancelled' \in BOOLEAN
      BY <1>3, <3>1 DEF Sv!Full
    <3>5. ~Sv!AsksToStop(Sv!translate(r))
      BY <3>1 DEF ev
    <3>6. sup' = sup
      BY <3>1
    <3> QED BY <1>1, <1>2, <1>3, <3>3, <3>4, <3>5, <3>6 DEF r
  <2> QED BY <2>2, <2>6, <2>7, <2>8, <2>9
<1> QED BY <1>4, <1>5

\* The parts of the type that the supervising loop and the handlers change.
TypeParts ==
    /\ now \in 0..Sv!MaxNow /\ sent \in 0..MaxRequests
    /\ live \in {"none", "up", "zombie", "verifying"} /\ host \in {"awake", "asleep"}
    /\ reqs \in Seq(Sv!Request) /\ Len(reqs) <= EventBuffer
    /\ events \in Seq(Sv!Event) /\ Len(events) <= EventBuffer
    /\ control \in ControlRecords /\ sup \in SupRecords /\ handler \in HandlerRecords
    /\ acks \in [1..MaxRequests -> Nat]
    /\ Named(control.req) /\ (control.pc = "hold" => control.req.done # 0)
    /\ control.pc # "idle" => control.req \in Sv!Request
    /\ \A i \in 1..Len(reqs) : Named(reqs[i])
    /\ \A i \in 1..Len(events) : NamedEvent(events[i])
    /\ NamedEvent(handler.ev)

(* The type is these parts and three flags.                                 *)
LEMMA TypeIsParts ==
    SupervisorType <=> TypeParts /\ {cancelled, dropped, suspending} \subseteq BOOLEAN
<1> DEFINE Flags == {cancelled, dropped, suspending} \subseteq BOOLEAN
<1>1. control \in ControlRecords /\ sup \in SupRecords /\ handler \in HandlerRecords =>
        /\ control.pc \in {"idle", "queue", "hold"}
        /\ control.req \in Sv!Request \cup {Sv!NoRequest} /\ control.until \in Nat
        /\ sup.phase \in {"running", "stop_pending", "stopped"}
        /\ sup.stopping \in BOOLEAN /\ sup.failed \in BOOLEAN /\ sup.deadline \in Nat
        /\ handler.pc \in SupervisorPhases
        /\ handler.ev \in Sv!Event \cup {Sv!NoEvent} /\ handler.deadline \in Nat /\ handler.until \in Nat
  BY DEF ControlRecords, SupRecords, HandlerRecords
<1> HIDE DEF Flags
<1>2. SupervisorType => TypeParts
  BY DEF SupervisorType, TypeParts, Sv!TypeOK
<1>3. SupervisorType => Flags
  BY DEF SupervisorType, Sv!TypeOK, Flags
<1>4. TypeParts /\ Flags => SupervisorType
  BY <1>1 DEF SupervisorType, TypeParts, Sv!TypeOK, SupervisorPhases, Flags
<1> QED BY <1>2, <1>3, <1>4 DEF Flags

(* An acknowledgement of what was pending.                                  *)
LEMMA Acknowledged ==
    ASSUME acks \in [1..MaxRequests -> Nat], MaxRequests \in Nat, sent \in 0..MaxRequests, NEW d \in 0..sent,
           acks' = (IF d = 0 THEN acks ELSE [acks EXCEPT ![d] = @ + 1])
    PROVE  /\ acks' \in [1..MaxRequests -> Nat]
           /\ \A c \in 1..MaxRequests : c # d => acks'[c] = acks[c]
           /\ d # 0 => d \in 1..MaxRequests /\ acks'[d] = acks[d] + 1
<1>1. d # 0 => d \in 1..MaxRequests
  OBVIOUS
<1> QED BY <1>1

(* The type after a request was taken.                                      *)
LEMMA SuperviseType ==
    ASSUME SupervisorInv, Sv!SupervisorConstants, Sv!Supervise
    PROVE  SupervisorType'
<1> DEFINE r == reqs[1]  e == Sv!translate(r)
<1>1. /\ reqs # <<>> /\ reqs' = Tail(reqs) /\ r \in Sv!Request /\ Named(r)
      /\ UNCHANGED <<now, control, suspending, live, host, sent>>
      /\ sup' \in SupRecords /\ cancelled' \in BOOLEAN /\ dropped' \in BOOLEAN
      /\ SuperviseDrops(r) \/ SuperviseHands(r) \/ SuperviseQueues(r)
  BY SuperviseTakes
<1>2. /\ TypeParts /\ {cancelled, dropped, suspending} \subseteq BOOLEAN
      /\ Len(events) \in Nat /\ EventBuffer \in Nat /\ MaxRequests \in Nat
  BY TypeIsParts DEF SupervisorInv, TypeParts, Sv!SupervisorConstants
<1>3. r.cmd \notin {"interrogate", "other"} => e \in Sv!Event /\ NamedEvent(e)
  BY <1>1, Translated
<1>4. /\ reqs' \in Seq(Sv!Request) /\ Len(reqs') <= EventBuffer
      /\ \A i \in 1..Len(reqs') : Named(reqs'[i])
  <2>1. /\ Tail(reqs) \in Seq(Sv!Request) /\ Len(reqs) \in Nat \ {0} /\ Len(Tail(reqs)) = Len(reqs) - 1
        /\ \A i \in 1..Len(Tail(reqs)) : i + 1 \in 1..Len(reqs) /\ Tail(reqs)[i] = reqs[i + 1]
    BY <1>1, <1>2, Taken DEF TypeParts
  <2> QED BY <1>1, <1>2, <2>1 DEF TypeParts
<1> HIDE DEF r, e
<1>5. /\ events' \in Seq(Sv!Event) /\ Len(events') <= EventBuffer /\ handler' \in HandlerRecords
      /\ acks' \in [1..MaxRequests -> Nat] /\ NamedEvent(handler'.ev)
      /\ \A i \in 1..Len(events') : NamedEvent(events'[i])
  <2>1. CASE SuperviseDrops(r)
    <3>1. acks' \in [1..MaxRequests -> Nat]
      BY <1>1, <1>2, <2>1, Acknowledged DEF TypeParts, Named, SuperviseDrops
    <3> QED BY <1>2, <2>1, <3>1 DEF SuperviseDrops, TypeParts
  <2>2. CASE SuperviseHands(r)
    <3>1. e \in Sv!Event /\ NamedEvent(e) /\ handler' = [handler EXCEPT !.pc = "got", !.ev = e] /\ UNCHANGED <<events, acks>>
      BY <1>3, <2>2 DEF SuperviseHands, e
    <3>2. handler' \in HandlerRecords /\ handler'.ev = e
      BY <1>2, <3>1 DEF HandlerRecords, TypeParts, SupervisorPhases
    <3> QED BY <1>2, <3>1, <3>2 DEF TypeParts
  <2>3. CASE SuperviseQueues(r)
    <3>1. e \in Sv!Event /\ NamedEvent(e) /\ events' = Append(events, e) /\ UNCHANGED <<handler, acks>>
          /\ Len(events) < EventBuffer
      BY <1>3, <2>3 DEF SuperviseQueues, e
    <3>2. /\ Append(events, e) \in Seq(Sv!Event) /\ Len(Append(events, e)) = Len(events) + 1
          /\ \A i \in 1..Len(events) : Append(events, e)[i] = events[i]
          /\ Append(events, e)[Len(events) + 1] = e
      BY <1>2, <3>1, Added DEF TypeParts
    <3>3. \A i \in 1..Len(events') : NamedEvent(events'[i])
      <4> SUFFICES ASSUME NEW i \in 1..Len(events') PROVE NamedEvent(events'[i])
        OBVIOUS
      <4>1. i \in 1..Len(events) \/ i = Len(events) + 1
        BY <1>2, <3>1, <3>2
      <4> QED BY <1>2, <3>1, <3>2, <4>1 DEF TypeParts
    <3> QED BY <1>2, <3>1, <3>2, <3>3 DEF TypeParts
  <2> QED BY <1>1, <2>1, <2>2, <2>3
<1>6. TypeParts'
  BY <1>1, <1>2, <1>4, <1>5 DEF TypeParts, Named, NamedEvent
<1>7. ({cancelled, dropped, suspending} \subseteq BOOLEAN)'
  BY <1>1, <1>2, Zenon
<1> QED BY <1>6, <1>7, TypeIsParts, PTL

(* The service body is where it may be after a request was taken.           *)
LEMMA SuperviseRegular ==
    ASSUME SupervisorInv, Sv!SupervisorConstants, Sv!Supervise
    PROVE  HandlerRegular'
<1> DEFINE r == reqs[1]  e == Sv!translate(r)
<1>1. /\ r \in Sv!Request /\ Named(r)
      /\ sup'.phase # "stopped" /\ (sup.stopping => sup'.stopping) /\ (cancelled' => sup'.stopping)
      /\ r.cmd \notin {"interrogate", "other"} /\ Sv!AsksToStop(e) => sup'.stopping
      /\ SuperviseDrops(r) \/ SuperviseHands(r) \/ SuperviseQueues(r)
  BY SuperviseTakes
<1>2. /\ HandlerRegular /\ handler \in HandlerRecords /\ events \in Seq(Sv!Event)
  BY TypeIsParts DEF SupervisorInv, TypeParts
<1>3. r.cmd \notin {"interrogate", "other"} => e \in Sv!Event
  BY <1>1, Translated
<1> HIDE DEF r, e
<1>4. CASE SuperviseDrops(r)
  BY <1>1, <1>2, <1>4 DEF SuperviseDrops, HandlerRegular
<1>5. CASE SuperviseHands(r)
  <2>1. /\ e \in Sv!Event /\ handler.pc = "parked" /\ handler' = [handler EXCEPT !.pc = "got", !.ev = e]
        /\ events' = events /\ (Sv!AsksToStop(e) => sup'.stopping)
    BY <1>1, <1>3, <1>5 DEF SuperviseHands, e
  <2>2. handler'.pc = "got" /\ handler'.ev = e
    BY <1>2, <2>1 DEF HandlerRecords
  <2> QED BY <1>1, <1>2, <2>1, <2>2 DEF HandlerRegular
<1>6. CASE SuperviseQueues(r)
  <2>1. /\ e \in Sv!Event /\ handler.pc # "parked" /\ events' = Append(events, e)
        /\ handler' = handler /\ (Sv!AsksToStop(e) => sup'.stopping)
    BY <1>1, <1>3, <1>6 DEF SuperviseQueues, e
  <2>2. /\ Len(Append(events, e)) = Len(events) + 1 /\ Len(events) \in Nat
        /\ \A i \in 1..Len(events) : Append(events, e)[i] = events[i]
        /\ Append(events, e)[Len(events) + 1] = e
    BY <1>2, <2>1, Added
  <2>3. \A i \in 1..Len(events') : Sv!AsksToStop(events'[i]) => sup'.stopping
    <3> SUFFICES ASSUME NEW i \in 1..Len(events') PROVE Sv!AsksToStop(events'[i]) => sup'.stopping
      OBVIOUS
    <3>1. i \in 1..Len(events) \/ i = Len(events) + 1
      BY <2>1, <2>2
    <3> QED BY <1>1, <1>2, <2>1, <2>2, <3>1 DEF HandlerRegular
  <2> QED BY <1>1, <1>2, <2>1, <2>3 DEF HandlerRegular
<1> QED BY <1>1, <1>4, <1>5, <1>6

(* A request is in one place at most after it was taken.                    *)
LEMMA SupervisePlaces ==
    ASSUME SupervisorInv, Sv!SupervisorConstants, Sv!Supervise
    PROVE  OnePlaceEach'
<1> DEFINE r == reqs[1]  e == Sv!translate(r)
<1>1. /\ reqs # <<>> /\ reqs' = Tail(reqs) /\ r \in Sv!Request /\ Named(r)
      /\ UNCHANGED <<control, sent>>
      /\ SuperviseDrops(r) \/ SuperviseHands(r) \/ SuperviseQueues(r)
  BY SuperviseTakes
<1>2. /\ OnePlaceEach /\ TypeParts /\ MaxRequests \in Nat /\ sent \in 0..MaxRequests
      /\ handler.pc = "parked" => events = <<>>
  BY TypeIsParts DEF SupervisorInv, TypeParts, Sv!SupervisorConstants, HandlerRegular
<1>3. r.cmd \notin {"interrogate", "other"} => e \in Sv!Event /\ e.done = r.done
  BY <1>1, Translated
<1>4. /\ Len(reqs) \in Nat \ {0} /\ Len(reqs') = Len(reqs) - 1 /\ 1 \in 1..Len(reqs)
      /\ \A i \in 1..Len(reqs') : i + 1 \in 1..Len(reqs) /\ reqs'[i] = reqs[i + 1] /\ i + 1 # 1 /\ i \in Nat
  <2>1. /\ Len(reqs) \in Nat \ {0} /\ Len(Tail(reqs)) = Len(reqs) - 1
        /\ \A i \in 1..Len(Tail(reqs)) : i + 1 \in 1..Len(reqs) /\ Tail(reqs)[i] = reqs[i + 1]
    BY <1>1, <1>2, Taken DEF TypeParts
  <2> QED BY <1>1, <2>1
<1>5. /\ \A i \in 1..Len(reqs') : reqs'[i].done # 0 =>
           /\ reqs'[i].done # r.done /\ reqs'[i].done # handler.ev.done /\ acks[reqs'[i].done] = 0
           /\ \A j \in 1..Len(events) : reqs'[i].done # events[j].done
           /\ reqs'[i].done \in 1..MaxRequests
      /\ r.done # 0 => r.done # handler.ev.done /\ acks[r.done] = 0 /\ \A j \in 1..Len(events) : r.done # events[j].done
      /\ control.pc = "queue" /\ control.req.done # 0 => control.req.done # r.done /\ \A i \in 1..Len(reqs') : reqs'[i].done # control.req.done
  <2>1. \A i \in 1..Len(reqs) : reqs[i].done # 0 => reqs[i].done \in 1..MaxRequests
    BY <1>2 DEF TypeParts, Named
  <2>2. ASSUME NEW i \in 1..Len(reqs'), reqs'[i].done # 0
        PROVE  /\ reqs'[i].done # r.done /\ reqs'[i].done # handler.ev.done /\ acks[reqs'[i].done] = 0
               /\ \A j \in 1..Len(events) : reqs'[i].done # events[j].done
               /\ reqs'[i].done \in 1..MaxRequests
    <3>1. i + 1 \in 1..Len(reqs) /\ reqs'[i] = reqs[i + 1] /\ i + 1 # 1
      BY <1>4
    <3> DEFINE k == i + 1
    <3>2. k \in 1..Len(reqs) /\ k # 1 /\ reqs'[i] = reqs[k] /\ reqs[k].done # 0
      BY <2>2, <3>1
    <3> HIDE DEF k
    <3> QED BY <1>2, <1>4, <2>1, <3>2 DEF OnePlaceEach, Pending
  <2>3. r.done # 0 => r.done # handler.ev.done /\ acks[r.done] = 0 /\ \A j \in 1..Len(events) : r.done # events[j].done
    BY <1>2, <1>4 DEF OnePlaceEach, Pending
  <2>4. control.pc = "queue" /\ control.req.done # 0 =>
          control.req.done # r.done /\ \A i \in 1..Len(reqs') : reqs'[i].done # control.req.done
    BY <1>2, <1>4 DEF OnePlaceEach
  <2> QED BY <2>2, <2>3, <2>4
<1>6. \A i, j \in 1..Len(reqs') : reqs'[i].done = reqs'[j].done => i = j \/ reqs'[i].done = 0
  <2> SUFFICES ASSUME NEW i \in 1..Len(reqs'), NEW j \in 1..Len(reqs'), reqs'[i].done = reqs'[j].done
               PROVE  i = j \/ reqs'[i].done = 0
    OBVIOUS
  <2>1. i + 1 \in 1..Len(reqs) /\ j + 1 \in 1..Len(reqs) /\ reqs[i + 1].done = reqs[j + 1].done
    BY <1>4
  <2>2. i + 1 = j + 1 \/ reqs[i + 1].done = 0
    BY <1>2, <2>1 DEF OnePlaceEach
  <2>3. i \in Nat /\ j \in Nat /\ reqs'[i] = reqs[i + 1]
    BY <1>4
  <2>4. i + 1 = j + 1 => i = j
    BY <2>3
  <2> QED BY <2>2, <2>3, <2>4
<1>7. \A i \in 1..Len(events) : events[i].done # 0 => events[i].done \in 1..MaxRequests
  BY <1>2 DEF TypeParts, NamedEvent
<1>8. (handler.ev.done # 0 => handler.ev.done \in 1..MaxRequests) /\ (control.req.done # 0 => control.req.done \in 1..MaxRequests)
  BY <1>2 DEF TypeParts, NamedEvent, Named
<1> HIDE DEF r, e
<1>9. CASE SuperviseDrops(r)
  <2>1. /\ \A c \in 1..MaxRequests : c # r.done => acks'[c] = acks[c]
        /\ r.done # 0 => r.done \in 1..MaxRequests /\ acks'[r.done] = acks[r.done] + 1 /\ r.done <= sent
        /\ UNCHANGED <<events, handler>>
    <3>1. r.done \in 0..sent
      BY <1>1 DEF Named
    <3> QED BY <1>2, <1>9, <3>1, Acknowledged DEF TypeParts, SuperviseDrops
  <2>2. \A d \in 1..MaxRequests : acks'[d] <= 1 /\ (acks'[d] > 0 => d <= sent)
    <3> SUFFICES ASSUME NEW d \in 1..MaxRequests PROVE acks'[d] <= 1 /\ (acks'[d] > 0 => d <= sent)
      OBVIOUS
    <3> QED BY <1>2, <1>5, <2>1 DEF OnePlaceEach
  <2>3. \A i \in 1..Len(events) : events[i].done # 0 => acks'[events[i].done] = 0 /\ events[i].done # handler.ev.done
    BY <1>2, <1>5, <1>7, <2>1 DEF OnePlaceEach, Pending
  <2>4. handler.ev.done # 0 => acks'[handler.ev.done] = 0
    BY <1>2, <1>5, <1>8, <2>1 DEF OnePlaceEach, Pending
  <2>5. control.pc = "queue" /\ control.req.done # 0 => acks'[control.req.done] = 0
    BY <1>2, <1>5, <1>8, <2>1 DEF OnePlaceEach, Pending
  <2>6. \A i \in 1..Len(reqs') : reqs'[i].done # 0 => acks'[reqs'[i].done] = 0 /\ reqs'[i].done # handler.ev.done
    BY <1>5, <2>1
  <2>7. \A i \in 1..Len(reqs'), j \in 1..Len(events) : reqs'[i].done = events[j].done => reqs'[i].done = 0
    BY <1>5
  <2>8. \A i, j \in 1..Len(events) : events[i].done = events[j].done => i = j \/ events[i].done = 0
    BY <1>2 DEF OnePlaceEach
  <2>9. control.pc = "queue" /\ control.req.done # 0 =>
          /\ control.req.done # handler.ev.done
          /\ \A i \in 1..Len(reqs') : reqs'[i].done # control.req.done
          /\ \A i \in 1..Len(events) : events[i].done # control.req.done
    BY <1>2, <1>5 DEF OnePlaceEach
  <2>10. UNCHANGED <<events, handler, control, sent>>
    BY <1>1, <2>1
  <2> QED BY <1>6, <2>2, <2>3, <2>4, <2>5, <2>6, <2>7, <2>8, <2>9, <2>10 DEF OnePlaceEach, Pending
<1>10. CASE SuperviseHands(r)
  <2>1. /\ events = <<>> /\ events' = <<>> /\ Len(<<>>) = 0 /\ acks' = acks /\ handler'.ev.done = r.done
    BY <1>2, <1>3, <1>10 DEF SuperviseHands, HandlerRecords, TypeParts, e
  <2>2. \A i \in 1..Len(events') : FALSE
    BY <2>1
  <2>3. \A i \in 1..Len(reqs') : reqs'[i].done # 0 => acks[reqs'[i].done] = 0 /\ reqs'[i].done # r.done
    BY <1>5
  <2>4. r.done # 0 => acks[r.done] = 0
    BY <1>5
  <2>5. control.pc = "queue" /\ control.req.done # 0 =>
          /\ acks[control.req.done] = 0 /\ control.req.done # r.done
          /\ \A i \in 1..Len(reqs') : reqs'[i].done # control.req.done
    BY <1>2, <1>5 DEF OnePlaceEach, Pending
  <2>6. \A d \in 1..MaxRequests : acks[d] <= 1 /\ (acks[d] > 0 => d <= sent)
    BY <1>2 DEF OnePlaceEach
  <2>7. UNCHANGED <<control, sent>>
    BY <1>1
  <2> QED BY <1>6, <2>1, <2>2, <2>3, <2>4, <2>5, <2>6, <2>7 DEF OnePlaceEach, Pending
<1>11. CASE SuperviseQueues(r)
  <2>1. e \in Sv!Event /\ e.done = r.done /\ events' = Append(events, e) /\ acks' = acks /\ handler' = handler
    BY <1>3, <1>11 DEF SuperviseQueues, e
  <2>2. /\ Len(events') = Len(events) + 1 /\ Len(events) \in Nat
        /\ \A i \in 1..Len(events) : events'[i] = events[i]
        /\ events'[Len(events) + 1] = e
        /\ \A i \in 1..Len(events') : i \in 1..Len(events) \/ i = Len(events) + 1
    <3>1. /\ Len(Append(events, e)) = Len(events) + 1 /\ Len(events) \in Nat
          /\ \A i \in 1..Len(events) : Append(events, e)[i] = events[i]
          /\ Append(events, e)[Len(events) + 1] = e
      BY <1>2, <2>1, Added DEF TypeParts
    <3> QED BY <2>1, <3>1
  <2>3. \A i \in 1..Len(events') : \/ i \in 1..Len(events) /\ events'[i] = events[i]
                                   \/ i = Len(events) + 1 /\ events'[i].done = r.done
    BY <2>1, <2>2
  <2>4. \A i, j \in 1..Len(events') : events'[i].done = events'[j].done => i = j \/ events'[i].done = 0
    <3> SUFFICES ASSUME NEW i \in 1..Len(events'), NEW j \in 1..Len(events'), events'[i].done = events'[j].done
                 PROVE  i = j \/ events'[i].done = 0
      OBVIOUS
    <3>1. \/ i \in 1..Len(events) /\ events'[i] = events[i]
          \/ i = Len(events) + 1 /\ events'[i].done = r.done
      BY <2>3
    <3>2. \/ j \in 1..Len(events) /\ events'[j] = events[j]
          \/ j = Len(events) + 1 /\ events'[j].done = r.done
      BY <2>3
    <3> QED BY <1>2, <1>5, <3>1, <3>2 DEF OnePlaceEach
  <2>5. \A i \in 1..Len(reqs'), j \in 1..Len(events') : reqs'[i].done = events'[j].done => reqs'[i].done = 0
    BY <1>5, <2>3
  <2>6. \A i \in 1..Len(events') : events'[i].done # 0 => acks[events'[i].done] = 0 /\ events'[i].done # handler.ev.done
    BY <1>2, <1>5, <2>3 DEF OnePlaceEach, Pending
  <2>7. control.pc = "queue" /\ control.req.done # 0 => \A i \in 1..Len(events') : events'[i].done # control.req.done
    BY <1>2, <1>5, <2>3 DEF OnePlaceEach
  <2> QED BY <1>1, <1>2, <1>5, <1>6, <2>1, <2>4, <2>5, <2>6, <2>7 DEF OnePlaceEach, Pending
<1> QED BY <1>1, <1>9, <1>10, <1>11

(* A resume asked for stays behind the suspends after a request was taken.  *)
LEMMA SuperviseResumes ==
    ASSUME SupervisorInv, Sv!SupervisorConstants, Sv!Supervise
    PROVE  ResumeFollows'
<1> DEFINE r == reqs[1]  e == Sv!translate(r)
<1>1. /\ reqs # <<>> /\ reqs' = Tail(reqs) /\ r \in Sv!Request /\ Named(r)
      /\ UNCHANGED <<control, suspending, host>>
      /\ dropped => dropped'
      /\ SuperviseDrops(r) \/ SuperviseHands(r) \/ SuperviseQueues(r)
  BY SuperviseTakes
<1>2. /\ ResumeFollows /\ TypeParts
      /\ handler.pc = "parked" => events = <<>> /\ handler.ev = Sv!NoEvent
  BY TypeIsParts DEF SupervisorInv, TypeParts, HandlerRegular
<1>3. r.cmd \notin {"interrogate", "other"} =>
        /\ e \in Sv!Event
        /\ e.kind = "suspend" <=> r.cmd = "suspend"
        /\ e.kind = "resume" <=> r.cmd = "resume"
  BY <1>1, Translated
<1>4. /\ Len(reqs) \in Nat \ {0} /\ Len(reqs') = Len(reqs) - 1 /\ 1 \in 1..Len(reqs)
      /\ \A i \in 1..Len(reqs') : i + 1 \in 1..Len(reqs) /\ reqs'[i] = reqs[i + 1] /\ i \in Nat
  <2>1. /\ Len(reqs) \in Nat \ {0} /\ Len(Tail(reqs)) = Len(reqs) - 1
        /\ \A i \in 1..Len(Tail(reqs)) : i + 1 \in 1..Len(reqs) /\ Tail(reqs)[i] = reqs[i + 1]
    BY <1>1, <1>2, Taken DEF TypeParts
  <2> QED BY <1>1, <2>1
<1>5. SUFFICES ASSUME host' = "awake", ~dropped', Open'
               PROVE  /\ control'.pc = "queue" => control'.req.cmd # "suspend"
                      /\ \A i \in 1..Len(reqs') : reqs'[i].cmd = "suspend" =>
                           ResumeQueued' \/ \E j \in 1..Len(reqs') : j > i /\ reqs'[j].cmd = "resume"
                      /\ \A i \in 1..Len(events') : events'[i].kind = "suspend" =>
                           ResumeAsked' \/ \E j \in 1..Len(events') : j > i /\ events'[j].kind = "resume"
                      /\ handler'.ev.kind = "suspend" => ResumeSent'
                      /\ suspending' => ResumeSent' \/ handler'.ev.kind = "resume"
  BY DEF ResumeFollows
<1>6. host = "awake" /\ ~dropped /\ Open
  BY <1>1, <1>5 DEF Open, SuperviseDrops, SuperviseHands, SuperviseQueues
<1>7. ResumeQueued' <=> ResumeQueued
  BY <1>1 DEF ResumeQueued
<1>8. \A k \in 1..Len(reqs) : k > 1 => k - 1 \in 1..Len(reqs') /\ reqs'[k - 1] = reqs[k]
  <2> SUFFICES ASSUME NEW k \in 1..Len(reqs), k > 1 PROVE k - 1 \in 1..Len(reqs') /\ reqs'[k - 1] = reqs[k]
    OBVIOUS
  <2>1. k - 1 \in 1..Len(reqs') /\ (k - 1) + 1 = k
    BY <1>4
  <2> QED BY <1>4, <2>1
<1>9. \A i \in 1..Len(reqs') : reqs'[i].cmd = "suspend" =>
        ResumeQueued' \/ \E j \in 1..Len(reqs') : j > i /\ reqs'[j].cmd = "resume"
  <2> SUFFICES ASSUME NEW i \in 1..Len(reqs'), reqs'[i].cmd = "suspend", ~ResumeQueued
               PROVE  \E j \in 1..Len(reqs') : j > i /\ reqs'[j].cmd = "resume"
    BY <1>7
  <2>1. i + 1 \in 1..Len(reqs) /\ reqs[i + 1].cmd = "suspend" /\ i \in Nat /\ i >= 1
    BY <1>4
  <2>2. PICK j \in 1..Len(reqs) : j > i + 1 /\ reqs[j].cmd = "resume"
    BY <1>2, <1>6, <2>1 DEF ResumeFollows
  <2>3. j > 1 /\ j - 1 > i
    BY <2>1, <2>2
  <2> QED BY <1>8, <2>2, <2>3
<1>10. ResumeAsked => ResumeAsked' \/ r.cmd = "resume"
  <2> SUFFICES ASSUME NEW j \in 1..Len(reqs), reqs[j].cmd = "resume", j # 1 PROVE ResumeAsked'
    BY <1>7 DEF ResumeAsked
  <2>1. j > 1
    BY <1>4
  <2> QED BY <1>8, <2>1 DEF ResumeAsked
<1>11. r.cmd = "suspend" => ResumeAsked'
  <2> SUFFICES ASSUME r.cmd = "suspend", ~ResumeQueued PROVE ResumeAsked'
    BY <1>7 DEF ResumeAsked
  <2>1. PICK j \in 1..Len(reqs) : j > 1 /\ reqs[j].cmd = "resume"
    BY <1>2, <1>4, <1>6 DEF ResumeFollows
  <2> QED BY <1>8, <2>1 DEF ResumeAsked
<1>12. control'.pc = "queue" => control'.req.cmd # "suspend"
  BY <1>1, <1>2, <1>6 DEF ResumeFollows
<1> HIDE DEF r, e
<1>13. CASE SuperviseDrops(r)
  <2>1. UNCHANGED <<events, handler>> /\ r.cmd # "resume"
    BY <1>5, <1>13 DEF SuperviseDrops
  <2>2. (ResumeAsked => ResumeAsked') /\ (ResumeSent => ResumeSent')
    BY <1>10, <2>1 DEF ResumeSent
  <2> QED BY <1>1, <1>2, <1>6, <1>9, <1>12, <2>1, <2>2 DEF ResumeFollows
<1>14. CASE SuperviseHands(r)
  <2>1. /\ events = <<>> /\ events' = <<>> /\ Len(<<>>) = 0 /\ handler.ev = Sv!NoEvent
        /\ handler'.ev = e /\ (e.kind = "suspend" <=> r.cmd = "suspend") /\ (e.kind = "resume" <=> r.cmd = "resume")
    BY <1>2, <1>3, <1>14 DEF SuperviseHands, TypeParts, HandlerRecords, e
  <2>2. handler'.ev.kind = "suspend" => ResumeSent'
    BY <1>11, <2>1 DEF ResumeSent
  <2>3. suspending' => ResumeSent' \/ handler'.ev.kind = "resume"
    <3>1. suspending => ResumeAsked
      BY <1>2, <1>6, <2>1 DEF ResumeFollows, ResumeSent, Sv!NoEvent
    <3> QED BY <1>1, <1>10, <2>1, <3>1 DEF ResumeSent
  <2> QED BY <1>9, <1>12, <2>1, <2>2, <2>3
<1>15. CASE SuperviseQueues(r)
  <2>1. /\ e \in Sv!Event /\ events' = Append(events, e) /\ handler' = handler
        /\ e.kind = "suspend" <=> r.cmd = "suspend"
        /\ e.kind = "resume" <=> r.cmd = "resume"
    BY <1>3, <1>15 DEF SuperviseQueues, e
  <2>2. /\ Len(events') = Len(events) + 1 /\ Len(events) \in Nat
        /\ \A i \in 1..Len(events) : events'[i] = events[i] /\ i \in 1..Len(events') /\ Len(events) + 1 > i
        /\ events'[Len(events) + 1] = e /\ Len(events) + 1 \in 1..Len(events')
        /\ \A i \in 1..Len(events') : i \in 1..Len(events) \/ i = Len(events) + 1
    <3>1. /\ Len(Append(events, e)) = Len(events) + 1 /\ Len(events) \in Nat
          /\ \A i \in 1..Len(events) : Append(events, e)[i] = events[i]
          /\ Append(events, e)[Len(events) + 1] = e
      BY <1>2, <2>1, Added DEF TypeParts
    <3> QED BY <2>1, <3>1
  <2>3. r.cmd = "resume" => \E j \in 1..Len(events') : j = Len(events) + 1 /\ events'[j].kind = "resume"
    BY <2>1, <2>2
  <2>4. ResumeSent => ResumeSent'
    BY <1>10, <2>2, <2>3 DEF ResumeSent
  <2>5. \A i \in 1..Len(events') : events'[i].kind = "suspend" =>
          ResumeAsked' \/ \E j \in 1..Len(events') : j > i /\ events'[j].kind = "resume"
    <3> SUFFICES ASSUME NEW i \in 1..Len(events'), events'[i].kind = "suspend", ~ResumeAsked'
                 PROVE  \E j \in 1..Len(events') : j > i /\ events'[j].kind = "resume"
      OBVIOUS
    <3>1. i \in 1..Len(events)
      BY <1>11, <2>1, <2>2
    <3>2. events[i].kind = "suspend"
      BY <2>2, <3>1
    <3>3. CASE ResumeAsked
      BY <1>10, <2>2, <2>3, <3>1, <3>3
    <3>4. CASE \E j \in 1..Len(events) : j > i /\ events[j].kind = "resume"
      BY <2>2, <3>4
    <3> QED BY <1>2, <1>6, <3>1, <3>2, <3>3, <3>4 DEF ResumeFollows
  <2> QED BY <1>1, <1>2, <1>6, <1>9, <1>12, <2>1, <2>4, <2>5 DEF ResumeFollows
<1> QED BY <1>1, <1>13, <1>14, <1>15

(* The suspend Windows waits for is still last after a request was taken.   *)
LEMMA SuperviseHolds ==
    ASSUME SupervisorInv, Sv!SupervisorConstants, Sv!Supervise
    PROVE  HeldIsLast'
<1> DEFINE r == reqs[1]
<1>1. /\ reqs # <<>> /\ reqs' = Tail(reqs) /\ r \in Sv!Request /\ Named(r)
      /\ UNCHANGED <<now, control, suspending, live>>
      /\ sup.stopping => sup'.stopping
      /\ dropped => dropped'
      /\ SuperviseDrops(r) \/ SuperviseHands(r) \/ SuperviseQueues(r)
  BY SuperviseTakes
<1>2. /\ HeldIsLast /\ TypeParts /\ sup.phase # "stopped"
      /\ handler.pc = "parked" => events = <<>>
      /\ control.pc = "hold" => control.req.cmd = "suspend"
  BY TypeIsParts DEF SupervisorInv, TypeParts, HandlerRegular, Sv!Supervise, Named
<1>3. SUFFICES ASSUME control.pc = "hold", ~Excused' PROVE HeldIsLast'
  BY <1>1 DEF HeldIsLast
<1>4. ~Excused /\ ~sup'.stopping /\ ~dropped'
  BY <1>1, <1>2, <1>3 DEF Excused
<1>5. reqs[Len(reqs)] = control.req
  BY <1>1, <1>2, <1>3, <1>4 DEF HeldIsLast
<1>6. /\ Len(reqs) \in Nat \ {0} /\ Len(reqs') = Len(reqs) - 1 /\ reqs' \in Seq(Sv!Request)
      /\ \A i \in 1..Len(reqs') : i + 1 \in 1..Len(reqs) /\ reqs'[i] = reqs[i + 1] /\ i \in Nat
  <2>1. /\ Len(reqs) \in Nat \ {0} /\ Len(Tail(reqs)) = Len(reqs) - 1 /\ Tail(reqs) \in Seq(Sv!Request)
        /\ \A i \in 1..Len(Tail(reqs)) : i + 1 \in 1..Len(reqs) /\ Tail(reqs)[i] = reqs[i + 1]
    BY <1>1, <1>2, Taken DEF TypeParts
  <2> QED BY <1>1, <2>1
<1>7. CASE Len(reqs) # 1
  <2>1. Len(reqs') \in 1..Len(reqs') /\ Len(reqs') + 1 = Len(reqs) /\ reqs' # <<>>
    BY <1>6, <1>7
  <2>2. reqs'[Len(reqs')] = control'.req
    BY <1>1, <1>5, <1>6, <2>1
  <2> QED BY <2>1, <2>2 DEF HeldIsLast
<1>8. CASE Len(reqs) = 1
  <2>1. r = control.req /\ r.cmd = "suspend" /\ reqs' = <<>>
    BY <1>2, <1>3, <1>5, <1>6, <1>8, EmptySeq
  <2>2. /\ Sv!translate(r) \in Sv!Event
    BY <1>1, <2>1, Translated
  <2> HIDE DEF r
  <2>3. CASE SuperviseDrops(r)
    BY <1>4, <2>1, <2>3 DEF SuperviseDrops
  <2>4. CASE SuperviseHands(r)
    <3>1. events' = <<>> /\ handler'.pc = "got" /\ handler'.ev = Sv!translate(r)
      BY <1>2, <2>2, <2>4 DEF SuperviseHands, TypeParts, HandlerRecords
    <3>2. handler'.ev = Sv!translate(control'.req)
      BY <1>1, <2>1, <3>1
    <3> QED BY <2>1, <3>1, <3>2 DEF HeldIsLast
  <2>5. CASE SuperviseQueues(r)
    <3>1. events' = Append(events, Sv!translate(r))
      BY <2>5 DEF SuperviseQueues
    <3>2. events' # <<>> /\ events'[Len(events')] = Sv!translate(r)
      BY <1>2, <2>2, <3>1, Added DEF TypeParts
    <3>3. Sv!translate(r) = Sv!translate(control'.req)
      BY <1>1, <2>1
    <3> QED BY <2>1, <3>2, <3>3 DEF HeldIsLast
  <2> QED BY <1>1, <2>3, <2>4, <2>5
<1> QED BY <1>7, <1>8

(* Windows makes a request: nothing is behind it yet.                       *)
LEMMA BroadcastCounts ==
    ASSUME SupervisorInv, Sv!SupervisorConstants, NEW c \in Requests, Sv!Broadcast(c)
    PROVE  SupervisorInv'
<1> DEFINE q == [cmd |-> c, at |-> IF Sv!Timed(c) THEN now ELSE 0, done |-> IF c = "suspend" THEN sent + 1 ELSE 0]
<1>1. /\ control.pc = "idle" /\ sent < MaxRequests /\ sent' = sent + 1
      /\ control' = [pc |-> "queue", until |-> 0, req |-> q]
      /\ host' = (IF c = "suspend" THEN "asleep" ELSE "awake")
      /\ host = "asleep" => c = "resume"
      /\ UNCHANGED <<now, reqs, sup, events, cancelled, handler, acks, dropped, suspending, live>>
  BY DEF Sv!Broadcast
<1>2. /\ TypeParts /\ {cancelled, dropped, suspending} \subseteq BOOLEAN /\ MaxRequests \in Nat /\ Sv!MaxNow \in Nat
      /\ c \in Sv!Cmd
  BY TypeIsParts DEF SupervisorInv, Sv!SupervisorConstants, Sv!MaxNow
<1>3. /\ q \in Sv!Request /\ q.cmd = c /\ q.done = (IF c = "suspend" THEN sent + 1 ELSE 0)
  BY <1>2 DEF TypeParts, Sv!Request
<1> HIDE DEF q
<1>4. /\ control' \in ControlRecords /\ control'.pc = "queue" /\ control'.req = q
  BY <1>1, <1>3 DEF ControlRecords
<1>5. /\ sent \in Nat /\ sent' \in 0..MaxRequests
      /\ \A d \in 0..sent : d \in 0..sent'
      /\ sent + 1 \in 0..sent' /\ sent + 1 # 0 /\ sent + 1 \in 1..MaxRequests /\ sent + 1 \notin 0..sent
  BY <1>1, <1>2 DEF TypeParts
<1>6. SupervisorType'
  <2>1. /\ \A i \in 1..Len(reqs) : Named(reqs[i])'
        /\ \A i \in 1..Len(events) : NamedEvent(events[i])'
        /\ NamedEvent(handler.ev)'
    BY <1>1, <1>2, <1>5 DEF TypeParts, Named, NamedEvent
  <2>2. Named(control.req)'
    BY <1>3, <1>4, <1>5 DEF Named
  <2>3. host' \in {"awake", "asleep"} /\ control'.req \in Sv!Request
    BY <1>1, <1>3, <1>4
  <2>4. TypeParts'
    BY <1>1, <1>2, <1>4, <1>5, <2>1, <2>2, <2>3 DEF TypeParts
  <2>5. ({cancelled, dropped, suspending} \subseteq BOOLEAN)'
    BY <1>1, <1>2, Zenon
  <2> QED BY <2>4, <2>5, TypeIsParts, PTL
<1>7. HandlerRegular'
  BY <1>1 DEF SupervisorInv, HandlerRegular
<1>8. OnePlaceEach'
  <2>1. c = "suspend" => /\ acks[sent + 1] = 0
                         /\ handler.ev.done # sent + 1
                         /\ \A i \in 1..Len(reqs) : reqs[i].done # sent + 1
                         /\ \A i \in 1..Len(events) : events[i].done # sent + 1
    <3>1. acks[sent + 1] = 0
      BY <1>2, <1>5 DEF SupervisorInv, OnePlaceEach, TypeParts
    <3>2. /\ handler.ev.done \in 0..sent
          /\ \A i \in 1..Len(reqs) : reqs[i].done \in 0..sent
          /\ \A i \in 1..Len(events) : events[i].done \in 0..sent
      BY <1>2 DEF TypeParts, Named, NamedEvent
    <3> QED BY <1>5, <3>1, <3>2
  <2>2. control'.req.done # 0 => c = "suspend" /\ control'.req.done = sent + 1
    BY <1>3, <1>4
  <2>3. \A d \in 1..MaxRequests : acks[d] <= 1 /\ (acks[d] > 0 => d <= sent + 1)
    BY <1>2, <1>5 DEF SupervisorInv, OnePlaceEach, TypeParts
  <2>4. OnePlaceEach
    BY DEF SupervisorInv
  <2> QED BY <1>1, <2>1, <2>2, <2>3, <2>4 DEF OnePlaceEach, Pending
<1>9. ResumeFollows'
  <2>1. ResumeFollows /\ ~ResumeQueued
    BY <1>1 DEF SupervisorInv, ResumeQueued
  <2>2. CASE c = "resume"
    BY <1>3, <1>4, <2>2 DEF ResumeFollows, ResumeQueued, ResumeAsked, ResumeSent
  <2>3. CASE c = "suspend"
    BY <1>1, <2>3 DEF ResumeFollows
  <2>4. CASE c \notin {"suspend", "resume"}
    <3>1. host = "awake" /\ ~ResumeQueued'
      BY <1>1, <1>2, <1>3, <1>4, <2>4 DEF TypeParts, ResumeQueued
    <3> QED BY <1>1, <1>3, <1>4, <2>1, <2>4, <3>1 DEF ResumeFollows, ResumeAsked, ResumeSent, Open
  <2> QED BY <2>2, <2>3, <2>4
<1>10. HeldIsLast'
  BY <1>4 DEF HeldIsLast
<1> QED BY <1>6, <1>7, <1>8, <1>9, <1>10 DEF SupervisorInv

(* The handler queues its request, and holds a suspend.                     *)
LEMMA ControlQueues ==
    ASSUME SupervisorInv, Sv!SupervisorConstants, Sv!ControlQueue
    PROVE  SupervisorInv'
<1> DEFINE q == control.req
<1>1. /\ control.pc = "queue" /\ Len(reqs) < EventBuffer /\ reqs' = Append(reqs, q)
      /\ control' = IF q.done = 0 THEN [pc |-> "idle", req |-> Sv!NoRequest, until |-> 0]
                    ELSE [control EXCEPT !.pc = "hold", !.until = now + SuspendBudget]
      /\ UNCHANGED <<now, sup, events, cancelled, handler, acks, dropped, suspending, live, host, sent>>
  BY DEF Sv!ControlQueue
<1>2. /\ TypeParts /\ {cancelled, dropped, suspending} \subseteq BOOLEAN /\ EventBuffer \in Nat /\ now \in Nat
      /\ SuspendBudget \in Nat /\ Named(q) /\ q \in Sv!Request /\ sent \in Nat
  BY <1>1, TypeIsParts DEF SupervisorInv, Sv!SupervisorConstants, TypeParts
<1>3. /\ Len(reqs') = Len(reqs) + 1 /\ Len(reqs) \in Nat /\ reqs' \in Seq(Sv!Request) /\ reqs' # <<>>
      /\ \A i \in 1..Len(reqs) : reqs'[i] = reqs[i] /\ i \in 1..Len(reqs') /\ Len(reqs) + 1 > i
      /\ reqs'[Len(reqs) + 1] = q /\ Len(reqs) + 1 \in 1..Len(reqs')
      /\ \A i \in 1..Len(reqs') : i \in 1..Len(reqs) \/ i = Len(reqs) + 1
  <2>1. /\ Len(Append(reqs, q)) = Len(reqs) + 1 /\ Len(reqs) \in Nat /\ Append(reqs, q) \in Seq(Sv!Request)
        /\ Append(reqs, q) # <<>>
        /\ \A i \in 1..Len(reqs) : Append(reqs, q)[i] = reqs[i]
        /\ Append(reqs, q)[Len(reqs) + 1] = q
    BY <1>2, Added DEF TypeParts
  <2> QED BY <1>1, <2>1
<1>4. /\ control' \in ControlRecords /\ control'.pc \in {"idle", "hold"}
      /\ control'.pc = "hold" => control'.req = q /\ q.done # 0
      /\ control'.pc = "idle" => control'.req = Sv!NoRequest
  <2>1. CASE q.done = 0
    <3>1. control' = [pc |-> "idle", req |-> Sv!NoRequest, until |-> 0]
      BY <1>1, <2>1
    <3> QED BY <3>1 DEF ControlRecords
  <2>2. CASE q.done # 0
    <3> DEFINE u == now + SuspendBudget
    <3>1. u \in Nat
      BY <1>2
    <3> HIDE DEF u
    <3>2. control' = [control EXCEPT !.pc = "hold", !.until = u]
      BY <1>1, <2>2 DEF u
    <3> QED BY <1>2, <2>2, <3>1, <3>2 DEF ControlRecords, TypeParts
  <2> QED BY <2>1, <2>2
<1> HIDE DEF q
<1>5. SupervisorType'
  <2>1. \A i \in 1..Len(reqs') : Named(reqs[i])'
    BY <1>1, <1>2, <1>3 DEF TypeParts, Named
  <2>2. Named(control.req)'
    BY <1>1, <1>2, <1>4 DEF Named, Sv!NoRequest
  <2>3. TypeParts'
    BY <1>1, <1>2, <1>3, <1>4, <2>1, <2>2 DEF TypeParts, NamedEvent
  <2>4. ({cancelled, dropped, suspending} \subseteq BOOLEAN)'
    BY <1>1, <1>2, Zenon
  <2> QED BY <2>3, <2>4, TypeIsParts, PTL
<1>6. HandlerRegular'
  BY <1>1 DEF SupervisorInv, HandlerRegular
<1>7. OnePlaceEach'
  <2>1. OnePlaceEach /\ control.req = q
    BY DEF SupervisorInv, q
  <2>2. q.done # 0 => /\ Pending(q.done) /\ q.done # handler.ev.done
                      /\ \A i \in 1..Len(reqs) : reqs[i].done # q.done
                      /\ \A i \in 1..Len(events) : events[i].done # q.done
    BY <1>1, <2>1 DEF OnePlaceEach
  <2>3. \A i \in 1..Len(reqs') : \/ i \in 1..Len(reqs) /\ reqs'[i] = reqs[i]
                                 \/ i = Len(reqs) + 1 /\ reqs'[i] = q
    BY <1>3
  <2>4. \A i, j \in 1..Len(reqs') : reqs'[i].done = reqs'[j].done => i = j \/ reqs'[i].done = 0
    <3> SUFFICES ASSUME NEW i \in 1..Len(reqs'), NEW j \in 1..Len(reqs'), reqs'[i].done = reqs'[j].done
                 PROVE  i = j \/ reqs'[i].done = 0
      OBVIOUS
    <3>1. \/ i \in 1..Len(reqs) /\ reqs'[i] = reqs[i]
          \/ i = Len(reqs) + 1 /\ reqs'[i] = q
      BY <2>3
    <3>2. \/ j \in 1..Len(reqs) /\ reqs'[j] = reqs[j]
          \/ j = Len(reqs) + 1 /\ reqs'[j] = q
      BY <2>3
    <3> QED BY <2>1, <2>2, <3>1, <3>2 DEF OnePlaceEach
  <2>5. \A i \in 1..Len(reqs'), j \in 1..Len(events) : reqs'[i].done = events[j].done => reqs'[i].done = 0
    BY <2>1, <2>2, <2>3 DEF OnePlaceEach
  <2>6. \A i \in 1..Len(reqs') : reqs'[i].done # 0 => Pending(reqs'[i].done) /\ reqs'[i].done # handler.ev.done
    BY <2>1, <2>2, <2>3 DEF OnePlaceEach
  <2> QED BY <1>1, <1>4, <2>1, <2>4, <2>5, <2>6 DEF OnePlaceEach, Pending
<1>8. ResumeFollows'
  <2> SUFFICES ASSUME host = "awake", ~dropped, Open
               PROVE  /\ \A i \in 1..Len(reqs') : reqs'[i].cmd = "suspend" =>
                           \E j \in 1..Len(reqs') : j > i /\ reqs'[j].cmd = "resume"
                      /\ \A i \in 1..Len(events) : events[i].kind = "suspend" =>
                           ResumeAsked' \/ \E j \in 1..Len(events) : j > i /\ events[j].kind = "resume"
                      /\ handler.ev.kind = "suspend" => ResumeSent'
                      /\ suspending => ResumeSent' \/ handler.ev.kind = "resume"
    BY <1>1, <1>4 DEF ResumeFollows, Open
  <2>1. ResumeFollows /\ control.req = q
    BY DEF SupervisorInv, q
  <2>2. q.cmd # "suspend"
    BY <1>1, <2>1 DEF ResumeFollows
  <2>3. ResumeQueued => q.cmd = "resume"
    BY <2>1 DEF ResumeQueued
  <2>4. q.cmd = "resume" => \E j \in 1..Len(reqs') : j = Len(reqs) + 1 /\ reqs'[j].cmd = "resume"
    BY <1>3
  <2>5. (ResumeAsked => ResumeAsked') /\ (ResumeSent => ResumeSent')
    BY <1>1, <1>3, <2>3, <2>4 DEF ResumeAsked, ResumeSent
  <2>6. \A i \in 1..Len(reqs') : reqs'[i].cmd = "suspend" =>
          \E j \in 1..Len(reqs') : j > i /\ reqs'[j].cmd = "resume"
    <3> SUFFICES ASSUME NEW i \in 1..Len(reqs'), reqs'[i].cmd = "suspend"
                 PROVE  \E j \in 1..Len(reqs') : j > i /\ reqs'[j].cmd = "resume"
      OBVIOUS
    <3>1. i \in 1..Len(reqs) /\ reqs[i].cmd = "suspend"
      BY <1>3, <2>2
    <3>2. ResumeQueued \/ \E j \in 1..Len(reqs) : j > i /\ reqs[j].cmd = "resume"
      BY <2>1, <3>1 DEF ResumeFollows
    <3> QED BY <1>3, <2>3, <2>4, <3>1, <3>2
  <2> QED BY <2>1, <2>5, <2>6 DEF ResumeFollows
<1>9. HeldIsLast'
  BY <1>3, <1>4 DEF HeldIsLast
<1> QED BY <1>5, <1>6, <1>7, <1>8, <1>9 DEF SupervisorInv

(* The handler returns; what it queued stays where it is.                   *)
LEMMA ControlReturns ==
    ASSUME SupervisorInv, Sv!SupervisorConstants, Sv!ControlReturn
    PROVE  SupervisorInv'
<1>1. /\ control.pc = "hold" \/ sup.phase = "stopped"
      /\ control' = [pc |-> "idle", req |-> Sv!NoRequest, until |-> 0]
      /\ UNCHANGED <<now, reqs, sup, events, cancelled, handler, acks, dropped, suspending, live, host, sent>>
  BY DEF Sv!ControlReturn
<1>2. /\ TypeParts /\ {cancelled, dropped, suspending} \subseteq BOOLEAN /\ sent \in Nat
  BY TypeIsParts DEF SupervisorInv, TypeParts
<1>3. control' \in ControlRecords /\ control'.pc = "idle" /\ control'.req = Sv!NoRequest
  BY <1>1 DEF ControlRecords
<1>4. SupervisorType'
  <2>1. TypeParts'
    BY <1>1, <1>2, <1>3 DEF TypeParts, Named, NamedEvent, Sv!NoRequest
  <2>2. ({cancelled, dropped, suspending} \subseteq BOOLEAN)'
    BY <1>1, <1>2, Zenon
  <2> QED BY <2>1, <2>2, TypeIsParts, PTL
<1>5. HandlerRegular'
  BY <1>1 DEF SupervisorInv, HandlerRegular
<1>6. OnePlaceEach'
  BY <1>1, <1>3 DEF SupervisorInv, OnePlaceEach, Pending
<1>7. ResumeFollows'
  <2>1. Open => control.pc = "hold"
    BY <1>1 DEF Open, SupervisorInv, HandlerRegular
  <2>2. Open => ~ResumeQueued /\ ~ResumeQueued'
    BY <1>3, <2>1 DEF ResumeQueued
  <2> QED BY <1>1, <1>3, <2>2 DEF SupervisorInv, ResumeFollows, ResumeAsked, ResumeSent, Open
<1>8. HeldIsLast'
  BY <1>3 DEF HeldIsLast
<1> QED BY <1>4, <1>5, <1>6, <1>7, <1>8 DEF SupervisorInv

\* A step that neither moves a request or an event nor acknowledges one.
QuietStep ==
    \/ Sv!SuperviseDone \/ \E i, c, m \in BOOLEAN : Sv!Start(i, c, m)
    \/ Sv!Park \/ Sv!SeeCancelled \/ Sv!Leave \/ Sv!Release
    \/ Sv!RuntimeStart \/ Sv!RuntimeStop \/ Sv!ZombieRetry \/ Sv!Tick
    \/ UNCHANGED supervisorVars

\* What such a step may change.
QuietEffect ==
    /\ UNCHANGED <<control, reqs, events, acks, dropped, suspending, host, sent, cancelled>>
    /\ now' \in 0..Sv!MaxNow /\ now' >= now /\ live' \in {"none", "up", "zombie", "verifying"}
    /\ sup' \in SupRecords /\ (sup'.stopping <=> sup.stopping)
    /\ sup.phase = "stopped" => sup'.phase = "stopped"
    /\ sup'.phase = "stopped" => sup.phase = "stopped" \/ (handler.pc = "returned" /\ handler' = handler)
    /\ handler' \in HandlerRecords /\ handler'.ev = handler.ev
    /\ \/ handler' = handler
       \/ handler.pc = "start" /\ handler'.pc \in {"select", "returned", "crashed"}
       \/ handler.pc = "select" /\ handler'.pc = "parked" /\ events = <<>>
       \/ handler.pc = "select" /\ handler'.pc = "leave" /\ cancelled
       \/ handler.pc = "leave" /\ handler'.pc = "release"
       \/ handler.pc = "release" /\ handler'.pc = "returned"
    /\ suspending /\ handler.pc \in {"select", "parked"} /\ live # "up" => live' # "up"

(* Quiet steps change no more than that.                                    *)
LEMMA QuietSteps ==
    ASSUME SupervisorInv, Sv!SupervisorConstants, QuietStep
    PROVE  QuietEffect
<1>1. /\ TypeParts /\ now \in Nat /\ Sv!MaxNow \in Nat /\ StopTimeout \in Nat /\ ExitMargin \in Nat
  <2>1. Sv!MaxNow \in Nat /\ StopTimeout \in Nat /\ ExitMargin \in Nat
    BY DEF Sv!MaxNow, Sv!SupervisorConstants
  <2>2. TypeParts
    BY TypeIsParts DEF SupervisorInv
  <2> QED BY <2>1, <2>2 DEF TypeParts
<1>2. CASE Sv!SuperviseDone
  <2> DEFINE f == handler.err /\ ~sup.stopping
  <2>1. /\ handler.pc = "returned" /\ sup' = [sup EXCEPT !.phase = "stopped", !.failed = f]
        /\ UNCHANGED <<now, control, reqs, events, cancelled, handler, acks, dropped, suspending, live, host, sent>>
    BY <1>2 DEF Sv!SuperviseDone
  <2>2. f \in BOOLEAN
    BY Zenon
  <2> HIDE DEF f
  <2>3. sup' \in SupRecords /\ (sup'.stopping <=> sup.stopping) /\ sup'.phase = "stopped"
    BY <1>1, <2>1, <2>2 DEF SupRecords, TypeParts
  <2> QED BY <1>1, <2>1, <2>3 DEF QuietEffect, TypeParts
<1>3. ASSUME NEW i \in BOOLEAN, NEW c \in BOOLEAN, NEW m \in BOOLEAN, Sv!Start(i, c, m)
      PROVE  QuietEffect
  <2>1. /\ handler.pc = "start"
        /\ \/ handler' = [handler EXCEPT !.pc = "returned", !.err = TRUE]
           \/ handler' = [handler EXCEPT !.pc = "select"]
           \/ handler' = [handler EXCEPT !.pc = "crashed"]
        /\ UNCHANGED <<now, control, reqs, sup, events, cancelled, acks, dropped, suspending, live, host, sent>>
    BY <1>3 DEF Sv!Start, Sv!HandlerOnly
  <2>2. handler' \in HandlerRecords /\ handler'.ev = handler.ev /\ handler'.pc \in {"select", "returned", "crashed"}
    BY <1>1, <2>1 DEF HandlerRecords, SupervisorPhases, TypeParts
  <2> QED BY <1>1, <2>1, <2>2 DEF QuietEffect, TypeParts
<1>4. CASE Sv!Park
  <2>1. /\ handler.pc = "select" /\ events = <<>> /\ handler' = [handler EXCEPT !.pc = "parked"]
        /\ UNCHANGED <<now, control, reqs, sup, events, cancelled, acks, dropped, suspending, live, host, sent>>
    BY <1>4 DEF Sv!Park, Sv!HandlerOnly
  <2>2. handler' \in HandlerRecords /\ handler'.ev = handler.ev /\ handler'.pc = "parked"
    BY <1>1, <2>1 DEF HandlerRecords, SupervisorPhases, TypeParts
  <2> QED BY <1>1, <2>1, <2>2 DEF QuietEffect, TypeParts
<1>5. CASE Sv!SeeCancelled
  <2> DEFINE t == now + StopTimeout
  <2>1. /\ handler.pc = "select" /\ cancelled /\ handler' = [handler EXCEPT !.pc = "leave", !.deadline = t]
        /\ UNCHANGED <<now, control, reqs, sup, events, cancelled, acks, dropped, suspending, live, host, sent>>
    BY <1>5 DEF Sv!SeeCancelled, Sv!HandlerOnly
  <2>2. t \in Nat
    BY <1>1
  <2> HIDE DEF t
  <2>3. handler' \in HandlerRecords /\ handler'.ev = handler.ev /\ handler'.pc = "leave"
    BY <1>1, <2>1, <2>2 DEF HandlerRecords, SupervisorPhases, TypeParts
  <2> QED BY <1>1, <2>1, <2>3 DEF QuietEffect, TypeParts
<1>6. CASE Sv!Leave
  <2> DEFINE left == handler.deadline - now - ExitMargin
             t == now + (IF left < 1 THEN 1 ELSE left)
  <2>1. /\ handler.pc = "leave" /\ handler' = [handler EXCEPT !.pc = "release", !.until = t]
        /\ UNCHANGED <<now, control, reqs, sup, events, cancelled, acks, dropped, suspending, live, host, sent>>
    BY <1>6 DEF Sv!Leave, Sv!HandlerOnly
  <2>2. t \in Nat
    <3>1. handler.deadline \in Nat
      BY <1>1 DEF TypeParts, HandlerRecords
    <3> QED BY <1>1, <3>1
  <2> HIDE DEF t, left
  <2>3. handler' \in HandlerRecords /\ handler'.ev = handler.ev /\ handler'.pc = "release"
    BY <1>1, <2>1, <2>2 DEF HandlerRecords, SupervisorPhases, TypeParts
  <2> QED BY <1>1, <2>1, <2>3 DEF QuietEffect, TypeParts
<1>7. CASE Sv!Release
  <2>1. /\ handler.pc = "release" /\ handler' = [handler EXCEPT !.pc = "returned"] /\ live' = "none"
        /\ UNCHANGED <<now, control, reqs, sup, events, cancelled, acks, dropped, suspending, host, sent>>
    BY <1>7 DEF Sv!Release, Sv!HandlerOnly
  <2>2. handler' \in HandlerRecords /\ handler'.ev = handler.ev /\ handler'.pc = "returned"
    BY <1>1, <2>1 DEF HandlerRecords, SupervisorPhases, TypeParts
  <2> QED BY <1>1, <2>1, <2>2 DEF QuietEffect, TypeParts
<1>8. CASE Sv!RuntimeStart
  <2>1. /\ ~suspending /\ live' = "up"
        /\ UNCHANGED <<now, control, reqs, sup, events, cancelled, handler, acks, dropped, suspending, host, sent>>
    BY <1>8 DEF Sv!RuntimeStart, Sv!Runtime
  <2> QED BY <1>1, <2>1 DEF QuietEffect, TypeParts
<1>9. CASE Sv!RuntimeStop \/ Sv!ZombieRetry
  <2>1. /\ live' \in {"none", "zombie", "verifying"}
        /\ UNCHANGED <<now, control, reqs, sup, events, cancelled, handler, acks, dropped, suspending, host, sent>>
    BY <1>9 DEF Sv!RuntimeStop, Sv!ZombieRetry, Sv!Runtime
  <2> QED BY <1>1, <2>1 DEF QuietEffect, TypeParts
<1>10. CASE Sv!Tick
  <2>1. /\ now < Sv!MaxNow /\ now' = now + 1
        /\ UNCHANGED <<control, reqs, sup, events, cancelled, handler, acks, dropped, suspending, live, host, sent>>
    BY <1>10 DEF Sv!Tick
  <2>2. now' \in 0..Sv!MaxNow /\ now' >= now
    BY <1>1, <2>1
  <2> QED BY <1>1, <2>1, <2>2 DEF QuietEffect, TypeParts
<1>11. CASE UNCHANGED supervisorVars
  <2>1. UNCHANGED <<now, control, reqs, sup, events, cancelled, handler, acks, dropped, suspending, live, host, sent>>
    BY <1>11 DEF supervisorVars
  <2> QED BY <1>1, <2>1 DEF QuietEffect, TypeParts
<1> QED BY <1>2, <1>3, <1>4, <1>5, <1>6, <1>7, <1>8, <1>9, <1>10, <1>11 DEF QuietStep

(* A quiet step keeps everything.                                           *)
LEMMA QuietKeeps ==
    ASSUME SupervisorInv, Sv!SupervisorConstants, QuietStep
    PROVE  SupervisorInv'
<1>1. /\ UNCHANGED <<control, reqs, events, acks, dropped, suspending, host, sent, cancelled>>
      /\ now' \in 0..Sv!MaxNow /\ now' >= now /\ live' \in {"none", "up", "zombie", "verifying"}
      /\ sup' \in SupRecords /\ (sup'.stopping <=> sup.stopping)
      /\ sup.phase = "stopped" => sup'.phase = "stopped"
      /\ sup'.phase = "stopped" => sup.phase = "stopped" \/ (handler.pc = "returned" /\ handler' = handler)
      /\ handler' \in HandlerRecords /\ handler'.ev = handler.ev
      /\ \/ handler' = handler
         \/ handler.pc = "start" /\ handler'.pc \in {"select", "returned", "crashed"}
         \/ handler.pc = "select" /\ handler'.pc = "parked" /\ events = <<>>
         \/ handler.pc = "select" /\ handler'.pc = "leave" /\ cancelled
         \/ handler.pc = "leave" /\ handler'.pc = "release"
         \/ handler.pc = "release" /\ handler'.pc = "returned"
      /\ suspending /\ handler.pc \in {"select", "parked"} /\ live # "up" => live' # "up"
  BY QuietSteps DEF QuietEffect
<1>2. /\ TypeParts /\ {cancelled, dropped, suspending} \subseteq BOOLEAN
      /\ HandlerRegular /\ OnePlaceEach /\ ResumeFollows /\ HeldIsLast
  BY TypeIsParts DEF SupervisorInv
<1>3. SupervisorType'
  <2>1. TypeParts'
    BY <1>1, <1>2 DEF TypeParts, Named, NamedEvent
  <2>2. ({cancelled, dropped, suspending} \subseteq BOOLEAN)'
    BY <1>1, <1>2, Zenon
  <2> QED BY <2>1, <2>2, TypeIsParts, PTL
<1>4. HandlerRegular'
  BY <1>1, <1>2 DEF HandlerRegular
<1>5. OnePlaceEach'
  BY <1>1, <1>2 DEF OnePlaceEach, Pending
<1>6. ResumeFollows'
  <2>1. Open' => Open
    BY <1>1 DEF Open
  <2>2. (ResumeQueued' <=> ResumeQueued) /\ (ResumeAsked' <=> ResumeAsked) /\ (ResumeSent' <=> ResumeSent)
    BY <1>1 DEF ResumeQueued, ResumeAsked, ResumeSent
  <2> QED BY <1>1, <1>2, <2>1, <2>2 DEF ResumeFollows
<1>7. HeldIsLast'
  <2> SUFFICES ASSUME control.pc = "hold", ~Excused' PROVE HeldIsLast'
    BY <1>1 DEF HeldIsLast
  <2>1. ~Excused /\ ~sup.stopping
    <3>1. control.req.at \in Nat /\ SuspendBudget \in Nat /\ now \in Nat
      BY <1>2 DEF TypeParts, Sv!Request, Sv!SupervisorConstants
    <3>2. now >= control.req.at + SuspendBudget => now' >= control'.req.at + SuspendBudget
      BY <1>1, <3>1
    <3> QED BY <1>1, <3>2 DEF Excused
  <2>2. \/ reqs # <<>> /\ reqs[Len(reqs)] = control.req
        \/ reqs = <<>> /\ events # <<>> /\ events[Len(events)] = Sv!translate(control.req)
        \/ reqs = <<>> /\ events = <<>> /\ handler.pc = "got" /\ handler.ev = Sv!translate(control.req)
        \/ reqs = <<>> /\ events = <<>> /\ handler.pc = "suspend" /\ suspending /\ handler.ev = Sv!translate(control.req)
        \/ reqs = <<>> /\ events = <<>> /\ handler.pc \in {"select", "parked"} /\ suspending /\ live # "up"
    BY <1>2, <2>1 DEF HeldIsLast
  <2>3. handler.pc \in {"select", "parked"} => handler'.pc \in {"select", "parked"}
    BY <1>1, <1>2, <2>1 DEF HandlerRegular
  <2>4. Sv!translate(control.req)' = Sv!translate(control.req)
    BY <1>1 DEF Sv!translate
  <2> QED BY <1>1, <2>2, <2>3, <2>4 DEF HeldIsLast
<1> QED BY <1>3, <1>4, <1>5, <1>6, <1>7 DEF SupervisorInv

(* The service body takes the first event that is queued.                   *)
LEMMA ReceiveKeeps ==
    ASSUME SupervisorInv, Sv!SupervisorConstants, Sv!Receive
    PROVE  SupervisorInv'
<1> DEFINE e == events[1]
<1>1. /\ handler.pc = "select" /\ events # <<>> /\ events' = Tail(events)
      /\ handler' = [handler EXCEPT !.pc = "got", !.ev = Head(events)]
      /\ UNCHANGED <<now, control, reqs, sup, cancelled, acks, dropped, suspending, live, host, sent>>
  BY DEF Sv!Receive, Sv!HandlerOnly
<1>2. /\ TypeParts /\ {cancelled, dropped, suspending} \subseteq BOOLEAN
      /\ HandlerRegular /\ OnePlaceEach /\ ResumeFollows /\ HeldIsLast /\ handler.ev = Sv!NoEvent
  BY <1>1, TypeIsParts DEF SupervisorInv, HandlerRegular
<1>3. /\ Len(events) \in Nat \ {0} /\ Len(events') = Len(events) - 1 /\ events' \in Seq(Sv!Event)
      /\ Head(events) = e /\ e \in Sv!Event /\ 1 \in 1..Len(events)
      /\ \A i \in 1..Len(events') : i + 1 \in 1..Len(events) /\ events'[i] = events[i + 1] /\ i \in Nat /\ i >= 1
  <2>1. /\ Len(events) \in Nat \ {0} /\ Len(Tail(events)) = Len(events) - 1 /\ Tail(events) \in Seq(Sv!Event)
        /\ Head(events) = events[1] /\ events[1] \in Sv!Event
        /\ \A i \in 1..Len(Tail(events)) : i + 1 \in 1..Len(events) /\ Tail(events)[i] = events[i + 1]
    BY <1>1, <1>2, Taken DEF TypeParts
  <2> QED BY <1>1, <2>1
<1>4. handler' \in HandlerRecords /\ handler'.ev = e /\ handler'.pc = "got"
  <2>1. e \in Sv!Event \cup {Sv!NoEvent} /\ handler' = [handler EXCEPT !.pc = "got", !.ev = e]
    BY <1>1, <1>3
  <2> HIDE DEF e
  <2> QED BY <1>2, <2>1 DEF HandlerRecords, SupervisorPhases, TypeParts
<1>5. \A k \in 1..Len(events) : k > 1 => k - 1 \in 1..Len(events') /\ events'[k - 1] = events[k]
  <2> SUFFICES ASSUME NEW k \in 1..Len(events), k > 1 PROVE k - 1 \in 1..Len(events') /\ events'[k - 1] = events[k]
    OBVIOUS
  <2>1. k - 1 \in 1..Len(events') /\ (k - 1) + 1 = k
    BY <1>3
  <2> QED BY <1>3, <2>1
<1>6. SupervisorType'
  <2>1. /\ \A i \in 1..Len(events') : NamedEvent(events[i])'
        /\ NamedEvent(handler.ev)'
    BY <1>1, <1>2, <1>3, <1>4 DEF TypeParts, NamedEvent
  <2>2. Len(events') <= EventBuffer
    BY <1>2, <1>3 DEF TypeParts, Sv!SupervisorConstants
  <2>3. TypeParts'
    BY <1>1, <1>2, <1>3, <1>4, <2>1, <2>2 DEF TypeParts, Named
  <2>4. ({cancelled, dropped, suspending} \subseteq BOOLEAN)'
    BY <1>1, <1>2, Zenon
  <2> QED BY <2>3, <2>4, TypeIsParts, PTL
<1>7. HandlerRegular'
  <2>1. Sv!AsksToStop(e) => sup.stopping
    BY <1>2, <1>3 DEF HandlerRegular
  <2>2. \A i \in 1..Len(events') : Sv!AsksToStop(events'[i]) => sup.stopping
    BY <1>2, <1>3 DEF HandlerRegular
  <2> HIDE DEF e
  <2> QED BY <1>1, <1>2, <1>3, <1>4, <2>1, <2>2 DEF HandlerRegular
<1>8. OnePlaceEach'
  <2>1. \A i \in 1..Len(events') : events'[i].done # 0 => events'[i].done # e.done
    BY <1>2, <1>3 DEF OnePlaceEach
  <2>2. \A i, j \in 1..Len(events') : events'[i].done = events'[j].done => i = j \/ events'[i].done = 0
    <3> SUFFICES ASSUME NEW i \in 1..Len(events'), NEW j \in 1..Len(events'), events'[i].done = events'[j].done
                 PROVE  i = j \/ events'[i].done = 0
      OBVIOUS
    <3>1. i + 1 \in 1..Len(events) /\ j + 1 \in 1..Len(events) /\ events[i + 1].done = events[j + 1].done
      BY <1>3
    <3>2. i + 1 = j + 1 \/ events[i + 1].done = 0
      BY <1>2, <3>1 DEF OnePlaceEach
    <3>3. i \in Nat /\ j \in Nat /\ events'[i] = events[i + 1]
      BY <1>3
    <3>4. i + 1 = j + 1 => i = j
      BY <3>3
    <3> QED BY <3>2, <3>3, <3>4
  <2>3. \A i \in 1..Len(reqs), j \in 1..Len(events') : reqs[i].done = events'[j].done => reqs[i].done = 0
    BY <1>2, <1>3 DEF OnePlaceEach
  <2>4. \A i \in 1..Len(reqs) : reqs[i].done # 0 => Pending(reqs[i].done) /\ reqs[i].done # e.done
    BY <1>2, <1>3 DEF OnePlaceEach
  <2>5. \A i \in 1..Len(events') : events'[i].done # 0 => Pending(events'[i].done)
    BY <1>2, <1>3 DEF OnePlaceEach
  <2>6. e.done # 0 => Pending(e.done)
    BY <1>2, <1>3 DEF OnePlaceEach
  <2>7. control.pc = "queue" /\ control.req.done # 0 =>
          control.req.done # e.done /\ \A i \in 1..Len(events') : events'[i].done # control.req.done
    BY <1>2, <1>3 DEF OnePlaceEach
  <2> HIDE DEF e
  <2> QED BY <1>1, <1>2, <1>4, <2>1, <2>2, <2>3, <2>4, <2>5, <2>6, <2>7 DEF OnePlaceEach, Pending
<1>9. ResumeFollows'
  <2> SUFFICES ASSUME host = "awake", ~dropped
               PROVE  /\ control.pc = "queue" => control.req.cmd # "suspend"
                      /\ \A i \in 1..Len(reqs) : reqs[i].cmd = "suspend" =>
                           ResumeQueued \/ \E j \in 1..Len(reqs) : j > i /\ reqs[j].cmd = "resume"
                      /\ \A i \in 1..Len(events') : events'[i].kind = "suspend" =>
                           ResumeAsked \/ \E j \in 1..Len(events') : j > i /\ events'[j].kind = "resume"
                      /\ e.kind = "suspend" => ResumeSent'
                      /\ suspending => ResumeSent' \/ e.kind = "resume"
    BY <1>1, <1>4 DEF ResumeFollows, ResumeAsked, ResumeQueued
  <2>1. Open /\ (ResumeAsked' <=> ResumeAsked)
    BY <1>1 DEF Open, ResumeAsked, ResumeQueued
  <2>2. \A i \in 1..Len(events') : events'[i].kind = "suspend" =>
          ResumeAsked \/ \E j \in 1..Len(events') : j > i /\ events'[j].kind = "resume"
    <3> SUFFICES ASSUME NEW i \in 1..Len(events'), events'[i].kind = "suspend", ~ResumeAsked
                 PROVE  \E j \in 1..Len(events') : j > i /\ events'[j].kind = "resume"
      OBVIOUS
    <3>1. i + 1 \in 1..Len(events) /\ events[i + 1].kind = "suspend" /\ i \in Nat /\ i >= 1
      BY <1>3
    <3>2. PICK j \in 1..Len(events) : j > i + 1 /\ events[j].kind = "resume"
      BY <1>2, <2>1, <3>1 DEF ResumeFollows
    <3>3. j > 1 /\ j - 1 > i
      BY <3>1, <3>2
    <3> QED BY <1>5, <3>2, <3>3
  <2>3. e.kind = "suspend" => ResumeSent'
    <3> SUFFICES ASSUME e.kind = "suspend", ~ResumeAsked PROVE ResumeSent'
      BY <2>1 DEF ResumeSent
    <3>1. PICK j \in 1..Len(events) : j > 1 /\ events[j].kind = "resume"
      BY <1>2, <1>3, <2>1 DEF ResumeFollows
    <3> QED BY <1>5, <3>1 DEF ResumeSent
  <2>4. suspending => ResumeSent' \/ e.kind = "resume"
    <3> SUFFICES ASSUME suspending, ~ResumeAsked, e.kind # "resume" PROVE ResumeSent'
      BY <2>1 DEF ResumeSent
    <3>1. PICK j \in 1..Len(events) : events[j].kind = "resume"
      BY <1>2, <2>1 DEF ResumeFollows, ResumeSent, Sv!NoEvent
    <3>2. j > 1
      BY <3>1
    <3> QED BY <1>5, <3>1, <3>2 DEF ResumeSent
  <2> QED BY <1>2, <2>1, <2>2, <2>3, <2>4 DEF ResumeFollows
<1>10. HeldIsLast'
  <2> SUFFICES ASSUME control.pc = "hold", ~Excused' PROVE HeldIsLast'
    BY <1>1 DEF HeldIsLast
  <2>1. ~Excused
    BY <1>1 DEF Excused
  <2>2. Sv!translate(control.req)' = Sv!translate(control.req)
    BY <1>1 DEF Sv!translate
  <2>3. CASE reqs # <<>> /\ reqs[Len(reqs)] = control.req
    BY <1>1, <2>3 DEF HeldIsLast
  <2>4. CASE reqs = <<>> /\ events[Len(events)] = Sv!translate(control.req)
    <3>1. CASE Len(events) = 1
      <4>1. events' = <<>> /\ e = Sv!translate(control.req)
        BY <1>3, <2>4, <3>1, EmptySeq
      <4> QED BY <1>1, <1>4, <2>2, <2>4, <4>1 DEF HeldIsLast
    <3>2. CASE Len(events) # 1
      <4>1. Len(events') \in 1..Len(events') /\ Len(events') + 1 = Len(events) /\ events' # <<>>
        BY <1>3, <3>2
      <4>2. events'[Len(events')] = Sv!translate(control.req)
        BY <1>3, <2>4, <4>1
      <4> QED BY <1>1, <2>2, <2>4, <4>1, <4>2 DEF HeldIsLast
    <3> QED BY <3>1, <3>2
  <2> QED BY <1>1, <1>2, <2>1, <2>3, <2>4 DEF HeldIsLast
<1> QED BY <1>6, <1>7, <1>8, <1>9, <1>10 DEF SupervisorInv

(* The service body deals with an event.                                    *)
LEMMA HandleKeeps ==
    ASSUME SupervisorInv, Sv!SupervisorConstants, Sv!Handle
    PROVE  SupervisorInv'
<1> DEFINE e == handler.ev
<1>1. /\ handler.pc = "got"
      /\ handler' = CASE Sv!AsksToStop(e) -> [handler EXCEPT !.pc = "leave", !.ev = Sv!NoEvent, !.deadline = e.deadline]
                      [] e.kind = "suspend" -> [handler EXCEPT !.pc = "suspend"]
                      [] OTHER -> [handler EXCEPT !.pc = "select", !.ev = Sv!NoEvent]
      /\ suspending' = CASE e.kind = "suspend" -> TRUE [] e.kind = "resume" -> FALSE [] OTHER -> suspending
      /\ UNCHANGED <<now, control, reqs, sup, events, cancelled, acks, dropped, live, host, sent>>
  BY DEF Sv!Handle, Sv!HandlerOnly
<1>2. /\ TypeParts /\ cancelled \in BOOLEAN /\ dropped \in BOOLEAN /\ suspending \in BOOLEAN
      /\ HandlerRegular /\ OnePlaceEach /\ ResumeFollows /\ HeldIsLast /\ e \in Sv!Event
      /\ e.deadline \in Nat
  <2>1. e \in Sv!Event
    BY <1>1 DEF SupervisorInv, HandlerRegular
  <2>2. {cancelled, dropped, suspending} \subseteq BOOLEAN
    BY TypeIsParts DEF SupervisorInv
  <2> QED BY <2>1, <2>2, TypeIsParts DEF SupervisorInv, Sv!Event
<1> HIDE DEF e
<1>3. /\ handler' \in HandlerRecords
      /\ \/ Sv!AsksToStop(e) /\ handler'.pc = "leave" /\ handler'.ev = Sv!NoEvent /\ e.kind \notin {"suspend", "resume"}
         \/ e.kind = "suspend" /\ handler'.pc = "suspend" /\ handler'.ev = e
         \/ e.kind \notin {"suspend", "stop", "shutdown"} /\ handler'.pc = "select" /\ handler'.ev = Sv!NoEvent
  <2>1. handler \in HandlerRecords /\ handler.ev = e /\ Sv!NoEvent \in Sv!Event \cup {Sv!NoEvent}
    BY <1>2 DEF TypeParts, e
  <2>2. CASE Sv!AsksToStop(e)
    <3>1. handler' = [handler EXCEPT !.pc = "leave", !.ev = Sv!NoEvent, !.deadline = e.deadline]
      BY <1>1, <2>2 DEF Sv!AsksToStop
    <3> QED BY <1>2, <2>1, <2>2, <3>1 DEF HandlerRecords, SupervisorPhases, Sv!AsksToStop
  <2>3. CASE e.kind = "suspend"
    <3>1. handler' = [handler EXCEPT !.pc = "suspend"]
      BY <1>1, <2>3 DEF Sv!AsksToStop
    <3> QED BY <2>1, <2>3, <3>1 DEF HandlerRecords, SupervisorPhases
  <2>4. CASE ~Sv!AsksToStop(e) /\ e.kind # "suspend"
    <3>1. handler' = [handler EXCEPT !.pc = "select", !.ev = Sv!NoEvent]
      BY <1>1, <2>4
    <3> QED BY <2>1, <2>4, <3>1 DEF HandlerRecords, SupervisorPhases, Sv!AsksToStop
  <2> QED BY <2>2, <2>3, <2>4
<1>4. /\ e.kind = "suspend" => suspending'
      /\ e.kind = "resume" => ~suspending'
      /\ e.kind \notin {"suspend", "resume"} => suspending' = suspending
      /\ suspending' \in BOOLEAN
  BY <1>1, <1>2
<1>5. e = handler.ev /\ handler'.ev \in {e, Sv!NoEvent} /\ Sv!NoEvent.done = 0 /\ Sv!NoEvent.kind = "none"
  BY <1>3 DEF e, Sv!NoEvent
<1>6. SupervisorType'
  <2>1. NamedEvent(handler.ev)'
    BY <1>1, <1>2, <1>5 DEF TypeParts, NamedEvent
  <2>2. TypeParts'
    BY <1>1, <1>2, <1>3, <2>1 DEF TypeParts, Named, NamedEvent
  <2>3. ({cancelled, dropped, suspending} \subseteq BOOLEAN)'
    BY <1>1, <1>2, <1>4, Zenon
  <2> QED BY <2>2, <2>3, TypeIsParts, PTL
<1>7. HandlerRegular'
  BY <1>1, <1>2, <1>3, <1>5 DEF HandlerRegular, Sv!AsksToStop
<1>8. OnePlaceEach'
  BY <1>1, <1>2, <1>5 DEF OnePlaceEach, Pending
<1>9. ResumeFollows'
  <2>1. (ResumeQueued' <=> ResumeQueued) /\ (ResumeAsked' <=> ResumeAsked) /\ (ResumeSent' <=> ResumeSent)
    BY <1>1 DEF ResumeQueued, ResumeAsked, ResumeSent
  <2>2. Open
    BY <1>1 DEF Open
  <2>3. handler'.ev.kind = "suspend" => e.kind = "suspend"
    BY <1>5
  <2>4. suspending' /\ host = "awake" /\ ~dropped => ResumeSent
    BY <1>2, <1>4, <1>5, <2>2 DEF ResumeFollows
  <2> QED BY <1>1, <1>2, <1>5, <2>1, <2>2, <2>3, <2>4 DEF ResumeFollows
<1>10. HeldIsLast'
  <2> SUFFICES ASSUME control.pc = "hold", ~Excused' PROVE HeldIsLast'
    BY <1>1 DEF HeldIsLast
  <2>1. ~Excused
    BY <1>1 DEF Excused
  <2>2. Sv!translate(control.req)' = Sv!translate(control.req)
    BY <1>1 DEF Sv!translate
  <2>3. CASE reqs = <<>> /\ events = <<>> /\ e = Sv!translate(control.req)
    <3>1. control.req.cmd = "suspend"
      BY <1>2 DEF TypeParts, Named
    <3>2. e.kind = "suspend"
      BY <2>3, <3>1 DEF Sv!translate
    <3> QED BY <1>1, <1>3, <1>4, <2>2, <2>3, <3>2 DEF HeldIsLast, Sv!AsksToStop
  <2> QED BY <1>1, <1>2, <1>5, <2>1, <2>2, <2>3 DEF HeldIsLast
<1> QED BY <1>6, <1>7, <1>8, <1>9, <1>10 DEF SupervisorInv

(* The service body acknowledges the suspend it dealt with.                 *)
LEMMA SuspendKeeps ==
    ASSUME SupervisorInv, Sv!SupervisorConstants, Sv!SuspendHandled
    PROVE  SupervisorInv'
<1> DEFINE d == handler.ev.done
<1>1. /\ handler.pc = "suspend" /\ (live # "up" \/ now >= handler.ev.deadline)
      /\ acks' = (IF d = 0 THEN acks ELSE [acks EXCEPT ![d] = @ + 1])
      /\ handler' = [handler EXCEPT !.pc = "select", !.ev = Sv!NoEvent]
      /\ UNCHANGED <<now, control, reqs, sup, events, cancelled, dropped, suspending, live, host, sent>>
  BY DEF Sv!SuspendHandled, Sv!HandlerOnly, Sv!Ack, Sv!Busy
<1>2. /\ TypeParts /\ {cancelled, dropped, suspending} \subseteq BOOLEAN
      /\ HandlerRegular /\ OnePlaceEach /\ ResumeFollows /\ HeldIsLast
      /\ MaxRequests \in Nat /\ sent \in 0..MaxRequests
  BY TypeIsParts DEF SupervisorInv, TypeParts, Sv!SupervisorConstants
<1>3. handler' \in HandlerRecords /\ handler'.pc = "select" /\ handler'.ev = Sv!NoEvent
  BY <1>1, <1>2 DEF HandlerRecords, SupervisorPhases, TypeParts
<1>4. d \in 0..sent /\ handler.ev.done = d /\ (d # 0 => acks[d] = 0)
  BY <1>2 DEF TypeParts, NamedEvent, OnePlaceEach, Pending
<1> HIDE DEF d
<1>5. /\ acks' \in [1..MaxRequests -> Nat]
      /\ \A c \in 1..MaxRequests : c # d => acks'[c] = acks[c]
      /\ d # 0 => d \in 1..MaxRequests /\ acks'[d] = acks[d] + 1
  BY <1>1, <1>2, <1>4, Acknowledged DEF TypeParts
<1>6. SupervisorType'
  <2>1. NamedEvent(handler.ev)'
    BY <1>1, <1>2, <1>3 DEF TypeParts, NamedEvent, Sv!NoEvent
  <2>2. TypeParts'
    BY <1>1, <1>2, <1>3, <1>5, <2>1 DEF TypeParts, Named, NamedEvent
  <2>3. ({cancelled, dropped, suspending} \subseteq BOOLEAN)'
    BY <1>1, <1>2, Zenon
  <2> QED BY <2>2, <2>3, TypeIsParts, PTL
<1>7. HandlerRegular'
  BY <1>1, <1>2, <1>3 DEF HandlerRegular, Sv!AsksToStop, Sv!NoEvent
<1>8. OnePlaceEach'
  <2>1. \A c \in 1..MaxRequests : acks'[c] <= 1 /\ (acks'[c] > 0 => c <= sent)
    <3> SUFFICES ASSUME NEW c \in 1..MaxRequests PROVE acks'[c] <= 1 /\ (acks'[c] > 0 => c <= sent)
      OBVIOUS
    <3> QED BY <1>2, <1>4, <1>5 DEF OnePlaceEach
  <2>2. /\ \A i \in 1..Len(reqs) : reqs[i].done # 0 => reqs[i].done \in 1..MaxRequests
        /\ \A i \in 1..Len(events) : events[i].done # 0 => events[i].done \in 1..MaxRequests
        /\ control.req.done # 0 => control.req.done \in 1..MaxRequests
    BY <1>2 DEF TypeParts, Named, NamedEvent
  <2>3. \A i \in 1..Len(reqs) : reqs[i].done # 0 => acks'[reqs[i].done] = 0
    BY <1>2, <1>4, <1>5, <2>2 DEF OnePlaceEach, Pending
  <2>4. \A i \in 1..Len(events) : events[i].done # 0 => acks'[events[i].done] = 0
    BY <1>2, <1>4, <1>5, <2>2 DEF OnePlaceEach, Pending
  <2>5. control.pc = "queue" /\ control.req.done # 0 => acks'[control.req.done] = 0
    BY <1>2, <1>4, <1>5, <2>2 DEF OnePlaceEach, Pending
  <2>6. handler'.ev.done = 0
    BY <1>3 DEF Sv!NoEvent
  <2> QED BY <1>1, <1>2, <2>1, <2>3, <2>4, <2>5, <2>6 DEF OnePlaceEach, Pending
<1>9. ResumeFollows'
  <2>1. (ResumeQueued' <=> ResumeQueued) /\ (ResumeAsked' <=> ResumeAsked) /\ (ResumeSent' <=> ResumeSent)
    BY <1>1 DEF ResumeQueued, ResumeAsked, ResumeSent
  <2>2. Open /\ handler.ev.kind = "suspend" /\ handler'.ev.kind = "none"
    BY <1>1, <1>2, <1>3 DEF Open, HandlerRegular, Sv!NoEvent
  <2> QED BY <1>1, <1>2, <2>1, <2>2 DEF ResumeFollows
<1>10. HeldIsLast'
  <2> SUFFICES ASSUME control.pc = "hold", ~Excused' PROVE HeldIsLast'
    BY <1>1 DEF HeldIsLast
  <2>1. ~Excused
    BY <1>1 DEF Excused
  <2>2. Sv!translate(control.req)' = Sv!translate(control.req)
    BY <1>1 DEF Sv!translate
  <2>3. CASE reqs = <<>> /\ events = <<>> /\ suspending /\ handler.ev = Sv!translate(control.req)
    <3>1. control.req \in Sv!Request /\ Named(control.req) /\ control.req.cmd = "suspend"
      BY <1>2 DEF TypeParts, Named
    <3>2. handler.ev.deadline = control.req.at + SuspendBudget
      BY <2>3, <3>1, Translated
    <3>3. live # "up"
      BY <1>1, <2>1, <3>2 DEF Excused
    <3> QED BY <1>1, <1>3, <2>3, <3>3 DEF HeldIsLast
  <2> QED BY <1>1, <1>2, <2>1, <2>2, <2>3 DEF HeldIsLast
<1> QED BY <1>6, <1>7, <1>8, <1>9, <1>10 DEF SupervisorInv

(* Every step of the host keeps the invariant.                              *)
LEMMA SupervisorKeeps ==
    ASSUME SupervisorInv, Sv!SupervisorConstants, Sv!Next \/ UNCHANGED supervisorVars
    PROVE  SupervisorInv'
<1>1. \/ \E c \in Requests : Sv!Broadcast(c)
      \/ Sv!ControlQueue \/ Sv!ControlReturn \/ Sv!Supervise
      \/ Sv!Receive \/ Sv!Handle \/ Sv!SuspendHandled
      \/ QuietStep
  BY DEF Sv!Next, Sv!HandlerStep, QuietStep
<1>2. CASE Sv!Supervise
  BY <1>2, SuperviseType, SuperviseRegular, SupervisePlaces, SuperviseResumes, SuperviseHolds DEF SupervisorInv
<1> QED
  BY <1>1, <1>2, BroadcastCounts, ControlQueues, ControlReturns, ReceiveKeeps, HandleKeeps, SuspendKeeps, QuietKeeps

(* A Done channel closed within the budget was closed by the service body,  *)
(* which is past that suspend: nothing runs.                                *)
LEMMA ReleasedWhenFree ==
    ASSUME SupervisorInv, Sv!SupervisorConstants, Sv!Next \/ UNCHANGED supervisorVars
    PROVE  Sv!SleepsReleased
<1> SUFFICES ASSUME control.pc = "hold", control'.pc = "idle", now < control.until, ~Excused
             PROVE  live # "up"
  BY DEF Sv!SleepsReleased, Excused
<1>1. TypeParts /\ OnePlaceEach /\ HeldIsLast
  BY TypeIsParts DEF SupervisorInv
<1>2. Sv!ControlReturn
  <2>1. control' # control
    OBVIOUS
  <2>2. ~QuietStep
    BY <2>1, QuietSteps DEF QuietEffect
  <2> QED BY <2>1, <2>2 DEF Sv!Next, QuietStep, Sv!HandlerStep, Sv!Broadcast, Sv!ControlQueue, Sv!Supervise, Sv!Receive,
                            Sv!Handle, Sv!SuspendHandled, Sv!HandlerOnly
<1>3. acks[control.req.done] > 0
  <2>1. now \in Nat /\ control.until \in Nat
    BY <1>1 DEF TypeParts, ControlRecords
  <2> QED BY <1>2, <2>1 DEF Sv!ControlReturn, Excused
<1>4. /\ control.req \in Sv!Request /\ Named(control.req) /\ control.req.cmd = "suspend" /\ control.req.done # 0
      /\ control.req.done \in 1..MaxRequests /\ acks[control.req.done] \in Nat
  <2>1. /\ control.req \in Sv!Request /\ Named(control.req) /\ control.req.done # 0
        /\ sent \in 0..MaxRequests /\ MaxRequests \in Nat /\ acks \in [1..MaxRequests -> Nat]
    BY <1>1 DEF TypeParts, Sv!SupervisorConstants
  <2>2. control.req.cmd = "suspend" /\ control.req.done \in 0..sent
    BY <2>1 DEF Named
  <2>3. control.req.done \in 1..MaxRequests
    BY <2>1, <2>2
  <2> QED BY <2>1, <2>2, <2>3
<1>5. Sv!translate(control.req).done = control.req.done
  BY <1>4, Translated
<1>6. ~ (reqs # <<>> /\ reqs[Len(reqs)] = control.req)
  <2>1. reqs # <<>> => Len(reqs) \in 1..Len(reqs)
    BY <1>1, Taken DEF TypeParts
  <2> QED BY <1>1, <1>3, <1>4, <2>1 DEF OnePlaceEach, Pending
<1>7. ~ (events # <<>> /\ events[Len(events)] = Sv!translate(control.req))
  <2>1. events # <<>> => Len(events) \in 1..Len(events)
    BY <1>1, Taken DEF TypeParts
  <2> QED BY <1>1, <1>3, <1>4, <1>5, <2>1 DEF OnePlaceEach, Pending
<1>8. handler.ev # Sv!translate(control.req)
  BY <1>1, <1>3, <1>4, <1>5 DEF OnePlaceEach, Pending
<1> QED BY <1>1, <1>6, <1>7, <1>8 DEF HeldIsLast

(* What the invariant says when nothing is on its way.                      *)
LEMMA AwakeAndAcked == SupervisorInv => Sv!TypeOK /\ Sv!ResumedWhenAwake /\ Sv!AckedOnce
<1> SUFFICES ASSUME SupervisorInv PROVE Sv!TypeOK /\ Sv!ResumedWhenAwake /\ Sv!AckedOnce
  OBVIOUS
<1>1. Sv!TypeOK /\ Sv!AckedOnce
  BY DEF SupervisorInv, SupervisorType, OnePlaceEach, Sv!AckedOnce
<1>2. ASSUME host = "awake", control.pc = "idle", reqs = <<>>, events = <<>>,
             handler.pc \in {"select", "parked"}, ~dropped
      PROVE  ~suspending
  <2>1. handler.ev.kind # "resume" /\ Open
    BY <1>2 DEF SupervisorInv, HandlerRegular, Sv!NoEvent, Open
  <2>2. ~ResumeSent
    BY <1>2 DEF ResumeSent, ResumeAsked, ResumeQueued
  <2> QED BY <1>2, <2>1, <2>2 DEF SupervisorInv, ResumeFollows
<1> QED BY <1>1, <1>2 DEF Sv!ResumedWhenAwake

SupervisorPartInv == part = "supervisor" => SupervisorInv

(* However requests, the bounded queue, the deadlines and the service body  *)
(* interleave: a suspend that Windows sees released in time finds no        *)
(* runtime up, none is acknowledged twice, and a machine that is awake is   *)
(* not left with a suspending controller (control, supervise, deliver,      *)
(* Event.Ack, Run).                                                         *)
THEOREM PowerHandled == Spec => PowerIsHandled
<1>1. Init => SupervisorPartInv
  BY SupervisorStarts, ConstantsAssumption DEF Init, SupervisorPartInv
<1>2. SupervisorPartInv /\ [Next]_vars =>
        /\ SupervisorPartInv'
        /\ part = "supervisor" => (Sv!TypeOK /\ Sv!ResumedWhenAwake /\ Sv!AckedOnce)' /\ Sv!SleepsReleased
  <2> SUFFICES ASSUME SupervisorPartInv, [Next]_vars, part' = "supervisor"
               PROVE  SupervisorInv' /\ (Sv!TypeOK /\ Sv!ResumedWhenAwake /\ Sv!AckedOnce)' /\ Sv!SleepsReleased
    BY DEF SupervisorPartInv, Next, SvMoves, TlMoves, RsMoves, EvMoves, vars
  <2>1. part = "supervisor" /\ SupervisorInv /\ Sv!SupervisorConstants
    BY ConstantsAssumption DEF SupervisorPartInv, Next, SvMoves, TlMoves, RsMoves, EvMoves, vars
  <2>2. Sv!Next \/ UNCHANGED supervisorVars
    BY <2>1 DEF Next, SvMoves, TlMoves, RsMoves, EvMoves, vars
  <2>3. SupervisorInv'
    BY <2>1, <2>2, SupervisorKeeps
  <2>4. (Sv!TypeOK /\ Sv!ResumedWhenAwake /\ Sv!AckedOnce)'
    BY <2>3, AwakeAndAcked, PTL
  <2> QED BY <2>1, <2>2, <2>3, <2>4, ReleasedWhenFree
<1> QED BY <1>1, <1>2, PTL DEF Spec, PowerIsHandled

-----------------------------------------------------------------------------
(* The event history.                                                      *)

EventRecords == [from : Emitters, n : Nat, at : Nat]
RowRecords == [id : Nat \ {0}, ev : EventRecords]
PageRecords ==
    [state : {"idle", "reading", "done"}, before : Nat, limit : Nat, types : SUBSET Emitters,
     seen : Seq(SUBSET Nat), start : SUBSET Nat]

\* What the model leaves to TypeOK, and what it does not say of the records.
EventsType ==
    /\ logNow \in 1..LogNow /\ emitted \in 0..MaxEmits
    /\ sending \subseteq Emitters /\ IsFiniteSet(sending)
    /\ ch \in Seq(EventRecords) /\ Len(ch) <= BufferSize
    /\ batch \in Seq(EventRecords) /\ Len(batch) <= MaxBatch
    /\ closed \in BOOLEAN /\ returned \in BOOLEAN /\ panicked = FALSE
    /\ writer \in {"receive", "fill", "append", "done"}
    /\ logDropped \in Nat /\ failed \in Nat /\ lastID \in Nat
    /\ logFailures \in 0..WriteFailures /\ prunes \in 0..MaxPrunes
    /\ table \subseteq RowRecords /\ IsFiniteSet(table)
    /\ page \in [Readers -> PageRecords]

\* The writer holds a batch only between receiving and writing it, ends with
\* the channel closed and empty, and no emitter is on its way to a closed one.
WriterRegular ==
    /\ writer \in {"receive", "done"} => batch = <<>>
    /\ writer = "done" => closed /\ ch = <<>>
    /\ closed => sending = {}
    /\ returned => closed /\ writer = "done"

\* No two rows share an id, and none is given out that is not taken.
IdsAreUnique ==
    /\ \A row \in table : row.id <= lastID
    /\ \A a, b \in table : a.id = b.id => a = b

\* An emitter's events are numbered in the order of emission all the way from
\* Emit to the table; one on its way to the channel is newer than the others.
Precedes(a, b) == a.from = b.from => a.n < b.n
Numbered(x) == x.n <= emitted /\ (x.from \in sending => x.n < emitted)

NumbersGrow ==
    /\ \A a, b \in table : a.id < b.id => Precedes(a.ev, b.ev)
    /\ \A a \in table : /\ Numbered(a.ev)
                        /\ \A i \in 1..Len(batch) : Precedes(a.ev, batch[i])
                        /\ \A i \in 1..Len(ch) : Precedes(a.ev, ch[i])
    /\ \A i \in 1..Len(batch) : /\ Numbered(batch[i])
                                /\ \A j \in 1..Len(batch) : i < j => Precedes(batch[i], batch[j])
                                /\ \A j \in 1..Len(ch) : Precedes(batch[i], ch[j])
    /\ \A i \in 1..Len(ch) : /\ Numbered(ch[i])
                             /\ \A j \in 1..Len(ch) : i < j => Precedes(ch[i], ch[j])

\* What a client has not seen of the rows it started with is older than its
\* cursor, and what it has seen is not.
PageSound(p) ==
    /\ p.state = "idle" => p.before = 0 /\ p.seen = <<>>
    /\ p.state = "reading" => p.before # 0 /\ p.limit # 0
    /\ \A i, j \in 1..Len(p.seen) : i < j => \A a \in p.seen[i], b \in p.seen[j] : a > b
    /\ p.state = "reading" => \A i \in 1..Len(p.seen) : \A a \in p.seen[i] : a >= p.before
    /\ \A a \in p.start : a <= lastID
    /\ p.state # "idle" =>
         \A row \in table : row.id \in p.start =>
           /\ Ev!Matches(p.types, row)
           /\ (\E i \in 1..Len(p.seen) : row.id \in p.seen[i]) \/ (p.state = "reading" /\ row.id < p.before)

PagesSound == \A r \in Readers : PageSound(page[r])

EventsInv ==
    EventsType /\ WriterRegular /\ Ev!EveryEventAccounted /\ IdsAreUnique /\ NumbersGrow /\ PagesSound

(* The module of the history counts as this one does.                       *)
LEMMA SameCount == \A S : Ev!Cardinality(S) = Cardinality(S)
  BY DEF Ev!Cardinality, Cardinality

(* A set of numbers has a least one.                                        *)
LEMMA HasLeast ==
    ASSUME NEW S \in SUBSET Nat, S # {}
    PROVE  \E m \in S : \A n \in S : m <= n
<1> DEFINE R == OpToRel(<, Nat)
<1>1. PICK m \in S : \A n \in S : ~ (<<n, m>> \in R)
  BY NatLessThanWellFounded, WFMin
<1> HIDE DEF R
<1>2. ASSUME NEW n \in S PROVE m <= n
  <2>1. m \in Nat /\ n \in Nat /\ <<n, m>> \notin R
    BY <1>1
  <2>2. n < m => <<n, m>> \in R
    BY <2>1 DEF OpToRel, R
  <2> QED BY <2>1, <2>2
<1> QED BY <1>2

\* Rows as a table holds them: each with an id of its own.
RowSet(rows) ==
    /\ IsFiniteSet(rows) /\ \A a \in rows : a.id \in Nat
    /\ \A a, b \in rows : a.id = b.id => a = b

NewerIn(rows, row) == {other \in rows : other.id > row.id}

(* The rows newer than one are fewer than those newer than an older one.    *)
LEMMA FewerAreNewer ==
    ASSUME NEW rows, RowSet(rows), NEW a \in rows, NEW b \in rows
    PROVE  /\ IsFiniteSet(NewerIn(rows, a)) /\ Cardinality(NewerIn(rows, a)) \in Nat
           /\ b.id >= a.id => Cardinality(NewerIn(rows, b)) <= Cardinality(NewerIn(rows, a))
           /\ b.id > a.id => Cardinality(NewerIn(rows, b)) < Cardinality(NewerIn(rows, a))
<1>1. /\ NewerIn(rows, a) \subseteq rows /\ IsFiniteSet(NewerIn(rows, a)) /\ Cardinality(NewerIn(rows, a)) \in Nat
      /\ NewerIn(rows, b) \subseteq rows /\ IsFiniteSet(NewerIn(rows, b)) /\ Cardinality(NewerIn(rows, b)) \in Nat
  BY FS_Subset, FS_CardinalityType DEF NewerIn, RowSet
<1>2. ASSUME b.id >= a.id PROVE NewerIn(rows, b) \subseteq NewerIn(rows, a)
  BY <1>2 DEF NewerIn, RowSet
<1>3. b.id > a.id => b \in NewerIn(rows, a) /\ b \notin NewerIn(rows, b)
  BY DEF NewerIn, RowSet
<1>4. b.id > a.id => b.id >= a.id
  BY DEF RowSet
<1>5. b.id >= a.id => /\ Cardinality(NewerIn(rows, b)) <= Cardinality(NewerIn(rows, a))
                      /\ Cardinality(NewerIn(rows, b)) = Cardinality(NewerIn(rows, a)) => NewerIn(rows, b) = NewerIn(rows, a)
  BY <1>1, <1>2, FS_Subset
<1> QED BY <1>1, <1>3, <1>4, <1>5

(* The newest rows are rows, and whatever is newer than one of them is too. *)
LEMMA NewestUpward ==
    ASSUME NEW rows, RowSet(rows), NEW n \in Nat
    PROVE  /\ Ev!Newest(rows, n) \subseteq rows /\ RowSet(Ev!Newest(rows, n))
           /\ Cardinality(Ev!Newest(rows, n)) \in Nat
           /\ \A a \in Ev!Newest(rows, n), b \in rows : b.id >= a.id => b \in Ev!Newest(rows, n)
           /\ \A a \in rows : a \in Ev!Newest(rows, n) <=> Cardinality(NewerIn(rows, a)) < n
<1>1. \A a \in rows : a \in Ev!Newest(rows, n) <=> Cardinality(NewerIn(rows, a)) < n
  <2>1. Ev!Newest(rows, n) = {row \in rows : Cardinality(NewerIn(rows, row)) < n}
    BY SameCount DEF Ev!Newest, NewerIn
  <2> QED BY <2>1
<1>2. Ev!Newest(rows, n) \subseteq rows
  BY DEF Ev!Newest
<1>3. RowSet(Ev!Newest(rows, n)) /\ Cardinality(Ev!Newest(rows, n)) \in Nat
  BY <1>2, FS_Subset, FS_CardinalityType DEF RowSet
<1>4. ASSUME NEW a \in Ev!Newest(rows, n), NEW b \in rows, b.id >= a.id
      PROVE  b \in Ev!Newest(rows, n)
  <2>1. /\ a \in rows /\ Cardinality(NewerIn(rows, a)) < n
        /\ Cardinality(NewerIn(rows, b)) <= Cardinality(NewerIn(rows, a))
        /\ Cardinality(NewerIn(rows, a)) \in Nat /\ Cardinality(NewerIn(rows, b)) \in Nat
    BY <1>1, <1>2, <1>4, FewerAreNewer
  <2> QED BY <1>1, <2>1
<1> QED BY <1>1, <1>2, <1>3, <1>4

(* LIMIT n: there are at most n of them, and n when a row is left out.      *)
LEMMA NewestCount ==
    ASSUME NEW rows, RowSet(rows), NEW n \in Nat
    PROVE  /\ Cardinality(Ev!Newest(rows, n)) <= n
           /\ Ev!Newest(rows, n) # rows => Cardinality(Ev!Newest(rows, n)) = n
<1> DEFINE N == Ev!Newest(rows, n)
<1>1. /\ N \subseteq rows /\ RowSet(N) /\ Cardinality(N) \in Nat
      /\ \A a \in N, b \in rows : b.id >= a.id => b \in N
      /\ \A a \in rows : a \in N <=> Cardinality(NewerIn(rows, a)) < n
  BY NewestUpward
<1> HIDE DEF N
<1>2. Cardinality(N) <= n
  <2>1. CASE N = {}
    BY <2>1, FS_EmptySet
  <2>2. CASE N # {}
    <3> DEFINE I == {a.id : a \in N}
    <3>1. I \in SUBSET Nat /\ I # {}
      BY <1>1, <2>2 DEF RowSet
    <3> HIDE DEF I
    <3>2. PICK m \in I : \A k \in I : m <= k
      BY <3>1, HasLeast
    <3>3. PICK o \in N : o.id = m
      BY <3>2 DEF I
    <3>4. \A a \in N : a = o \/ a.id > o.id
      <4> SUFFICES ASSUME NEW a \in N, a.id # o.id PROVE a.id > o.id
        BY <1>1 DEF RowSet
      <4>1. o.id <= a.id /\ a.id \in Nat /\ o.id \in Nat
        BY <1>1, <3>2, <3>3 DEF I, RowSet
      <4> QED BY <4>1
    <3>5. /\ N \ {o} \subseteq NewerIn(rows, o) /\ IsFiniteSet(NewerIn(rows, o)) /\ Cardinality(NewerIn(rows, o)) < n
          /\ Cardinality(NewerIn(rows, o)) \in Nat
      BY <1>1, <3>3, <3>4, FewerAreNewer DEF NewerIn
    <3>6. /\ Cardinality(N \ {o}) = Cardinality(N) - 1
      BY <1>1, <3>3, FS_RemoveElement DEF RowSet
    <3>7. Cardinality(N \ {o}) <= Cardinality(NewerIn(rows, o))
      BY <3>5, FS_Subset
    <3> QED BY <1>1, <3>5, <3>6, <3>7
  <2> QED BY <2>1, <2>2
<1>3. ASSUME N # rows PROVE Cardinality(N) >= n
  <2> DEFINE X == rows \ N
             C == {Cardinality(NewerIn(rows, a)) : a \in X}
  <2>1. C \in SUBSET Nat /\ C # {}
    BY <1>1, <1>3, FewerAreNewer
  <2> HIDE DEF C
  <2>2. PICK c \in C : \A k \in C : c <= k
    BY <2>1, HasLeast
  <2>3. PICK m \in X : Cardinality(NewerIn(rows, m)) = c
    BY <2>2 DEF C
  <2>4. NewerIn(rows, m) \subseteq N
    <3> SUFFICES ASSUME NEW a \in NewerIn(rows, m), a \in X PROVE FALSE
      BY DEF NewerIn
    <3>1. Cardinality(NewerIn(rows, a)) < Cardinality(NewerIn(rows, m))
      BY <2>3, FewerAreNewer DEF NewerIn
    <3>2. c <= Cardinality(NewerIn(rows, a)) /\ Cardinality(NewerIn(rows, a)) \in Nat /\ c \in Nat
      BY <2>1, <2>2, FewerAreNewer DEF C
    <3> QED BY <2>3, <3>1, <3>2
  <2>5. Cardinality(NewerIn(rows, m)) >= n /\ Cardinality(NewerIn(rows, m)) \in Nat
    BY <1>1, <2>3, FewerAreNewer
  <2>6. Cardinality(NewerIn(rows, m)) <= Cardinality(N)
    BY <1>1, <2>4, FS_Subset DEF RowSet
  <2> QED BY <1>1, <2>5, <2>6
<1>4. N # rows => Cardinality(N) = n
  BY <1>1, <1>2, <1>3
<1> QED BY <1>2, <1>4 DEF N

(* An empty history to start with.                                          *)
LEMMA EventsStart == Ev!Init /\ Ev!EventLogConstants => EventsInv
<1> SUFFICES ASSUME Ev!Init, Ev!EventLogConstants PROVE EventsInv
  OBVIOUS
<1>1. /\ ch = <<>> /\ batch = <<>> /\ Len(ch) = 0 /\ Len(batch) = 0 /\ sending = {} /\ table = {}
      /\ emitted = 0 /\ lastID = 0 /\ logDropped = 0 /\ failed = 0
      /\ closed = FALSE /\ returned = FALSE /\ panicked = FALSE /\ writer = "receive"
      /\ page = [r \in Readers |-> Ev!NoPage]
  BY DEF Ev!Init
<1>2. /\ IsFiniteSet({}) /\ Cardinality({}) = 0 /\ ch \in Seq(EventRecords) /\ batch \in Seq(EventRecords)
  BY <1>1, FS_EmptySet
<1>3. EventsType
  <2>1. Ev!NoPage \in PageRecords
    <3>1. <<>> \in Seq(SUBSET Nat)
      OBVIOUS
    <3> QED BY <3>1 DEF Ev!NoPage, PageRecords
  <2>2. /\ logNow \in 1..LogNow /\ emitted \in 0..MaxEmits /\ Len(ch) <= BufferSize /\ Len(batch) <= MaxBatch
        /\ logFailures \in 0..WriteFailures /\ prunes \in 0..MaxPrunes
    BY <1>1 DEF Ev!Init, Ev!EventLogConstants
  <2>3. /\ sending \subseteq Emitters /\ IsFiniteSet(sending) /\ table \subseteq RowRecords /\ IsFiniteSet(table)
        /\ page \in [Readers -> PageRecords]
    BY <1>1, <1>2, <2>1
  <2> QED BY <1>1, <1>2, <2>2, <2>3 DEF EventsType
<1>4. WriterRegular
  BY <1>1 DEF WriterRegular
<1>5. Ev!EveryEventAccounted
  BY <1>1, <1>2, SameCount DEF Ev!EveryEventAccounted
<1>6. IdsAreUnique /\ NumbersGrow
  BY <1>1 DEF IdsAreUnique, NumbersGrow
<1>7. PagesSound
  BY <1>1 DEF PagesSound, PageSound, Ev!NoPage
<1> QED BY <1>3, <1>4, <1>5, <1>6, <1>7 DEF EventsInv

(* Where no row, id or client moves, nothing about them changes.            *)
LEMMA TableRests ==
    ASSUME IdsAreUnique, PagesSound, UNCHANGED <<table, lastID, page>>
    PROVE  IdsAreUnique' /\ PagesSound'
<1>1. IdsAreUnique'
  BY DEF IdsAreUnique
<1>2. PagesSound'
  BY DEF PagesSound, PageSound, Ev!Matches
<1> QED BY <1>1, <1>2

\* What the accounting adds up.
Counts ==
    /\ emitted \in Nat /\ lastID \in Nat /\ Len(ch) \in Nat /\ Len(batch) \in Nat
    /\ Cardinality(sending) \in Nat /\ logDropped \in Nat /\ failed \in Nat
    /\ emitted = lastID + Len(ch) + Len(batch) + Cardinality(sending) + logDropped + failed

(* The same sum as the model states.                                        *)
LEMMA CountsAdd == ASSUME EventsInv PROVE Counts
<1>1. Len(ch) \in Nat /\ Len(batch) \in Nat
  BY LenProperties DEF EventsInv, EventsType
<1>2. Cardinality(sending) \in Nat
  BY FS_CardinalityType DEF EventsInv, EventsType
<1> QED BY <1>1, <1>2, SameCount DEF Counts, EventsInv, EventsType, Ev!EveryEventAccounted

(* Emit counts the event, and drops it when the sink is closed.             *)
LEMMA CheckKeeps ==
    ASSUME EventsInv, Ev!EventLogConstants, NEW e \in Emitters, Ev!EmitCheck(e)
    PROVE  EventsInv'
<1>1. /\ emitted < MaxEmits /\ e \notin sending /\ emitted' = emitted + 1
      /\ \/ closed /\ logDropped' = logDropped + 1 /\ sending' = sending
         \/ ~closed /\ sending' = sending \cup {e} /\ logDropped' = logDropped
      /\ UNCHANGED <<logNow, ch, closed, batch, writer, failed, returned, panicked, table, lastID, logFailures, prunes, page>>
  BY DEF Ev!EmitCheck
<1>2. /\ EventsType /\ WriterRegular /\ IdsAreUnique /\ NumbersGrow /\ PagesSound /\ Counts /\ MaxEmits \in Nat
  BY CountsAdd DEF EventsInv, Ev!EventLogConstants
<1>3. /\ sending' \subseteq Emitters /\ IsFiniteSet(sending')
      /\ \/ closed /\ logDropped' = logDropped + 1 /\ Cardinality(sending') = Cardinality(sending)
         \/ logDropped' = logDropped /\ Cardinality(sending') = Cardinality(sending) + 1
  BY <1>1, <1>2, FS_AddElement DEF EventsType
<1>4. EventsType'
  BY <1>1, <1>2, <1>3 DEF EventsType
<1>5. WriterRegular'
  BY <1>1, <1>2 DEF WriterRegular
<1>6. Ev!EveryEventAccounted'
  <2>1. emitted' = lastID' + Len(ch') + Len(batch') + Cardinality(sending') + logDropped' + failed'
    BY <1>1, <1>2, <1>3 DEF Counts
  <2> QED BY <2>1, SameCount DEF Ev!EveryEventAccounted
<1>7. NumbersGrow'
  <2>1. ASSUME NEW x \in EventRecords, Numbered(x) PROVE Numbered(x)'
    BY <1>1, <1>2, <2>1 DEF Numbered, EventRecords, Counts
  <2>2. /\ \A a \in table : a.ev \in EventRecords
        /\ \A i \in 1..Len(ch) : ch[i] \in EventRecords
        /\ \A i \in 1..Len(batch) : batch[i] \in EventRecords
    BY <1>2, ElementOfSeq DEF EventsType, RowRecords
  <2>3. /\ \A a \in table : Numbered(a.ev)'
        /\ \A i \in 1..Len(ch) : Numbered(ch[i])'
        /\ \A i \in 1..Len(batch) : Numbered(batch[i])'
    BY <1>1, <1>2, <2>1, <2>2 DEF NumbersGrow, Numbered
  <2> QED BY <1>1, <1>2, <2>3 DEF NumbersGrow, Precedes
<1> QED BY <1>1, <1>2, <1>4, <1>5, <1>6, <1>7, TableRests DEF EventsInv

(* The send meets an open channel, and drops the event when it is full.     *)
LEMMA SendKeeps ==
    ASSUME EventsInv, Ev!EventLogConstants, NEW e \in Emitters, Ev!EmitSend(e)
    PROVE  EventsInv'
<1> DEFINE x == Ev!Event(e)
<1>1. /\ e \in sending /\ sending' = sending \ {e} /\ panicked' = closed
      /\ \/ Len(ch) < BufferSize /\ ch' = Append(ch, x) /\ logDropped' = logDropped
         \/ ch' = ch /\ logDropped' = logDropped + 1
      /\ UNCHANGED <<logNow, emitted, closed, batch, writer, failed, returned, table, lastID, logFailures, prunes, page>>
  BY DEF Ev!EmitSend
<1>2. /\ EventsType /\ WriterRegular /\ IdsAreUnique /\ NumbersGrow /\ PagesSound /\ Counts /\ BufferSize \in Nat
      /\ LogNow \in Nat
  BY CountsAdd DEF EventsInv, Ev!EventLogConstants
<1>3. x \in EventRecords /\ x.from = e /\ x.n = emitted
  <2>1. emitted \in Nat /\ logNow \in Nat
    BY <1>2 DEF EventsType, Counts
  <2> QED BY <2>1 DEF Ev!Event, EventRecords
<1> HIDE DEF x
<1>4. ~closed /\ panicked' = FALSE
  BY <1>1, <1>2 DEF WriterRegular, EventsType
<1>5. sending' \subseteq Emitters /\ IsFiniteSet(sending') /\ Cardinality(sending') = Cardinality(sending) - 1
  BY <1>1, <1>2, FS_RemoveElement DEF EventsType
<1>6. /\ ch' \in Seq(EventRecords) /\ Len(ch') <= BufferSize
      /\ Len(ch') + logDropped' = Len(ch) + logDropped + 1 /\ logDropped' \in Nat /\ Len(ch') \in Nat
      /\ \A i \in 1..Len(ch') : (i \in 1..Len(ch) /\ ch'[i] = ch[i]) \/ (i = Len(ch) + 1 /\ ch'[i] = x)
  <2>1. CASE ch' = ch /\ logDropped' = logDropped + 1
    BY <1>2, <2>1 DEF EventsType, Counts
  <2>2. CASE Len(ch) < BufferSize /\ ch' = Append(ch, x) /\ logDropped' = logDropped
    <3>1. /\ Append(ch, x) \in Seq(EventRecords) /\ Len(Append(ch, x)) = Len(ch) + 1 /\ Len(ch) \in Nat
          /\ \A i \in 1..Len(ch) : Append(ch, x)[i] = ch[i]
          /\ Append(ch, x)[Len(ch) + 1] = x
      BY <1>2, <1>3, Added DEF EventsType
    <3> QED BY <1>2, <2>2, <3>1 DEF Counts
  <2> QED BY <1>1, <2>1, <2>2
<1>7. EventsType'
  BY <1>1, <1>2, <1>4, <1>5, <1>6 DEF EventsType
<1>8. WriterRegular'
  BY <1>1, <1>2, <1>4 DEF WriterRegular
<1>9. Ev!EveryEventAccounted'
  <2>1. emitted' = lastID' + Len(ch') + Len(batch') + Cardinality(sending') + logDropped' + failed'
    <3>1. /\ UNCHANGED <<emitted, lastID, batch, failed>> /\ Counts
          /\ Cardinality(sending') = Cardinality(sending) - 1
          /\ Len(ch') + logDropped' = Len(ch) + logDropped + 1 /\ logDropped' \in Nat /\ Len(ch') \in Nat
      BY <1>1, <1>2, <1>5, <1>6
    <3> DEFINE c == Len(ch)
               cc == Len(ch')
               b == Len(batch)
               s == Cardinality(sending)
               ss == Cardinality(sending')
    <3>2. /\ emitted = lastID + c + b + s + logDropped + failed
          /\ {lastID, c, cc, b, s, logDropped, logDropped', failed} \subseteq Nat
          /\ ss = s - 1 /\ cc + logDropped' = c + logDropped + 1
      BY <3>1 DEF Counts
    <3>3. lastID' = lastID /\ Len(batch') = b /\ failed' = failed /\ emitted' = emitted
      BY <3>1
    <3> HIDE DEF c, cc, b, s, ss
    <3>4. emitted = lastID + cc + b + ss + logDropped' + failed
      BY <3>2
    <3> QED BY <3>3, <3>4 DEF cc, ss
  <2> QED BY <2>1, SameCount DEF Ev!EveryEventAccounted
<1>10. NumbersGrow'
  <2>1. ASSUME NEW y \in EventRecords, Numbered(y) PROVE Numbered(y)' /\ Precedes(y, x)
    BY <1>1, <1>3, <2>1 DEF Numbered, Precedes
  <2>2. x.n <= emitted' /\ x.from \notin sending'
    BY <1>1, <1>2, <1>3 DEF Counts
  <2>3. /\ \A a \in table : a.ev \in EventRecords /\ Numbered(a.ev)
        /\ \A i \in 1..Len(ch) : ch[i] \in EventRecords /\ Numbered(ch[i])
        /\ \A i \in 1..Len(batch) : batch[i] \in EventRecords /\ Numbered(batch[i])
    BY <1>2, ElementOfSeq DEF EventsType, RowRecords, NumbersGrow
  <2>4. /\ \A a \in table : Numbered(a.ev)'
        /\ \A i \in 1..Len(batch) : Numbered(batch[i])'
    BY <1>1, <2>1, <2>3 DEF Numbered
  <2>5. \A i \in 1..Len(ch') : /\ Numbered(ch[i])'
                               /\ \A j \in 1..Len(ch') : i < j => Precedes(ch'[i], ch'[j])
    <3> SUFFICES ASSUME NEW i \in 1..Len(ch')
                 PROVE  Numbered(ch[i])' /\ \A j \in 1..Len(ch') : i < j => Precedes(ch'[i], ch'[j])
      OBVIOUS
    <3>1. CASE i = Len(ch) + 1 /\ ch'[i] = x
      <4>1. \A j \in 1..Len(ch') : ~ (i < j)
        <5>1. Len(ch) \in Nat /\ \A j \in 1..Len(ch') : j \in 1..Len(ch) \/ j = Len(ch) + 1
          BY <1>2, <1>6 DEF Counts
        <5> QED BY <3>1, <5>1
      <4>2. Numbered(ch[i])'
        BY <2>2, <3>1 DEF Numbered
      <4> QED BY <4>1, <4>2
    <3>2. CASE i \in 1..Len(ch) /\ ch'[i] = ch[i]
      <4>1. Numbered(ch[i])' /\ Precedes(ch'[i], x)
        BY <1>1, <2>1, <2>3, <3>2 DEF Numbered
      <4>2. ASSUME NEW j \in 1..Len(ch'), i < j PROVE Precedes(ch'[i], ch'[j])
        BY <1>2, <1>6, <3>2, <4>1, <4>2 DEF NumbersGrow
      <4> QED BY <4>1, <4>2
    <3> QED BY <1>6, <3>1, <3>2
  <2>6. /\ \A a \in table : \A i \in 1..Len(ch') : Precedes(a.ev, ch'[i])
        /\ \A j \in 1..Len(batch) : \A i \in 1..Len(ch') : Precedes(batch[j], ch'[i])
    BY <1>2, <1>6, <2>1, <2>3 DEF NumbersGrow
  <2> QED BY <1>1, <1>2, <2>4, <2>5, <2>6 DEF NumbersGrow, Precedes
<1> QED BY <1>1, <1>2, <1>7, <1>8, <1>9, <1>10, TableRests DEF EventsInv

(* Closing, returning from Close and the clock touch no event.              *)
LEMMA CloseKeeps ==
    ASSUME EventsInv, Ev!EventLogConstants,
           Ev!Close \/ Ev!CloseReturns \/ Ev!Tick \/ UNCHANGED eventsVars
    PROVE  EventsInv'
<1>1. /\ UNCHANGED <<emitted, sending, ch, batch, writer, logDropped, failed, panicked, table, lastID, logFailures,
                     prunes, page>>
      /\ logNow' = logNow \/ (logNow < LogNow /\ logNow' = logNow + 1)
      /\ closed' = closed \/ (closed' = TRUE /\ sending = {})
      /\ returned' = returned \/ (returned' = TRUE /\ closed /\ writer = "done")
      /\ closed => closed'
  BY DEF Ev!Close, Ev!CloseReturns, Ev!Tick, Ev!sinkVars, eventsVars
<1>2. /\ EventsType /\ WriterRegular /\ IdsAreUnique /\ NumbersGrow /\ PagesSound /\ Counts
      /\ LogNow \in Nat
  BY CountsAdd DEF EventsInv, Ev!EventLogConstants
<1>3. EventsType'
  <2>1. logNow' \in 1..LogNow
    BY <1>1, <1>2 DEF EventsType
  <2>2. closed' \in BOOLEAN
    BY <1>1, <1>2 DEF EventsType
  <2>3. returned' \in BOOLEAN
    BY <1>1, <1>2 DEF EventsType
  <2> QED BY <1>1, <1>2, <2>1, <2>2, <2>3 DEF EventsType
<1>4. WriterRegular'
  BY <1>1, <1>2 DEF WriterRegular
<1>5. Ev!EveryEventAccounted'
  <2>1. emitted' = lastID' + Len(ch') + Len(batch') + Cardinality(sending') + logDropped' + failed'
    BY <1>1, <1>2 DEF Counts
  <2> QED BY <2>1, SameCount DEF Ev!EveryEventAccounted
<1>6. NumbersGrow'
  BY <1>1, <1>2 DEF NumbersGrow, Precedes, Numbered
<1> QED BY <1>1, <1>2, <1>3, <1>4, <1>5, <1>6, TableRests DEF EventsInv

(* The writer takes the oldest event of the channel behind its batch.       *)
LEMMA WriterTakes ==
    ASSUME EventsInv, Ev!EventLogConstants, ch # <<>>, ch' = Tail(ch), batch' = Append(batch, Head(ch)),
           UNCHANGED <<emitted, sending, table>>
    PROVE  /\ ch' \in Seq(EventRecords) /\ Len(ch') = Len(ch) - 1
           /\ batch' \in Seq(EventRecords) /\ Len(batch') = Len(batch) + 1
           /\ NumbersGrow'
<1>1. /\ EventsType /\ NumbersGrow /\ Counts
  BY CountsAdd DEF EventsInv
<1>2. /\ ch' \in Seq(EventRecords) /\ Len(ch) \in Nat \ {0} /\ Len(ch') = Len(ch) - 1
      /\ Head(ch) = ch[1] /\ ch[1] \in EventRecords /\ 1 \in 1..Len(ch)
      /\ \A i \in 1..Len(ch') : i + 1 \in 1..Len(ch) /\ ch'[i] = ch[i + 1] /\ i \in Nat /\ 1 < i + 1
  <2>1. /\ Tail(ch) \in Seq(EventRecords) /\ Len(ch) \in Nat \ {0} /\ Len(Tail(ch)) = Len(ch) - 1
        /\ Head(ch) = ch[1] /\ ch[1] \in EventRecords
        /\ \A i \in 1..Len(Tail(ch)) : i + 1 \in 1..Len(ch) /\ Tail(ch)[i] = ch[i + 1]
    BY <1>1, Taken DEF EventsType
  <2> QED BY <2>1
<1>3. /\ batch' \in Seq(EventRecords) /\ Len(batch') = Len(batch) + 1 /\ Len(batch) \in Nat
      /\ \A i \in 1..Len(batch') : (i \in 1..Len(batch) /\ batch'[i] = batch[i]) \/ (i = Len(batch) + 1 /\ batch'[i] = ch[1])
  <2>1. /\ Append(batch, ch[1]) \in Seq(EventRecords) /\ Len(Append(batch, ch[1])) = Len(batch) + 1
        /\ Len(batch) \in Nat
        /\ \A i \in 1..Len(batch) : Append(batch, ch[1])[i] = batch[i]
        /\ Append(batch, ch[1])[Len(batch) + 1] = ch[1]
    BY <1>1, <1>2, Added DEF EventsType
  <2> QED BY <1>2, <2>1
<1>4. \A i \in 1..Len(ch') :
        /\ Numbered(ch'[i]) /\ Precedes(ch[1], ch'[i])
        /\ \A a \in table : Precedes(a.ev, ch'[i])
        /\ \A j \in 1..Len(batch) : Precedes(batch[j], ch'[i])
        /\ \A j \in 1..Len(ch') : i < j => Precedes(ch'[i], ch'[j])
  <2> SUFFICES ASSUME NEW i \in 1..Len(ch')
               PROVE  /\ Numbered(ch'[i]) /\ Precedes(ch[1], ch'[i])
                      /\ \A a \in table : Precedes(a.ev, ch'[i])
                      /\ \A j \in 1..Len(batch) : Precedes(batch[j], ch'[i])
                      /\ \A j \in 1..Len(ch') : i < j => Precedes(ch'[i], ch'[j])
    OBVIOUS
  <2> DEFINE k == i + 1
  <2>1. k \in 1..Len(ch) /\ ch'[i] = ch[k] /\ 1 < k
    BY <1>2
  <2>2. ASSUME NEW j \in 1..Len(ch'), i < j PROVE Precedes(ch'[i], ch'[j])
    <3>1. j + 1 \in 1..Len(ch) /\ ch'[j] = ch[j + 1] /\ k < j + 1
      BY <1>2, <2>2
    <3> DEFINE l == j + 1
    <3>2. l \in 1..Len(ch) /\ ch'[j] = ch[l] /\ k < l
      BY <3>1
    <3> HIDE DEF k, l
    <3> QED BY <1>1, <2>1, <3>2 DEF NumbersGrow
  <2> HIDE DEF k
  <2> QED BY <1>1, <1>2, <2>1, <2>2 DEF NumbersGrow
<1>5. \A i \in 1..Len(batch') :
        /\ Numbered(batch'[i])
        /\ \A a \in table : Precedes(a.ev, batch'[i])
        /\ \A j \in 1..Len(ch') : Precedes(batch'[i], ch'[j])
        /\ \A j \in 1..Len(batch') : i < j => Precedes(batch'[i], batch'[j])
  <2> SUFFICES ASSUME NEW i \in 1..Len(batch')
               PROVE  /\ Numbered(batch'[i])
                      /\ \A a \in table : Precedes(a.ev, batch'[i])
                      /\ \A j \in 1..Len(ch') : Precedes(batch'[i], ch'[j])
                      /\ \A j \in 1..Len(batch') : i < j => Precedes(batch'[i], batch'[j])
    OBVIOUS
  <2>1. CASE i \in 1..Len(batch) /\ batch'[i] = batch[i]
    <3>1. ASSUME NEW j \in 1..Len(batch'), i < j PROVE Precedes(batch'[i], batch'[j])
      <4>1. (j \in 1..Len(batch) /\ batch'[j] = batch[j]) \/ batch'[j] = ch[1]
        BY <1>3
      <4> QED BY <1>1, <1>2, <2>1, <3>1, <4>1 DEF NumbersGrow
    <3> QED BY <1>1, <1>4, <2>1, <3>1 DEF NumbersGrow
  <2>2. CASE i = Len(batch) + 1 /\ batch'[i] = ch[1]
    <3>1. ASSUME NEW j \in 1..Len(batch'), i < j PROVE FALSE
      BY <1>3, <2>2, <3>1
    <3> QED BY <1>1, <1>2, <1>4, <2>2, <3>1 DEF NumbersGrow
  <2> QED BY <1>3, <2>1, <2>2
<1>6. \A x : Numbered(x)' <=> Numbered(x)
  BY DEF Numbered
<1>7. /\ \A i \in 1..Len(ch') : Numbered(ch[i])'
      /\ \A i \in 1..Len(batch') : Numbered(batch[i])'
      /\ \A a \in table : Numbered(a.ev)'
  BY <1>1, <1>4, <1>5 DEF Numbered, NumbersGrow
<1>8. NumbersGrow'
  BY <1>1, <1>4, <1>5, <1>7 DEF NumbersGrow, Precedes
<1> QED BY <1>2, <1>3, <1>8

(* The writer receives, and fills its batch.                                *)
LEMMA WriterKeeps ==
    ASSUME EventsInv, Ev!EventLogConstants, Ev!WriterReceive \/ Ev!WriterFill
    PROVE  EventsInv'
<1>1. /\ EventsType /\ WriterRegular /\ IdsAreUnique /\ NumbersGrow /\ PagesSound /\ Counts
      /\ MaxBatch \in Nat \ {0}
  BY CountsAdd DEF EventsInv, Ev!EventLogConstants
<1>2. UNCHANGED <<logNow, emitted, sending, closed, logDropped, failed, returned, panicked, table, lastID, logFailures,
                  prunes, page>>
  BY DEF Ev!WriterReceive, Ev!WriterFill
<1>3. \/ ch # <<>> /\ ch' = Tail(ch) /\ batch' = Append(batch, Head(ch)) /\ Len(batch) < MaxBatch /\ writer' = "fill"
         /\ writer \in {"receive", "fill"}
      \/ /\ UNCHANGED <<ch, batch>>
         /\ \/ writer = "receive" /\ writer' = "done" /\ ch = <<>> /\ closed
            \/ writer = "fill" /\ writer' = "append"
  <2>1. CASE Ev!WriterReceive
    <3>1. writer = "receive" => batch = <<>> /\ <<Head(ch)>> = Append(batch, Head(ch)) /\ Len(batch) < MaxBatch
      BY <1>1 DEF WriterRegular
    <3> QED BY <2>1, <3>1 DEF Ev!WriterReceive
  <2>2. CASE Ev!WriterFill
    BY <2>2 DEF Ev!WriterFill
  <2> QED BY <2>1, <2>2
<1>4. CASE ch # <<>> /\ ch' = Tail(ch) /\ batch' = Append(batch, Head(ch)) /\ Len(batch) < MaxBatch /\ writer' = "fill"
           /\ writer \in {"receive", "fill"}
  <2>1. /\ ch' \in Seq(EventRecords) /\ Len(ch') = Len(ch) - 1
        /\ batch' \in Seq(EventRecords) /\ Len(batch') = Len(batch) + 1
        /\ NumbersGrow'
    BY <1>2, <1>4, WriterTakes
  <2>2. Len(ch') <= BufferSize /\ Len(batch') <= MaxBatch
    <3>1. /\ Len(ch) <= BufferSize /\ Len(ch) \in Nat /\ Len(batch) \in Nat /\ BufferSize \in Nat /\ MaxBatch \in Nat
          /\ Len(batch) < MaxBatch
      BY <1>1, <1>4 DEF EventsType, Counts, Ev!EventLogConstants
    <3> QED BY <2>1, <3>1
  <2>3. EventsType'
    BY <1>1, <1>2, <1>4, <2>1, <2>2 DEF EventsType
  <2>4. WriterRegular'
    BY <1>1, <1>2, <1>4 DEF WriterRegular
  <2>5. Ev!EveryEventAccounted'
    <3>1. emitted' = lastID' + Len(ch') + Len(batch') + Cardinality(sending') + logDropped' + failed'
      BY <1>1, <1>2, <2>1 DEF Counts
    <3> QED BY <3>1, SameCount DEF Ev!EveryEventAccounted
  <2> QED BY <1>1, <1>2, <2>1, <2>3, <2>4, <2>5, TableRests DEF EventsInv
<1>5. CASE /\ UNCHANGED <<ch, batch>>
           /\ \/ writer = "receive" /\ writer' = "done" /\ ch = <<>> /\ closed
              \/ writer = "fill" /\ writer' = "append"
  <2>1. EventsType' /\ WriterRegular' /\ NumbersGrow'
    BY <1>1, <1>2, <1>5 DEF EventsType, WriterRegular, NumbersGrow, Numbered, Precedes
  <2>2. Ev!EveryEventAccounted'
    <3>1. emitted' = lastID' + Len(ch') + Len(batch') + Cardinality(sending') + logDropped' + failed'
      BY <1>1, <1>2, <1>5 DEF Counts
    <3> QED BY <3>1, SameCount DEF Ev!EveryEventAccounted
  <2> QED BY <1>1, <1>2, <2>1, <2>2, TableRests DEF EventsInv
<1> QED BY <1>3, <1>4, <1>5

(* A transaction gives the batch the next ids, or counts it as failed.      *)
LEMMA AppendKeeps ==
    ASSUME EventsInv, Ev!EventLogConstants, NEW ok \in BOOLEAN, Ev!AppendEvents(ok)
    PROVE  EventsInv'
<1> DEFINE new == {[id |-> lastID + i, ev |-> batch[i]] : i \in 1..Len(batch)}
<1>1. /\ writer = "append" /\ writer' = "receive" /\ batch' = <<>> /\ Len(batch') = 0
      /\ UNCHANGED <<logNow, emitted, sending, ch, closed, logDropped, returned, panicked, prunes, page>>
      /\ \/ table' = table \cup new /\ lastID' = lastID + Len(batch) /\ failed' = failed /\ logFailures' = logFailures
         \/ /\ table' = table /\ lastID' = lastID /\ failed' = failed + Len(batch)
            /\ logFailures < WriteFailures /\ logFailures' = logFailures + 1
  BY DEF Ev!AppendEvents
<1>2. /\ EventsType /\ WriterRegular /\ IdsAreUnique /\ NumbersGrow /\ PagesSound /\ Counts
      /\ WriteFailures \in Nat
  BY CountsAdd DEF EventsInv, Ev!EventLogConstants
<1>3. \A row \in new : \E i \in 1..Len(batch) : row.id = lastID + i /\ row.ev = batch[i] /\ batch[i] \in EventRecords
                                               /\ row \in RowRecords /\ i \in Nat /\ i >= 1 /\ i <= Len(batch)
  <2> SUFFICES ASSUME NEW i \in 1..Len(batch)
               PROVE  batch[i] \in EventRecords /\ [id |-> lastID + i, ev |-> batch[i]] \in RowRecords /\ i \in Nat
                      /\ i >= 1 /\ i <= Len(batch)
    OBVIOUS
  <2>1. batch[i] \in EventRecords
    BY <1>2, ElementOfSeq DEF EventsType
  <2>2. lastID + i \in Nat \ {0} /\ i \in Nat /\ i >= 1 /\ i <= Len(batch)
    BY <1>2 DEF Counts
  <2> QED BY <2>1, <2>2 DEF RowRecords
<1>4. IsFiniteSet(new)
  <2> DEFINE f == [i \in 1..Len(batch) |-> [id |-> lastID + i, ev |-> batch[i]]]
  <2>1. f \in Surjection(1..Len(batch), new)
    BY DEF Surjection
  <2>2. IsFiniteSet(1..Len(batch))
    BY <1>2, FS_Interval DEF Counts
  <2> HIDE DEF f
  <2> QED BY <2>1, <2>2, FS_Surjection
<1> HIDE DEF new
<1>5. WriterRegular'
  BY <1>1, <1>2 DEF WriterRegular
<1>6. batch' \in Seq(EventRecords) /\ Len(batch') <= MaxBatch
  BY <1>1 DEF Ev!EventLogConstants
<1>7. Ev!EveryEventAccounted'
  <2>1. emitted' = lastID' + Len(ch') + Len(batch') + Cardinality(sending') + logDropped' + failed'
    BY <1>1, <1>2 DEF Counts
  <2> QED BY <2>1, SameCount DEF Ev!EveryEventAccounted
<1>8. CASE table' = table
  <2>1. lastID' \in Nat /\ lastID' >= lastID /\ failed' \in Nat /\ logFailures' \in 0..WriteFailures
    <3>1. lastID' = lastID \/ lastID' = lastID + Len(batch)
      BY <1>1
    <3>2. failed' = failed \/ failed' = failed + Len(batch)
      BY <1>1
    <3>3. logFailures' = logFailures \/ (logFailures < WriteFailures /\ logFailures' = logFailures + 1)
      BY <1>1
    <3>4. lastID \in Nat /\ failed \in Nat /\ Len(batch) \in Nat /\ logFailures \in 0..WriteFailures
      BY <1>2 DEF EventsType, Counts
    <3>5. logFailures' \in 0..WriteFailures
      BY <1>2, <3>3, <3>4
    <3> QED BY <3>1, <3>2, <3>4, <3>5
  <2>2. EventsType'
    BY <1>1, <1>2, <1>6, <1>8, <2>1 DEF EventsType
  <2>3. IdsAreUnique'
    BY <1>2, <1>8, <2>1 DEF IdsAreUnique, EventsType, RowRecords
  <2>4. NumbersGrow'
    BY <1>1, <1>2, <1>8 DEF NumbersGrow, Numbered, Precedes
  <2>5. PagesSound'
    <3> SUFFICES ASSUME NEW r \in Readers PROVE PageSound(page[r])'
      BY DEF PagesSound
    <3>1. PageSound(page[r]) /\ page' = page /\ page[r].start \subseteq Nat
      BY <1>1, <1>2 DEF PagesSound, EventsType, PageRecords
    <3> QED BY <1>2, <1>8, <2>1, <3>1 DEF PageSound, Ev!Matches, EventsType
  <2> QED BY <1>5, <1>7, <2>2, <2>3, <2>4, <2>5 DEF EventsInv
<1>9. CASE table' = table \cup new /\ lastID' = lastID + Len(batch) /\ failed' = failed /\ logFailures' = logFailures
  <2>1. lastID' \in Nat /\ lastID' >= lastID
    BY <1>2, <1>9 DEF Counts
  <2>2. table' \subseteq RowRecords /\ IsFiniteSet(table')
    BY <1>2, <1>3, <1>4, <1>9, FS_Union DEF EventsType
  <2>3. EventsType'
    BY <1>1, <1>2, <1>6, <1>9, <2>1, <2>2 DEF EventsType
  <2>4. \A a \in table : a.id <= lastID /\ a.id \in Nat /\ a.ev \in EventRecords
    BY <1>2 DEF IdsAreUnique, EventsType, RowRecords
  <2>5. \A a \in new : a.id > lastID /\ a.id <= lastID' /\ a.id \in Nat
    BY <1>2, <1>3, <1>9 DEF Counts
  <2>6. ASSUME NEW a \in new, NEW b \in new, a.id = b.id PROVE a = b
    <3>1. PICK i \in 1..Len(batch) : a.id = lastID + i /\ a.ev = batch[i] /\ a \in RowRecords /\ i \in Nat
      BY <1>3
    <3>2. PICK j \in 1..Len(batch) : b.id = lastID + j /\ b.ev = batch[j] /\ b \in RowRecords /\ j \in Nat
      BY <1>3
    <3>3. lastID \in Nat
      BY <1>2 DEF EventsType
    <3>4. lastID + i = lastID + j
      BY <2>6, <3>1, <3>2
    <3>5. i = j
      BY <3>1, <3>2, <3>3, <3>4
    <3>6. a.ev = b.ev
      BY <3>1, <3>2, <3>5
    <3>7. a = [id |-> a.id, ev |-> a.ev] /\ b = [id |-> b.id, ev |-> b.ev]
      BY <3>1, <3>2 DEF RowRecords
    <3> QED BY <2>6, <3>6, <3>7
  <2>7. IdsAreUnique'
    <3>1. \A row \in table' : row.id <= lastID'
      BY <1>9, <2>1, <2>4, <2>5, <1>2 DEF EventsType
    <3>2. \A a, b \in table' : a.id = b.id => a = b
      <4> SUFFICES ASSUME NEW a \in table', NEW b \in table', a.id = b.id PROVE a = b
        OBVIOUS
      <4>1. lastID \in Nat
        BY <1>2 DEF EventsType
      <4> QED BY <1>2, <1>9, <2>4, <2>5, <2>6, <4>1 DEF IdsAreUnique
    <3> QED BY <3>1, <3>2 DEF IdsAreUnique
  <2>8. NumbersGrow'
    <3>1. \A a \in new : Numbered(a.ev) /\ \A i \in 1..Len(ch) : Precedes(a.ev, ch[i])
      BY <1>2, <1>3 DEF NumbersGrow
    <3>2. \A a \in table' : Numbered(a.ev) /\ \A i \in 1..Len(ch) : Precedes(a.ev, ch[i])
      BY <1>2, <1>9, <3>1 DEF NumbersGrow
    <3>3. \A a, b \in table' : a.id < b.id => Precedes(a.ev, b.ev)
      <4> SUFFICES ASSUME NEW a \in table', NEW b \in table', a.id < b.id PROVE Precedes(a.ev, b.ev)
        OBVIOUS
      <4>0. lastID \in Nat
        BY <1>2 DEF EventsType
      <4>1. CASE a \in table /\ b \in table
        BY <1>2, <4>1 DEF NumbersGrow
      <4>2. CASE a \in table /\ b \in new
        BY <1>2, <1>3, <4>2 DEF NumbersGrow
      <4>3. CASE a \in new /\ b \in table
        BY <2>4, <2>5, <4>0, <4>3
      <4>4. CASE a \in new /\ b \in new
        <5>1. PICK i \in 1..Len(batch) : a.id = lastID + i /\ a.ev = batch[i] /\ i \in Nat
          BY <1>3, <4>4
        <5>2. PICK j \in 1..Len(batch) : b.id = lastID + j /\ b.ev = batch[j] /\ j \in Nat
          BY <1>3, <4>4
        <5>3. i < j
          BY <4>0, <5>1, <5>2
        <5> QED BY <1>2, <5>1, <5>2, <5>3 DEF NumbersGrow
      <4> QED BY <1>9, <4>1, <4>2, <4>3, <4>4
    <3>4. \A x : Numbered(x)' <=> Numbered(x)
      BY <1>1 DEF Numbered
    <3>5. \A a \in table' : (\A i \in 1..Len(batch') : FALSE) /\ Numbered(a.ev)
      BY <1>1, <3>2
    <3> QED BY <1>1, <1>2, <3>2, <3>3, <3>5 DEF NumbersGrow, Precedes, Numbered
  <2>9. PagesSound'
    <3> SUFFICES ASSUME NEW r \in Readers PROVE PageSound(page[r])'
      BY DEF PagesSound
    <3>1. PageSound(page[r]) /\ page' = page /\ page[r].start \subseteq Nat
      BY <1>1, <1>2 DEF PagesSound, EventsType, PageRecords
    <3>2. \A row \in table' : row.id \in page[r].start => row \in table
      <4>1. \A a \in page[r].start : a <= lastID /\ a \in Nat
        BY <3>1 DEF PageSound
      <4>2. lastID \in Nat
        BY <1>2 DEF EventsType
      <4> QED BY <1>9, <2>5, <4>1, <4>2
    <3>3. \A a \in page[r].start : a <= lastID'
      BY <1>2, <2>1, <3>1 DEF PageSound, EventsType
    <3> QED BY <3>1, <3>2, <3>3 DEF PageSound, Ev!Matches
  <2> QED BY <1>5, <1>7, <2>3, <2>7, <2>8, <2>9 DEF EventsInv
<1> QED BY <1>1, <1>8, <1>9

(* The rows are a set of rows, and so are those a query selects or the      *)
(* retention leaves.                                                        *)
LEMMA TableIsRowSet ==
    ASSUME EventsType, IdsAreUnique, NEW rows \in SUBSET table
    PROVE  RowSet(rows)
<1>1. IsFiniteSet(rows)
  BY FS_Subset DEF EventsType
<1> QED BY <1>1 DEF RowSet, EventsType, IdsAreUnique, RowRecords

(* The retention only takes rows away, and leaves the newest.               *)
LEMMA PruneLeaves ==
    ASSUME EventsInv, Ev!EventLogConstants, Ev!PruneEvents
    PROVE  /\ table' \subseteq table /\ Ev!PruneKeepsNewest
           /\ UNCHANGED <<lastID, page>>
<1> DEFINE young == {row \in table : Ev!Young(row)}
<1>1. /\ table' = (IF EventsMax = 0 THEN young ELSE Ev!Newest(young, EventsMax))
      /\ UNCHANGED <<lastID, page>>
  BY DEF Ev!PruneEvents, Ev!Kept
<1>2. RowSet(young) /\ EventsMax \in Nat
  BY TableIsRowSet DEF EventsInv, Ev!EventLogConstants
<1>3. young \subseteq table /\ \A row \in table : Ev!Young(row) => row \in young
  OBVIOUS
<1> HIDE DEF young
<1>4. /\ Ev!Newest(young, EventsMax) \subseteq young
      /\ \A a \in Ev!Newest(young, EventsMax), b \in young : b.id >= a.id => b \in Ev!Newest(young, EventsMax)
      /\ Ev!Newest(young, EventsMax) # young => Cardinality(Ev!Newest(young, EventsMax)) = EventsMax
  BY <1>2, NewestUpward, NewestCount
<1>5. ASSUME NEW row \in table, row \notin table', Ev!Young(row)
      PROVE  Cardinality(table') = EventsMax /\ \A other \in table' : other.id > row.id
  <2>1. row \in young /\ table' = Ev!Newest(young, EventsMax) /\ table' # young
    BY <1>1, <1>3, <1>5
  <2>2. ASSUME NEW other \in table' PROVE other.id > row.id
    <3>1. ~ (row.id >= other.id) /\ row.id \in Nat /\ other.id \in Nat
      BY <1>2, <1>4, <1>5, <2>1 DEF RowSet
    <3> QED BY <3>1
  <2> QED BY <1>4, <2>1, <2>2
<1>6. Ev!PruneKeepsNewest
  BY <1>5, SameCount DEF Ev!PruneKeepsNewest
<1> QED BY <1>1, <1>3, <1>4, <1>6

(* Fewer rows keep what holds of each.                                      *)
LEMMA PruneKeeps ==
    ASSUME EventsInv, Ev!EventLogConstants, Ev!PruneEvents
    PROVE  EventsInv'
<1>1. /\ table' \subseteq table /\ prunes < MaxPrunes /\ prunes' = prunes + 1
      /\ UNCHANGED <<logNow, emitted, sending, ch, closed, batch, writer, logDropped, failed, returned, panicked,
                     lastID, logFailures, page>>
  BY PruneLeaves DEF Ev!PruneEvents, Ev!sinkVars
<1>2. /\ EventsType /\ WriterRegular /\ IdsAreUnique /\ NumbersGrow /\ PagesSound /\ Counts /\ MaxPrunes \in Nat
  BY CountsAdd DEF EventsInv, Ev!EventLogConstants
<1>3. prunes' \in 0..MaxPrunes /\ table' \subseteq RowRecords /\ IsFiniteSet(table')
  BY <1>1, <1>2, FS_Subset DEF EventsType
<1>4. EventsType' /\ WriterRegular'
  BY <1>1, <1>2, <1>3 DEF EventsType, WriterRegular
<1>5. IdsAreUnique' /\ NumbersGrow'
  BY <1>1, <1>2 DEF IdsAreUnique, NumbersGrow, Numbered, Precedes
<1>6. PagesSound'
  <2> SUFFICES ASSUME NEW r \in Readers PROVE PageSound(page[r])'
    BY DEF PagesSound
  <2>1. PageSound(page[r])
    BY <1>2 DEF PagesSound
  <2> QED BY <1>1, <2>1 DEF PageSound, Ev!Matches
<1>7. Ev!EveryEventAccounted'
  <2>1. emitted' = lastID' + Len(ch') + Len(batch') + Cardinality(sending') + logDropped' + failed'
    BY <1>1, <1>2 DEF Counts
  <2> QED BY <2>1, SameCount DEF Ev!EveryEventAccounted
<1> QED BY <1>4, <1>5, <1>6, <1>7 DEF EventsInv

\* A page of what a query selects: all of it, or its newest down to a cursor.
PageOf(sel, next, cursor, rows) ==
    /\ rows \subseteq sel /\ next \in {"reading", "done"} /\ cursor \in Nat
    /\ next = "done" => rows = sel
    /\ next = "reading" => /\ cursor # 0 /\ \E row \in rows : row.id = cursor
                           /\ \A row \in rows : row.id >= cursor
                           /\ \A row \in sel : row.id >= cursor => row \in rows

\* What a client keeps of the page it got.
Turned(r, limit, types, next, cursor, rows) ==
    page' = [page EXCEPT ![r] =
        [state |-> next, before |-> cursor, limit |-> limit, types |-> types,
         seen |-> Append(page[r].seen, Ev!Ids(rows)),
         start |-> IF page[r].state = "idle" THEN Ev!Ids({row \in table : Ev!Matches(types, row)})
                   ELSE page[r].start]]

(* The look-ahead row tells whether an older page exists, and the cursor is *)
(* the id of the last row handed out.                                       *)
LEMMA PageTurns ==
    ASSUME EventsInv, Ev!EventLogConstants, NEW r \in Readers, NEW limit \in Nat \ {0},
           NEW types \in SUBSET Emitters, Ev!FetchPage(r, limit, types)
    PROVE  \E next, cursor : \E rows \in SUBSET table :
             /\ PageOf(Ev!Selected(page[r].before, types), next, cursor, rows)
             /\ Turned(r, limit, types, next, cursor, rows)
<1> DEFINE sel == Ev!Selected(page[r].before, types)
           want == Ev!Lowest(limit, PageMax)
           rows == Ev!Query(page[r].before, want + 1, types)
           more == Ev!Cardinality(rows) > want
           shown == IF more THEN Ev!Newest(rows, want) ELSE rows
           next == IF more THEN "reading" ELSE "done"
           cursor == IF more THEN CHOOSE id \in Ev!Ids(shown) : \A row \in shown : id <= row.id ELSE 0
<1>1. Turned(r, limit, types, next, cursor, shown)
  BY DEF Ev!FetchPage, Turned
<1>2. sel \subseteq table /\ RowSet(sel) /\ \A row \in sel : row.id # 0
  BY TableIsRowSet DEF Ev!Selected, EventsInv, EventsType, RowRecords
<1>3. want \in Nat \ {0} /\ want + 1 \in Nat /\ rows = Ev!Newest(sel, want + 1)
  <2>1. PageMax \in Nat \ {0}
    BY DEF Ev!EventLogConstants
  <2>2. want \in Nat \ {0} /\ want <= PageMax
    BY <2>1 DEF Ev!Lowest
  <2> HIDE DEF want
  <2>3. Ev!Lowest(want + 1, PageMax + 1) = want + 1
    BY <2>1, <2>2 DEF Ev!Lowest
  <2> QED BY <2>2, <2>3 DEF Ev!Query
<1> HIDE DEF sel, want, rows
<1>4. /\ rows \subseteq sel /\ RowSet(rows) /\ Cardinality(rows) \in Nat
      /\ \A a \in rows, b \in sel : b.id >= a.id => b \in rows
      /\ rows # sel => Cardinality(rows) = want + 1
  <2> DEFINE n == want + 1
  <2>1. n \in Nat /\ rows = Ev!Newest(sel, n)
    BY <1>3
  <2> HIDE DEF n
  <2>2. /\ rows \subseteq sel /\ RowSet(rows) /\ Cardinality(rows) \in Nat
        /\ \A a \in rows, b \in sel : b.id >= a.id => b \in rows
    BY <1>2, <2>1, NewestUpward
  <2>3. rows # sel => Cardinality(rows) = n
    BY <1>2, <2>1, NewestCount
  <2> QED BY <2>2, <2>3 DEF n
<1>5. /\ Ev!Newest(rows, want) \subseteq rows /\ RowSet(Ev!Newest(rows, want))
      /\ Cardinality(Ev!Newest(rows, want)) \in Nat
      /\ \A a \in Ev!Newest(rows, want), b \in rows : b.id >= a.id => b \in Ev!Newest(rows, want)
      /\ Ev!Newest(rows, want) # rows => Cardinality(Ev!Newest(rows, want)) = want
  <2>1. want \in Nat /\ RowSet(rows)
    BY <1>3, <1>4
  <2>2. /\ Ev!Newest(rows, want) \subseteq rows /\ RowSet(Ev!Newest(rows, want))
        /\ Cardinality(Ev!Newest(rows, want)) \in Nat
        /\ \A a \in Ev!Newest(rows, want), b \in rows : b.id >= a.id => b \in Ev!Newest(rows, want)
    BY <2>1, NewestUpward
  <2>3. Ev!Newest(rows, want) # rows => Cardinality(Ev!Newest(rows, want)) = want
    BY <2>1, NewestCount
  <2> QED BY <2>2, <2>3
<1>6. more <=> Cardinality(rows) > want
  BY SameCount
<1>7. shown \subseteq sel /\ shown \in SUBSET table
  BY <1>2, <1>4, <1>5
<1>8. PageOf(sel, next, cursor, shown)
  <2>1. CASE ~more
    <3>1. rows = sel
      BY <1>3, <1>4, <1>6, <2>1
    <3> QED BY <2>1, <3>1 DEF PageOf
  <2>2. CASE more
    <3>1. /\ shown = Ev!Newest(rows, want) /\ next = "reading"
          /\ cursor = CHOOSE id \in Ev!Ids(shown) : \A row \in shown : id <= row.id
      BY <2>2
    <3>2. shown # {}
      <4>1. Ev!Newest(rows, want) # {}
        <5>1. CASE Ev!Newest(rows, want) = rows
          BY <1>3, <1>6, <2>2, <5>1, FS_EmptySet
        <5>2. CASE Ev!Newest(rows, want) # rows
          BY <1>3, <1>5, <5>2, FS_EmptySet
        <5> QED BY <5>1, <5>2
      <4> QED BY <3>1, <4>1
    <3>3. Ev!Ids(shown) \in SUBSET Nat /\ Ev!Ids(shown) # {}
      BY <1>5, <3>1, <3>2 DEF RowSet, Ev!Ids
    <3>4. \E id \in Ev!Ids(shown) : \A row \in shown : id <= row.id
      <4>1. PICK m \in Ev!Ids(shown) : \A n \in Ev!Ids(shown) : m <= n
        BY <3>3, HasLeast
      <4> QED BY <4>1 DEF Ev!Ids
    <3> HIDE DEF shown, next, cursor, more
    <3>5. cursor \in Ev!Ids(shown) /\ \A row \in shown : cursor <= row.id
      BY <3>1, <3>4
    <3>6. PICK o \in shown : o.id = cursor
      BY <3>5 DEF Ev!Ids
    <3>7. cursor \in Nat /\ cursor # 0 /\ o \in sel /\ o \in rows
      <4>1. o \in rows
        BY <1>5, <3>1, <3>6
      <4>2. o \in sel
        BY <1>4, <4>1
      <4>3. o.id \in Nat /\ o.id # 0
        BY <1>2, <4>2 DEF RowSet
      <4> QED BY <3>6, <4>1, <4>2, <4>3
    <3>8. \A row \in sel : row.id >= cursor => row \in shown
      <4> SUFFICES ASSUME NEW row \in sel, row.id >= cursor PROVE row \in shown
        OBVIOUS
      <4>1. row \in rows
        BY <1>4, <3>6, <3>7
      <4> QED BY <1>5, <3>1, <3>6, <4>1
    <3>9. \A row \in shown : row.id >= cursor
      BY <1>5, <3>1, <3>5, <3>7 DEF RowSet
    <3>10. shown \subseteq sel
      BY <1>4, <1>5, <3>1
    <3> QED BY <3>1, <3>6, <3>7, <3>8, <3>9, <3>10 DEF PageOf
  <2> QED BY <2>1, <2>2
<1> HIDE DEF shown, next, cursor, more
<1> QED BY <1>1, <1>7, <1>8 DEF sel

(* Turning a page keeps what is said of the client's reading.               *)
LEMMA FetchKeeps ==
    ASSUME EventsInv, Ev!EventLogConstants, NEW r \in Readers, Ev!FirstPage(r) \/ Ev!NextPage(r)
    PROVE  EventsInv'
<1>1. UNCHANGED <<logNow, emitted, sending, ch, closed, batch, writer, logDropped, failed, returned, panicked, table,
                  lastID, logFailures, prunes>>
  BY DEF Ev!FirstPage, Ev!NextPage, Ev!sinkVars
<1>2. /\ EventsType /\ WriterRegular /\ Ev!EveryEventAccounted /\ IdsAreUnique /\ NumbersGrow /\ PagesSound
      /\ page \in [Readers -> PageRecords]
  BY DEF EventsInv, EventsType
<1> DEFINE p == page[r]
<1>3. PageSound(p) /\ p \in PageRecords
  BY <1>2 DEF PagesSound
<1>4. PICK limit \in Nat \ {0}, types \in SUBSET Emitters :
        /\ Ev!FetchPage(r, limit, types)
        /\ p.state = "idle" \/ (p.state = "reading" /\ p.types = types)
  <2>1. CASE Ev!FirstPage(r)
    <3>1. PICK limit \in 1..PageMax + 1, types \in {{}} \cup {{e} : e \in Emitters} :
            Ev!FetchPage(r, limit, types) /\ p.state = "idle"
      BY <2>1 DEF Ev!FirstPage
    <3>2. limit \in Nat \ {0} /\ types \in SUBSET Emitters
      BY DEF Ev!EventLogConstants
    <3> QED BY <3>1, <3>2
  <2>2. CASE Ev!NextPage(r)
    <3>1. Ev!FetchPage(r, p.limit, p.types) /\ p.state = "reading"
      BY <2>2 DEF Ev!NextPage
    <3>2. p.limit \in Nat \ {0} /\ p.types \in SUBSET Emitters
      BY <1>3, <3>1 DEF PageSound, PageRecords
    <3> QED BY <3>1, <3>2
  <2> QED BY <2>1, <2>2
<1> DEFINE sel == Ev!Selected(p.before, types)
           start == IF p.state = "idle" THEN Ev!Ids({row \in table : Ev!Matches(types, row)}) ELSE p.start
<1>5. \E next, cursor : \E rows \in SUBSET table :
        PageOf(Ev!Selected(page[r].before, types), next, cursor, rows) /\ Turned(r, limit, types, next, cursor, rows)
  BY <1>4, PageTurns
<1>6. PICK next, cursor : \E rows \in SUBSET table : PageOf(sel, next, cursor, rows) /\ Turned(r, limit, types, next, cursor, rows)
  BY <1>5
<1>0. PICK rows \in SUBSET table : PageOf(sel, next, cursor, rows) /\ Turned(r, limit, types, next, cursor, rows)
  BY <1>6
<1> DEFINE ids == Ev!Ids(rows)
           q == [state |-> next, before |-> cursor, limit |-> limit, types |-> types,
                 seen |-> Append(p.seen, ids), start |-> start]
<1>7. /\ next \in {"reading", "done"} /\ cursor \in Nat /\ ids \in SUBSET Nat /\ start \in SUBSET Nat
      /\ \A a \in start : a <= lastID
  <2>1. \A row \in table : row.id \in Nat /\ row.id <= lastID
    BY <1>2 DEF EventsType, IdsAreUnique, RowRecords
  <2>2. next \in {"reading", "done"} /\ cursor \in Nat /\ ids \in SUBSET Nat
    BY <1>0, <2>1 DEF PageOf, Ev!Ids
  <2>3. start \in SUBSET Nat
    BY <1>3, <2>1 DEF PageRecords, Ev!Ids
  <2>4. \A a \in start : a <= lastID
    BY <1>3, <2>1 DEF PageSound, Ev!Ids
  <2> QED BY <2>2, <2>3, <2>4
<1>8. /\ p.seen \in Seq(SUBSET Nat) /\ Len(p.seen) \in Nat
      /\ q.seen \in Seq(SUBSET Nat) /\ Len(q.seen) = Len(p.seen) + 1
      /\ \A i \in 1..Len(p.seen) : q.seen[i] = p.seen[i] /\ i \in 1..Len(q.seen)
      /\ q.seen[Len(p.seen) + 1] = ids /\ Len(p.seen) + 1 \in 1..Len(q.seen)
      /\ \A i \in 1..Len(q.seen) : i \in 1..Len(p.seen) \/ i = Len(p.seen) + 1
  <2>1. p.seen \in Seq(SUBSET Nat)
    BY <1>3 DEF PageRecords
  <2>2. /\ Append(p.seen, ids) \in Seq(SUBSET Nat) /\ Len(Append(p.seen, ids)) = Len(p.seen) + 1 /\ Len(p.seen) \in Nat
        /\ \A i \in 1..Len(p.seen) : Append(p.seen, ids)[i] = p.seen[i]
        /\ Append(p.seen, ids)[Len(p.seen) + 1] = ids
    <3> HIDE DEF p, ids
    <3> QED BY <1>7, <2>1, Added
  <2> HIDE DEF p, ids
  <2> QED BY <2>1, <2>2
<1>9. /\ page' = [page EXCEPT ![r] = q] /\ q \in PageRecords /\ q.state = next /\ q.before = cursor /\ q.types = types
      /\ q.start = start /\ q.limit = limit
  BY <1>4, <1>0, <1>7, <1>8 DEF PageRecords, Turned
<1>10. \A a \in ids : \E row \in sel : row \in rows /\ row.id = a /\ row.id \in Nat /\ (p.before = 0 \/ row.id < p.before)
  BY <1>2, <1>0 DEF PageOf, Ev!Ids, Ev!Selected, EventsType, RowRecords
<1> HIDE DEF q, start, sel, ids
<1>11. PageSound(q)
  <2>1. q.state # "idle" /\ (q.state = "reading" => q.before # 0 /\ q.limit # 0)
    BY <1>4, <1>0, <1>7, <1>9 DEF PageOf
  <2>2. \A i \in 1..Len(p.seen) : \A a \in p.seen[i], b \in ids : a > b /\ a \in Nat /\ b \in Nat
    <3> SUFFICES ASSUME NEW i \in 1..Len(p.seen), NEW a \in p.seen[i], NEW b \in ids
                 PROVE  a > b /\ a \in Nat /\ b \in Nat
      OBVIOUS
    <3>1. p.state = "reading" /\ p.before # 0 /\ a >= p.before
      BY <1>3, <1>4 DEF PageSound
    <3>2. p.seen[i] \in SUBSET Nat
      BY <1>8, ElementOfSeq
    <3>3. a \in Nat /\ b \in Nat /\ p.before \in Nat
      BY <1>3, <1>7, <3>2 DEF PageRecords
    <3>4. b < p.before
      BY <1>10, <3>1
    <3> QED BY <3>1, <3>3, <3>4
  <2>3. \A i, j \in 1..Len(q.seen) : i < j => \A a \in q.seen[i], b \in q.seen[j] : a > b
    <3> SUFFICES ASSUME NEW i \in 1..Len(q.seen), NEW j \in 1..Len(q.seen), i < j,
                        NEW a \in q.seen[i], NEW b \in q.seen[j]
                 PROVE  a > b
      OBVIOUS
    <3>1. i \in 1..Len(p.seen) /\ q.seen[i] = p.seen[i]
      BY <1>8
    <3>2. CASE j = Len(p.seen) + 1
      BY <1>8, <2>2, <3>1, <3>2
    <3>3. CASE j \in 1..Len(p.seen)
      BY <1>3, <1>8, <3>1, <3>3 DEF PageSound
    <3> QED BY <1>8, <3>2, <3>3
  <2>4. ASSUME q.state = "reading" PROVE \A i \in 1..Len(q.seen) : \A a \in q.seen[i] : a >= q.before
    <3> SUFFICES ASSUME NEW i \in 1..Len(q.seen), NEW a \in q.seen[i] PROVE a >= cursor
      BY <1>9
    <3>1. \A b \in ids : b >= cursor
      BY <1>0, <1>9, <1>10, <2>4 DEF PageOf
    <3>2. CASE i = Len(p.seen) + 1
      BY <1>8, <3>1, <3>2
    <3>3. CASE i \in 1..Len(p.seen)
      <4>1. PICK row \in rows : row.id = cursor
        BY <1>0, <1>9, <2>4 DEF PageOf
      <4>2. cursor \in ids
        BY <4>1 DEF ids, Ev!Ids
      <4>3. a > cursor /\ a \in Nat /\ cursor \in Nat
        BY <1>8, <2>2, <3>3, <4>2
      <4> QED BY <4>3
    <3> QED BY <1>8, <3>2, <3>3
  <2>5. \A row \in table : row.id \in q.start =>
           /\ Ev!Matches(q.types, row)
           /\ (\E i \in 1..Len(q.seen) : row.id \in q.seen[i]) \/ (q.state = "reading" /\ row.id < q.before)
    <3> SUFFICES ASSUME NEW row \in table, row.id \in start
                 PROVE  /\ Ev!Matches(types, row)
                        /\ (\E i \in 1..Len(q.seen) : row.id \in q.seen[i]) \/ (next = "reading" /\ row.id < cursor)
      BY <1>9
    <3>1. Ev!Matches(types, row)
      <4>1. CASE p.state = "idle"
        <5>1. PICK other \in table : Ev!Matches(types, other) /\ other.id = row.id
          BY <4>1 DEF start, Ev!Ids
        <5> QED BY <1>2, <5>1 DEF IdsAreUnique
      <4>2. CASE p.state = "reading" /\ p.types = types
        BY <1>3, <4>2 DEF PageSound, start
      <4> QED BY <1>4, <4>1, <4>2
    <3>2. row.id \in Nat /\ cursor \in Nat
      BY <1>2, <1>7 DEF EventsType, RowRecords
    <3>3. (\E i \in 1..Len(p.seen) : row.id \in p.seen[i]) \/ row \in sel
      <4>1. CASE p.state = "idle"
        BY <1>3, <3>1, <4>1 DEF PageSound, sel, Ev!Selected
      <4>2. CASE p.state = "reading" /\ p.types = types
        BY <1>3, <3>1, <4>2 DEF PageSound, start, sel, Ev!Selected
      <4> QED BY <1>4, <4>1, <4>2
    <3>4. CASE \E i \in 1..Len(p.seen) : row.id \in p.seen[i]
      <4>1. PICK i \in 1..Len(p.seen) : row.id \in p.seen[i]
        BY <3>4
      <4>2. i \in 1..Len(q.seen) /\ row.id \in q.seen[i]
        BY <1>8, <4>1
      <4> QED BY <3>1, <4>2
    <3>5. CASE row \in sel
      <4>1. CASE row \in rows
        <5>1. row.id \in ids
          BY <4>1 DEF ids, Ev!Ids
        <5>2. Len(p.seen) + 1 \in 1..Len(q.seen) /\ row.id \in q.seen[Len(p.seen) + 1]
          BY <1>8, <5>1
        <5> QED BY <3>1, <5>2
      <4>2. CASE row \notin rows
        <5>1. next = "reading" /\ ~ (row.id >= cursor)
          BY <1>0, <3>5, <4>2 DEF PageOf
        <5>2. row.id < cursor
          BY <3>2, <5>1
        <5> QED BY <3>1, <5>1, <5>2
      <4> QED BY <4>1, <4>2
    <3> QED BY <3>1, <3>3, <3>4, <3>5
  <2> QED BY <1>7, <1>9, <2>1, <2>3, <2>4, <2>5 DEF PageSound
<1>12. PagesSound'
  <2> SUFFICES ASSUME NEW s \in Readers PROVE PageSound(page[s])'
    BY DEF PagesSound
  <2>1. (page'[s] = q \/ page'[s] = page[s]) /\ PageSound(page[s])
    BY <1>2, <1>9 DEF PagesSound
  <2> QED BY <1>1, <1>11, <2>1 DEF PageSound, Ev!Matches
<1>13. EventsType'
  <2>1. page' \in [Readers -> PageRecords]
    BY <1>2, <1>9
  <2> QED BY <1>1, <1>2, <2>1 DEF EventsType
<1>14. WriterRegular' /\ IdsAreUnique' /\ NumbersGrow'
  BY <1>1, <1>2 DEF WriterRegular, IdsAreUnique, NumbersGrow, Numbered, Precedes
<1>15. Ev!EveryEventAccounted'
  BY <1>1, <1>2, SameCount DEF Ev!EveryEventAccounted
<1> QED BY <1>12, <1>13, <1>14, <1>15 DEF EventsInv

(* Every step of the history keeps the invariant.                           *)
LEMMA EventsKeeps ==
    ASSUME EventsInv, Ev!EventLogConstants, Ev!Next \/ UNCHANGED eventsVars
    PROVE  EventsInv'
<1>1. CASE Ev!Close \/ Ev!CloseReturns \/ Ev!Tick \/ UNCHANGED eventsVars
  BY <1>1, CloseKeeps
<1>2. CASE \E e \in Emitters : Ev!EmitCheck(e) \/ Ev!EmitSend(e)
  BY <1>2, CheckKeeps, SendKeeps
<1>3. CASE Ev!WriterReceive \/ Ev!WriterFill
  BY <1>3, WriterKeeps
<1>4. CASE \E ok \in BOOLEAN : Ev!AppendEvents(ok)
  <2>1. PICK ok \in BOOLEAN : Ev!AppendEvents(ok)
    BY <1>4, Zenon
  <2> QED BY <2>1, AppendKeeps
<1>5. CASE Ev!PruneEvents
  BY <1>5, PruneKeeps
<1>6. CASE \E r \in Readers : Ev!FirstPage(r) \/ Ev!NextPage(r)
  BY <1>6, FetchKeeps
<1> QED BY <1>1, <1>2, <1>3, <1>4, <1>5, <1>6 DEF Ev!Next, Ev!Writer

(* No step but the retention's takes a row away.                            *)
LEMMA RowsGoByPruning ==
    ASSUME EventsInv, Ev!EventLogConstants, Ev!Next \/ UNCHANGED eventsVars
    PROVE  Ev!PruneKeepsNewest
<1>1. Ev!PruneEvents \/ table \subseteq table'
  <2>1. CASE \E ok \in BOOLEAN : Ev!AppendEvents(ok)
    <3>1. PICK ok \in BOOLEAN : Ev!AppendEvents(ok)
      BY <2>1, Zenon
    <3>2. table' = table \/ \E new : table' = table \cup new
      BY <3>1 DEF Ev!AppendEvents
    <3> QED BY <3>2
  <2>2. CASE ~(\E ok \in BOOLEAN : Ev!AppendEvents(ok)) /\ ~Ev!PruneEvents
    <3>1. table' = table
      BY <2>2 DEF Ev!Next, Ev!Writer, eventsVars, Ev!EmitCheck, Ev!EmitSend, Ev!Close, Ev!CloseReturns, Ev!WriterReceive,
                  Ev!WriterFill, Ev!Tick, Ev!FirstPage, Ev!NextPage
    <3> QED BY <3>1
  <2> QED BY <2>1, <2>2
<1>2. CASE table \subseteq table'
  BY <1>2 DEF Ev!PruneKeepsNewest
<1>3. CASE Ev!PruneEvents
  BY <1>3, PruneLeaves
<1> QED BY <1>1, <1>2, <1>3

(* What the invariant says of the events and of the clients.                *)
LEMMA KeptAndWhole ==
    EventsInv => /\ Ev!TypeOK /\ Ev!EveryEventAccounted /\ Ev!EmissionOrder
                 /\ Ev!NoSendOnClosed /\ Ev!CloseFlushes
                 /\ Ev!PagesAreComplete
<1> SUFFICES ASSUME EventsInv
             PROVE  /\ Ev!TypeOK /\ Ev!EveryEventAccounted /\ Ev!EmissionOrder
                    /\ Ev!NoSendOnClosed /\ Ev!CloseFlushes
                    /\ Ev!PagesAreComplete
  OBVIOUS
<1>1. /\ EventsType /\ WriterRegular /\ IdsAreUnique /\ NumbersGrow /\ PagesSound /\ Counts
      /\ BufferSize \in Nat /\ MaxBatch \in Nat /\ MaxEmits \in Nat /\ Ev!EveryEventAccounted
  BY ConstantsAssumption, CountsAdd DEF EventsInv, Ev!EventLogConstants
<1>2. Ev!TypeOK
  <2>1. Len(ch) \in 0..BufferSize /\ Len(batch) \in 0..MaxBatch
    BY <1>1 DEF EventsType, Counts
  <2>2. logDropped \in 0..MaxEmits /\ failed \in 0..MaxEmits /\ lastID \in 0..MaxEmits
    <3>1. emitted <= MaxEmits
      BY <1>1 DEF EventsType
    <3> QED BY <1>1, <3>1 DEF Counts
  <2>3. Ev!Ids(table) \subseteq 1..lastID
    <3>1. \A row \in table : row.id \in Nat \ {0} /\ row.id <= lastID /\ lastID \in Nat
      BY <1>1 DEF EventsType, IdsAreUnique, RowRecords
    <3>2. \A row \in table : row.id \in 1..lastID
      BY <3>1
    <3> QED BY <3>2 DEF Ev!Ids
  <2>4. {closed, returned, panicked} \subseteq BOOLEAN
    BY <1>1, Zenon DEF EventsType
  <2> QED BY <1>1, <2>1, <2>2, <2>3, <2>4 DEF Ev!TypeOK, EventsType
<1>3. Ev!EmissionOrder
  BY <1>1 DEF Ev!EmissionOrder, NumbersGrow, Precedes
<1>4. Ev!NoSendOnClosed /\ Ev!CloseFlushes
  BY <1>1 DEF Ev!NoSendOnClosed, Ev!CloseFlushes, WriterRegular, EventsType
<1>5. Ev!PagesAreComplete
  <2> SUFFICES ASSUME NEW r \in Readers
               PROVE  /\ \A i, j \in 1..Len(page[r].seen) :
                           i < j => \A a \in page[r].seen[i], b \in page[r].seen[j] : a > b
                      /\ page[r].state = "done" =>
                           page[r].start \cap Ev!Ids(table) \subseteq UNION {page[r].seen[i] : i \in 1..Len(page[r].seen)}
    BY DEF Ev!PagesAreComplete
  <2>1. PageSound(page[r])
    BY <1>1 DEF PagesSound
  <2>2. ASSUME page[r].state = "done", NEW a \in page[r].start, a \in Ev!Ids(table)
        PROVE  \E i \in 1..Len(page[r].seen) : a \in page[r].seen[i]
    <3>1. PICK row \in table : row.id = a
      BY <2>2 DEF Ev!Ids
    <3> QED BY <2>1, <2>2, <3>1 DEF PageSound
  <2> QED BY <2>1, <2>2 DEF PageSound
<1> QED BY <1>1, <1>2, <1>3, <1>4, <1>5

EventsPartInv == part = "events" => EventsInv

(* The history starts as the invariant says, and every step keeps that and  *)
(* takes rows away only as the retention may.                               *)
LEMMA HistoryKept ==
    /\ Init => EventsPartInv
    /\ EventsPartInv /\ [Next]_vars =>
         EventsPartInv' /\ (part = "events" => Ev!PagesAreComplete' /\ Ev!PruneKeepsNewest)
<1>1. Init => EventsPartInv
  BY EventsStart, ConstantsAssumption DEF Init, EventsPartInv
<1>2. EventsPartInv /\ [Next]_vars =>
        EventsPartInv' /\ (part = "events" => Ev!PagesAreComplete' /\ Ev!PruneKeepsNewest)
  <2> SUFFICES ASSUME EventsPartInv, [Next]_vars, part' = "events"
               PROVE  EventsInv' /\ Ev!PagesAreComplete' /\ Ev!PruneKeepsNewest
    BY DEF EventsPartInv, Next, SvMoves, TlMoves, RsMoves, EvMoves, vars
  <2>1. part = "events" /\ EventsInv /\ Ev!EventLogConstants
    BY ConstantsAssumption DEF EventsPartInv, Next, SvMoves, TlMoves, RsMoves, EvMoves, vars
  <2>2. Ev!Next \/ UNCHANGED eventsVars
    BY <2>1 DEF Next, SvMoves, TlMoves, RsMoves, EvMoves, vars
  <2>3. EventsInv'
    BY <2>1, <2>2, EventsKeeps
  <2>4. Ev!PagesAreComplete'
    BY <2>3, KeptAndWhole, PTL
  <2> QED BY <2>1, <2>2, <2>3, <2>4, RowsGoByPruning
<1> QED BY <1>1, <1>2

(* However emitters, writer, failing transactions, the retention and Close  *)
(* interleave: every event is stored, on its way, dropped or failed and     *)
(* counted as such, an emitter's events are stored in the order it emitted  *)
(* them, no send meets the closed channel and Close leaves nothing behind   *)
(* (Emit, run, AppendEvents, Close).                                        *)
THEOREM EventsKept == Spec => []EventsAreKept
<1>1. EventsPartInv => EventsAreKept
  BY KeptAndWhole DEF EventsPartInv, EventsAreKept
<1> QED BY <1>1, HistoryKept, PTL DEF Spec

(* However many clients page through the history while it grows and is      *)
(* pruned: none sees an event twice, one that reached the end has seen      *)
(* every event it started with that is still there, and the retention       *)
(* takes an event that is young only when as many newer ones remain as it   *)
(* is to keep (Events, handler.events, PruneEvents).                        *)
THEOREM PagesWhole == Spec => PagesAreWhole
  BY HistoryKept, PTL DEF Spec, PagesAreWhole

=============================================================================
