------------------------------ MODULE TlsCert ------------------------------
(***************************************************************************)
(* The certificate of the inference listener (src/internal/tlscert): two   *)
(* files that a renewal replaces one after the other, re-read when their   *)
(* modification times change; a self-signed pair the service generates;    *)
(* or the Windows certificate store. Checks are 30 seconds apart and a     *)
(* load is quicker than that, so one load runs at a time.                  *)
(***************************************************************************)
EXTENDS Naturals, FiniteSets

CONSTANTS Sources,           \* tls.source: files, self_signed or store
          Pairs, Validity,   \* certificate/key pairs a renewal installs; from when until when one is in force
          StoreCerts,        \* certificates that may be in the store: id, from, until, match, server, key
          MaxWrites, MaxNow, MaxCrashes

\* What the values of the constants have to satisfy.
TlsAssumption ==
    /\ Sources \subseteq {"files", "self_signed", "store"} /\ Pairs \subseteq Nat \ {0}
    /\ Validity \in [Pairs -> [from : Nat, until : Nat]]
    /\ {MaxWrites, MaxNow, MaxCrashes} \subseteq Nat
    /\ \A c \in StoreCerts : /\ {c.id, c.from, c.until} \subseteq Nat /\ {c.match, c.server, c.key} \subseteq BOOLEAN
                           /\ c.id # 0 /\ \A d \in StoreCerts : c.id = d.id => c = d

Files == {"cert", "key"}

VARIABLES file,      \* [file -> the pair it belongs to (0: missing) and its modification time]
          served,    \* the certificate and the key served, 0 before the first load
          mtimes,    \* Manager.mtimes
          pc,        \* down, keygen, certgen, serve, cert and key (reading), stat and stat2, fail and fail2
          got,       \* what the load has read
          problems,  \* certificate problems reported since the start
          writes,    \* writes to the two files, also the clock of their times
          store, clock, crashes,
          source,    \* as configured; it does not change
          unseen     \* ghost: files written after the load had read them, or read too early

vars == <<file, served, mtimes, pc, got, problems, writes, store, clock, crashes, source, unseen>>
unread == <<store, clock, crashes, source>>

None == [f \in Files |-> 0]

Init ==
    /\ source \in Sources
    /\ file \in [Files -> {[pair |-> i, time |-> 0] : i \in IF source = "store" THEN {0} ELSE Pairs \cup {0}}]
    /\ served = None /\ mtimes = None /\ pc = "down" /\ got = None
    /\ problems = 0 /\ writes = 0 /\ store \in (IF source = "store" THEN SUBSET StoreCerts ELSE {{}}) /\ clock = 0 /\ crashes = 0
    /\ unseen = {}

\* The load has read the file and not yet taken its time.
ReadNotTimed(f) == pc \in (IF f = "cert" THEN {"key", "stat", "fail"} ELSE {"stat", "stat2", "fail", "fail2"})

\* A renewal replaces one file, then the other, in either order and at any time.
Renew ==
    /\ source = "files" /\ writes < MaxWrites
    /\ writes' = writes + 1
    /\ \E f \in Files, i \in Pairs :
         /\ i # file[f].pair /\ file' = [file EXCEPT ![f] = [pair |-> i, time |-> writes']]
         /\ unseen' = IF ReadNotTimed(f) THEN unseen \cup {f} ELSE unseen \ {f}
    /\ UNCHANGED <<served, mtimes, pc, got, problems, unread>>

\* Certificates come into force and expire. A load is quicker than that.
Pass ==
    /\ source # "store" /\ pc \in {"down", "serve"} /\ clock < MaxNow /\ clock' = clock + 1
    /\ UNCHANGED <<file, served, mtimes, pc, got, problems, writes, store, crashes, source, unseen>>

InForce(i) == i \in Pairs /\ Validity[i].from <= clock /\ clock <= Validity[i].until

\* loadPair: the halves belong together and the certificate is in force.
Loads(p) == p["cert"] = p["key"] /\ InForce(p["cert"])
OnDisk == [f \in Files |-> file[f].pair]

\* A generated certificate, and one that is kept, is not about to expire.
Lasts(i) == InForce(i) /\ clock < Validity[i].until

\* ensureSelfSigned keeps a pair that loads, lasts and covers the hosts.
Usable == Loads(OnDisk) /\ Lasts(file["cert"].pair)

\* New.
New ==
    /\ pc = "down" /\ source # "store"
    /\ pc' = IF source = "self_signed" /\ ~Usable THEN "keygen" ELSE "cert"
    /\ served' = None /\ problems' = 0
    /\ UNCHANGED <<file, mtimes, got, writes, unread, unseen>>

\* The generated key is written, then its certificate.
Generate(f, from, to) ==
    /\ pc = from /\ pc' = to /\ writes' = writes + 1
    /\ \E i \in Pairs : /\ IF f = "cert" THEN i = file["key"].pair ELSE Lasts(i) /\ i # file["cert"].pair
                        /\ file' = [file EXCEPT ![f] = [pair |-> i, time |-> writes']]
    /\ UNCHANGED <<served, mtimes, got, problems, unread, unseen>>

\* Mutant: only the certificate file is watched.
filesChanged_CertOnly == file["cert"].time # mtimes["cert"]

filesChanged == \E f \in Files : file[f].time # mtimes[f]

\* current, at a handshake 30 seconds after the last check.
Check ==
    /\ pc = "serve" /\ source # "store" /\ filesChanged /\ pc' = "cert"
    /\ UNCHANGED <<file, served, mtimes, got, problems, writes, unread, unseen>>

\* tls.LoadX509KeyPair reads one file and then the other.
ReadCert ==
    /\ pc = "cert" /\ pc' = "key" /\ got' = [got EXCEPT !["cert"] = file["cert"].pair]
    /\ unseen' = IF InForce(got'["cert"]) THEN unseen \ {"cert"} ELSE unseen \cup {"cert"}
    /\ UNCHANGED <<file, served, mtimes, problems, writes, unread>>

ReadKey ==
    /\ pc = "key" /\ got' = [got EXCEPT !["key"] = file["key"].pair]
    /\ pc' = IF Loads(got') THEN "stat" ELSE IF served = None THEN "down" ELSE "fail"
    /\ unseen' = unseen \ {"key"}
    /\ UNCHANGED <<file, served, mtimes, problems, writes, unread>>

\* statFiles: the times of the files as they are now.
Stat(f, from, to) ==
    /\ pc = from /\ pc' = to
    /\ mtimes' = [mtimes EXCEPT ![f] = file[f].time]
    /\ UNCHANGED <<file, served, got, problems, writes, unread, unseen>>

\* Mutant: the certificate that was read is installed with whatever key.
Install_Blindly ==
    /\ pc \in {"stat2", "fail2"} /\ pc' = "serve" /\ served' = got
    /\ mtimes' = [mtimes EXCEPT !["key"] = file["key"].time]
    /\ problems' = problems + (IF pc = "fail2" THEN 1 ELSE 0)
    /\ UNCHANGED <<file, got, writes, unread, unseen>>

\* load installs the pair; a failed load keeps the previous one, and the
\* problem is reported.
Install ==
    /\ pc \in {"stat2", "fail2"} /\ pc' = "serve"
    /\ served' = IF pc = "stat2" THEN got ELSE served
    /\ mtimes' = [mtimes EXCEPT !["key"] = file["key"].time]
    /\ problems' = problems + (IF pc = "fail2" THEN 1 ELSE 0)
    /\ UNCHANGED <<file, got, writes, unread, unseen>>

\* A failed load does not look at the same files again.
Keep == mtimes' = [mtimes EXCEPT !["cert"] = file["cert"].time]

LoadFailed ==
    /\ pc = "fail" /\ pc' = "fail2" /\ Keep
    /\ UNCHANGED <<file, served, got, problems, writes, unread, unseen>>

-----------------------------------------------------------------------------
(* The certificate store.                                                  *)

\* Certificates are enrolled and removed; time passes.
Enrol ==
    /\ source = "store" /\ clock < MaxNow /\ clock' = clock + 1 /\ store' \in SUBSET StoreCerts
    /\ UNCHANGED <<file, served, mtimes, pc, got, problems, writes, crashes, source, unseen>>

\* matchesSubject or the thumbprint, usableForServer, hasPrivateKey, in force.
Serves(c) == c \in store /\ c.match /\ c.server /\ c.key /\ c.from <= clock /\ clock <= c.until

\* storeCertificate: the match that lasts longest.
Newest(c) == Serves(c) /\ \A d \in StoreCerts : Serves(d) => d.until <= c.until

\* New and currentStore: when nothing in the store serves, the certificate in
\* use is kept (at the start: there is none, and TLS cannot start).
LoadStore ==
    /\ source = "store" /\ pc \in {"down", "serve"}
    /\ \/ \E c \in StoreCerts : Newest(c) /\ served' = [f \in Files |-> c.id] /\ pc' = "serve" /\ UNCHANGED problems
       \/ /\ ~\E c \in StoreCerts : Serves(c)
          /\ served' = served /\ pc' = pc /\ problems' = IF pc = "serve" THEN 1 ELSE 0
    /\ UNCHANGED <<file, mtimes, got, writes, unread, unseen>>

Crash ==
    /\ pc # "down" /\ crashes < MaxCrashes /\ crashes' = crashes + 1
    /\ pc' = "down" /\ served' = None /\ mtimes' = None /\ problems' = 0
    /\ UNCHANGED <<file, got, writes, store, clock, source, unseen>>

Manager == New \/ Check \/ ReadCert \/ ReadKey \/ Stat("cert", "stat", "stat2") \/ LoadFailed \/ Install
           \/ Generate("key", "keygen", "certgen") \/ Generate("cert", "certgen", "cert")

Next == Renew \/ Pass \/ Manager \/ Enrol \/ LoadStore \/ Crash

\* Handshakes keep coming, and a load that has begun goes on.
Spec == Init /\ [][Next]_vars /\ WF_vars(Manager)

-----------------------------------------------------------------------------
(* Properties.                                                             *)

\* The listener never serves a mixed pair, and never takes up one that is not
\* in force, although a renewal replaces the two files one after the other, also
\* while they are being read (load, current).
ServedIsWhole == source # "store" => served = None \/ served["cert"] = served["key"]
TakenUpInForce == source # "store" /\ served' # served => served' = None \/ Loads(served')

\* A bad renewal is reported once: no more problems than the files changed
\* (current, "do not retry (or warn again) until the files change once more").
WarnedOnce == source = "files" => problems <= writes

\* A renewed pair of files that stays in place is served in the end, also when
\* a check came between its two files (tlscert.go, "a renewed certificate takes
\* effect without restarting the service"): if a load read it after it was
\* written and when it was in force. A file written after the load has read it
\* and before the load takes its time is not looked at again, nor is a pair that
\* comes into force after it was read; the comment has no such exception.
RenewalTakesEffect ==
    <>[](source = "files" /\ served # None /\ unseen = {} /\ Loads(OnDisk) => served = OnDisk)

\* A crash between the two writes of a generated pair never keeps the next
\* start from serving: with room to write again, a self-signed service serves
\* (ensureSelfSigned).
SelfSignedServes == source = "self_signed" => <>[](pc = "serve")

\* What is served from the store is never given up for one that ends sooner,
\* unless it is no longer there or no longer in force (storeCertificate).
StoreNeverWorse ==
    \A c, d \in StoreCerts :
       source = "store" /\ served["cert"] = c.id /\ served'["cert"] = d.id /\ c # d /\ pc = "serve" => ~Serves(c) \/ c.until <= d.until
=============================================================================
