---------------------------- MODULE KeyPairProofs ----------------------------
(***************************************************************************)
(* The files of the key pair, for any number of starts, crashes and failed *)
(* writes.                                                                 *)
(*                                                                         *)
(* CertificateLasts needs to know what a start that writes may overwrite:  *)
(* it has found no key, so nobody has served yet (FilesInv), and what it   *)
(* opens in the end is in both files.                                      *)
(***************************************************************************)
EXTENDS Tracker, TLAPS

Writing == {"cert", "certdata", "key", "keydata", "remove"}

FilesInv ==
    /\ certFile.state = "whole" => certFile.pair \in 1 .. starts
    /\ opening \in Writing => served = {}
    /\ opening \in Writing \cup {"opened"} => keyPair \in 1 .. starts
    /\ opening \in {"key", "keydata", "opened"} => certFile = Whole(keyPair)
    /\ opening = "opened" => keyFile = Whole(keyPair)
    /\ opening \in {"cert", "certdata", "key"} => keyFile = Absent
    /\ opening = "keydata" => keyFile = Torn
    /\ CertificateLasts

KeyInv ==
    /\ KeyPairTypeOK
    /\ starts \in 1 .. MaxStarts
    /\ served \subseteq 1 .. starts
    /\ FilesInv

-----------------------------------------------------------------------------
(* What the three kinds of files look like.                                 *)
LEMMA FileKinds ==
    ASSUME NEW p \in Nat
    PROVE  /\ {Absent, Torn, Whole(p)} \subseteq File
           /\ Absent.state = "absent" /\ Torn.state = "torn"
           /\ Whole(p).state = "whole" /\ Whole(p).pair = p
           /\ Whole(p) # Absent
BY DEF File, Absent, Torn, Whole

(* A file that is whole is that of the pair it holds.                       *)
LEMMA WholeFile ==
    ASSUME NEW f \in File, f.state = "whole"
    PROVE  f = Whole(f.pair)
BY DEF File, Whole

LEMMA KeyInit ==
    ASSUME TrackerAssumption, Init
    PROVE  KeyInv
<1>1. KeyPairTypeOK
  <2>1. Absent \in File
    BY FileKinds
  <2> QED
    BY <2>1 DEF Init, KeyPairInit, KeyPairTypeOK
<1>2. starts \in 1 .. MaxStarts /\ served = {}
  BY DEF Init, TrackerAssumption
<1>3. FilesInv
  BY <1>2, FileKinds DEF Init, KeyPairInit, FilesInv, CertificateLasts, Writing
<1> QED
  BY <1>1, <1>2, <1>3 DEF KeyInv

(* Opening the pair.  One that is generated is found by no tracker that     *)
(* has served: the key it served with would be in the file.                 *)
LEMMA OpenKeeps ==
    ASSUME KeyInv, OpenRPCKeyPair(starts), UNCHANGED lifeVars
    PROVE  KeyInv'
<1>1. /\ UNCHANGED <<certFile, keyFile, starts, served>>
      /\ starts \in 1 .. MaxStarts /\ starts \in Nat
  BY DEF OpenRPCKeyPair, fileVars, lifeVars, KeyInv
<1>2. CASE keyFile = Absent /\ keyPair' = starts /\ opening' = "cert"
  <2>1. served = {}
    <3> SUFFICES ASSUME NEW p \in served
                 PROVE  FALSE
      OBVIOUS
    <3>1. p \in Nat /\ keyFile = Whole(p)
      BY <1>1 DEF KeyInv, FilesInv, CertificateLasts
    <3> QED
      BY <1>2, <3>1, FileKinds
  <2>2. FilesInv'
    BY <1>1, <1>2, <2>1 DEF KeyInv, FilesInv, CertificateLasts, Writing
  <2>3. KeyPairTypeOK'
    BY <1>1, <1>2 DEF KeyInv, KeyPairTypeOK
  <2> QED
    BY <1>1, <2>2, <2>3 DEF KeyInv
<1>3. CASE Matching /\ keyPair' = certFile.pair /\ opening' = "opened"
  <2>1. /\ certFile = Whole(keyPair') /\ keyFile = Whole(keyPair')
        /\ keyPair' \in 1 .. starts
    BY <1>3, WholeFile DEF Matching, KeyInv, FilesInv, KeyPairTypeOK
  <2>2. FilesInv'
    BY <1>1, <1>3, <2>1 DEF KeyInv, FilesInv, CertificateLasts, Writing
  <2>3. KeyPairTypeOK'
    BY <1>1, <1>3, <2>1 DEF KeyInv, KeyPairTypeOK
  <2> QED
    BY <1>1, <2>2, <2>3 DEF KeyInv
<1>4. CASE Fails /\ UNCHANGED keyPair
  BY <1>1, <1>4 DEF Fails, KeyInv, FilesInv, CertificateLasts, Writing, KeyPairTypeOK
<1> QED
  BY <1>2, <1>3, <1>4 DEF OpenRPCKeyPair

(* The writes: nobody has served, so no certificate is lost.                *)
LEMMA WriteKeeps ==
    ASSUME KeyInv, UNCHANGED lifeVars,
           TruncateCert \/ WriteCert \/ TruncateKey \/ WriteKey \/ RemoveCert
    PROVE  KeyInv'
<1>1. /\ opening \in Writing /\ served = {} /\ keyPair \in 1 .. starts
      /\ starts \in 1 .. MaxStarts
  BY DEF TruncateCert, WriteCert, TruncateKey, WriteKey, RemoveCert, KeyInv, FilesInv,
     Writing
<1>2. /\ UNCHANGED <<keyPair, starts, served>> /\ keyPair \in Nat
  BY <1>1 DEF TruncateCert, WriteCert, TruncateKey, WriteKey, RemoveCert, lifeVars
<1>3. /\ {Absent, Torn, Whole(keyPair)} \subseteq File
      /\ Absent.state = "absent" /\ Torn.state = "torn"
      /\ Whole(keyPair).state = "whole" /\ Whole(keyPair).pair = keyPair
  BY <1>2, FileKinds
<1>4. /\ certFile' \in {certFile, Absent, Torn, Whole(keyPair)}
      /\ keyFile' \in {keyFile, Torn, Whole(keyPair)}
      /\ opening' \in Writing \cup {"opened", "failed"}
  BY DEF TruncateCert, WriteCert, TruncateKey, WriteKey, RemoveCert, Writing, Fails
<1>5. KeyPairTypeOK'
  BY <1>2, <1>3, <1>4 DEF KeyInv, KeyPairTypeOK, Writing
<1>6. certFile'.state = "whole" => certFile'.pair \in 1 .. starts
  BY <1>1, <1>3, <1>4 DEF KeyInv, FilesInv
<1>7. opening' \in {"key", "keydata", "opened"} => certFile' = Whole(keyPair)
  BY DEF TruncateCert, WriteCert, TruncateKey, WriteKey, RemoveCert, Fails, KeyInv, FilesInv
<1>8. opening' = "opened" => keyFile' = Whole(keyPair)
  BY DEF TruncateCert, WriteCert, TruncateKey, WriteKey, RemoveCert, Fails
<1>9. opening' \in {"cert", "certdata", "key"} => keyFile' = Absent
  BY DEF TruncateCert, WriteCert, TruncateKey, WriteKey, RemoveCert, Fails, KeyInv, FilesInv
<1>10. opening' = "keydata" => keyFile' = Torn
  BY DEF TruncateCert, WriteCert, TruncateKey, WriteKey, RemoveCert, Fails
<1> QED
  BY <1>1, <1>2, <1>5, <1>6, <1>7, <1>8, <1>9, <1>10 DEF KeyInv, FilesInv, CertificateLasts

-----------------------------------------------------------------------------
(* Steps that are not about the key pair.                                   *)
LEMMA KeyUntouched ==
    ASSUME KeyInv, UNCHANGED <<keyPairVars, lifeVars>>
    PROVE  KeyInv'
BY DEF KeyInv, keyPairVars, fileVars, lifeVars, KeyPairTypeOK, FilesInv, CertificateLasts

(* A start that begins knows the files and nothing else.                    *)
LEMMA KeyMemoryLost ==
    ASSUME KeyInv, MemoryLost, UNCHANGED <<fileVars, served>>,
           starts' \in starts .. MaxStarts
    PROVE  KeyInv'
<1>1. /\ UNCHANGED <<certFile, keyFile, served>> /\ keyPair' = 0 /\ opening' = "stat"
  BY DEF MemoryLost, fileVars
<1>2. starts' \in 1 .. MaxStarts /\ 1 .. starts \subseteq 1 .. starts'
  BY DEF KeyInv
<1> QED
  BY <1>1, <1>2 DEF KeyInv, KeyPairTypeOK, FilesInv, CertificateLasts, Writing

(* A tracker comes to serve with the pair that is in both files.            *)
LEMMA KeyServes ==
    ASSUME KeyInv, MakeListeners
    PROVE  KeyInv'
<1>1. /\ UNCHANGED <<keyPairVars, starts>> /\ served' = served \cup {keyPair}
      /\ opening = "opened"
  BY DEF MakeListeners
<1>2. /\ certFile = Whole(keyPair) /\ keyFile = Whole(keyPair) /\ keyPair \in 1 .. starts
  BY <1>1 DEF KeyInv, FilesInv
<1> QED
  BY <1>1, <1>2 DEF KeyInv, keyPairVars, fileVars, KeyPairTypeOK, FilesInv, CertificateLasts,
     Writing

LEMMA KeyNext ==
    ASSUME TrackerAssumption, KeyInv, [Next]_vars
    PROVE  KeyInv'
<1>1. CASE OpeningKeyPair
  <2>1. KeyPairStep(starts) /\ UNCHANGED lifeVars
    BY <1>1 DEF OpeningKeyPair
  <2> QED
    BY <2>1, OpenKeeps, WriteKeeps DEF KeyPairStep
<1>2. CASE MakeListeners
  BY <1>2, KeyServes
<1>3. CASE Crash \/ Restart
  <2>1. /\ MemoryLost /\ UNCHANGED <<fileVars, served>>
        /\ starts' = starts \/ (starts < MaxStarts /\ starts' = starts + 1)
    BY <1>3 DEF Crash, Restart, lifeVars
  <2>2. starts' \in starts .. MaxStarts
    BY <2>1 DEF KeyInv, TrackerAssumption
  <2> QED
    BY <2>1, <2>2, KeyMemoryLost
<1>4. CASE \/ ParseConfig \/ InitLogRotator \/ ValidateConfig \/ NewAPIServer \/ NewDB
           \/ Setup \/ NoRPCServer \/ Shutdown \/ Stopping \/ CloseDB \/ Return
           \/ SignalStep \/ Interrupt
           \/ (\E c \in Conn : Client(c) \/ Alone(c) \/ Waits(c))
           \/ (\E l \in Listener : Serve(l))
           \/ UNCHANGED vars
  <2>1. UNCHANGED <<keyPairVars, lifeVars>>
    BY <1>4 DEF ParseConfig, InitLogRotator, ValidateConfig, NewAPIServer, NewDB, Setup,
       NoRPCServer, Shutdown, Stopping, CloseDB, Return, SignalStep, Notify, ReceiveSignal,
       DrainSignal, CancelContext, Interrupt, Client, Alone, Waits, Serve, vars
  <2> QED
    BY <2>1, KeyUntouched
<1> QED
  BY <1>1, <1>2, <1>3, <1>4 DEF Next, MainStep

-----------------------------------------------------------------------------
(* KeyInv is inductive.                                                     *)
THEOREM KeyInvariance == Spec => []KeyInv
<1>1. Init => KeyInv
  BY KeyInit, TrackerAssumption
<1>2. KeyInv /\ [Next]_vars => KeyInv'
  BY KeyNext, TrackerAssumption
<1> QED
  BY <1>1, <1>2, PTL DEF Spec

(* CertificateLasts: all trackers that come to serve do so with one pair,   *)
(* and it stays in the files, for any number of starts and whatever         *)
(* becomes of them.                                                         *)
THEOREM CertificateNeverChanges == Spec => []CertificateLasts
<1>1. KeyInv => CertificateLasts
  BY DEF KeyInv, FilesInv
<1> QED
  BY <1>1, KeyInvariance, PTL

(* OnlyKeyWriteLocksOut: files that a start can use become unusable only    *)
(* while the key is written or its writing undone.                          *)
THEOREM StartsStayPossible == Spec => OnlyKeyWriteLocksOut
<1>1. KeyInv /\ [Next]_vars =>
         [Usable /\ ~Usable' => opening \in {"key", "remove"}]_fileVars
  <2> SUFFICES ASSUME KeyInv, [Next]_vars, Usable, ~Usable', fileVars' # fileVars
               PROVE  opening \in {"key", "remove"}
    OBVIOUS
  <2>1. OpeningKeyPair
    BY DEF Next, MainStep, ParseConfig, InitLogRotator, ValidateConfig, NewAPIServer, NewDB,
       Setup, MakeListeners, NoRPCServer, Shutdown, Stopping, CloseDB, Return, SignalStep,
       Notify, ReceiveSignal, DrainSignal, CancelContext, Interrupt, Crash, Restart,
       Client, Alone, Waits, Serve, keyPairVars, vars
  <2>2. KeyPairStep(starts)
    BY <2>1 DEF OpeningKeyPair
  <2>3. CASE OpenRPCKeyPair(starts)
    BY <2>3 DEF OpenRPCKeyPair
  <2>4. CASE TruncateCert \/ WriteCert
    <3>1. keyFile = Absent /\ keyFile' = keyFile
      BY <2>4 DEF TruncateCert, WriteCert, KeyInv, FilesInv
    <3> QED
      BY <3>1 DEF Usable
  <2>5. CASE TruncateKey \/ RemoveCert
    BY <2>5 DEF TruncateKey, RemoveCert
  <2>6. CASE WriteKey
    <3>1. keyFile = Torn
      BY <2>6 DEF WriteKey, KeyInv, FilesInv
    <3> QED
      BY <3>1 DEF Usable, Matching, Absent, Torn
  <2> QED
    BY <2>2, <2>3, <2>4, <2>5, <2>6 DEF KeyPairStep
<1> QED
  BY <1>1, KeyInvariance, PTL DEF Spec, OnlyKeyWriteLocksOut
=============================================================================
