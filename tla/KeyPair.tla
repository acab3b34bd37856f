------------------------------- MODULE KeyPair -------------------------------
(***************************************************************************)
(* The TLS key pair of the JSON-RPC server: openRPCKeyPair and             *)
(* generateRPCKeyPair of src/github-tracker.go.                            *)
(*                                                                         *)
(* The certificate and the key are two files, each emptied and then        *)
(* written by ioutil.WriteFile, and the process may die between any two of *)
(* these steps.  A pair is a number; of a file only what LoadX509KeyPair   *)
(* can make of it is kept.                                                 *)
(***************************************************************************)
EXTENDS Naturals

VARIABLES
    certFile,   \* what is in the file cfg.RPCCert
    keyFile,    \* what is in the file cfg.RPCKey
    keyPair,    \* the pair in memory, 0 if there is none
    opening     \* where openRPCKeyPair is

fileVars == <<certFile, keyFile>>
keyPairVars == <<fileVars, keyPair, opening>>

Absent == [state |-> "absent", pair |-> 0]
Torn == [state |-> "torn", pair |-> 0]
Whole(p) == [state |-> "whole", pair |-> p]

(* LoadX509KeyPair finds a key and its certificate.                         *)
Matching == certFile.state = "whole" /\ keyFile = certFile

KeyPairInit ==
    /\ certFile = Absent
    /\ keyFile = Absent
    /\ keyPair = 0
    /\ opening = "stat"

Fails == opening' = "failed"

-----------------------------------------------------------------------------
(* Mutant: the key's file is not looked at.                                 *)
OpenRPCKeyPairAnew(p) ==
    /\ opening = "stat"
    /\ keyPair' = p
    /\ opening' = "cert"
    /\ UNCHANGED fileVars

(* Mutant: files that cannot be loaded are replaced.                        *)
OpenRPCKeyPairReplacing(p) ==
    /\ opening = "stat"
    /\ \/ Matching /\ keyPair' = certFile.pair /\ opening' = "opened"
       \/ keyPair' = p /\ opening' = "cert"
    /\ UNCHANGED fileVars

(***************************************************************************)
(* A new pair, p, is generated only if there is no key file.  Otherwise    *)
(* both files are loaded.  Either may fail, for the disk's sake too.       *)
(***************************************************************************)
OpenRPCKeyPair(p) ==
    /\ opening = "stat"
    /\ \/ keyFile = Absent /\ keyPair' = p /\ opening' = "cert"
       \/ Matching /\ keyPair' = certFile.pair /\ opening' = "opened"
       \/ Fails /\ UNCHANGED keyPair
    /\ UNCHANGED fileVars

(* WriteFile empties the file, and writes and closes it.                    *)
TruncateCert ==
    /\ opening = "cert"
    /\ \/ certFile' = Torn /\ opening' = "certdata"
       \/ Fails /\ UNCHANGED certFile
    /\ UNCHANGED <<keyFile, keyPair>>

WriteCert ==
    /\ opening = "certdata"
    /\ \/ certFile' = Whole(keyPair) /\ opening' = "key"
       \/ certFile' \in {Torn, Whole(keyPair)} /\ Fails
    /\ UNCHANGED <<keyFile, keyPair>>

TruncateKey ==
    /\ opening = "key"
    /\ \/ keyFile' = Torn /\ opening' = "keydata"
       \/ opening' = "remove" /\ UNCHANGED keyFile
    /\ UNCHANGED <<certFile, keyPair>>

(* The error may be that of closing a file that is whole.                   *)
WriteKey ==
    /\ opening = "keydata"
    /\ \/ keyFile' = Whole(keyPair) /\ opening' = "opened"
       \/ keyFile' \in {Torn, Whole(keyPair)} /\ opening' = "remove"
    /\ UNCHANGED <<certFile, keyPair>>

(* The key could not be written: the certificate is removed, if it can be,  *)
(* and what there is of the key stays.                                      *)
RemoveCert ==
    /\ opening = "remove"
    /\ certFile' \in {Absent, certFile}
    /\ Fails
    /\ UNCHANGED <<keyFile, keyPair>>

KeyPairStep(p) ==
    \/ OpenRPCKeyPair(p)
    \/ TruncateCert \/ WriteCert
    \/ TruncateKey \/ WriteKey
    \/ RemoveCert

-----------------------------------------------------------------------------
File == [state : {"absent", "torn", "whole"}, pair : Nat]

KeyPairTypeOK ==
    /\ certFile \in File
    /\ keyFile \in File
    /\ keyPair \in Nat
    /\ opening \in {"stat", "cert", "certdata", "key", "keydata", "remove",
                    "opened", "failed"}
=============================================================================
