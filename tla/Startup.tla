------------------------------- MODULE Startup -------------------------------
(***************************************************************************)
(* A start of go-via (cmd/go-via/main.go): the secrets key that encrypts   *)
(* the groups' passwords (internal/secrets), the certificate authority and *)
(* the server's certificate (internal/crypto), and the listener.           *)
(*                                                                         *)
(* The files outlive the process, which may end at any step: a crash, a    *)
(* write that fails (Fatal), a listener or a DHCP socket that dies.        *)
(* systemd and Docker start it again.                                      *)
(***************************************************************************)
EXTENDS Naturals

CONSTANT MaxFaults      \* bound: crashes and failed writes

VARIABLES
    phase,      \* where main is
    drawn,      \* the key this start has drawn and not persisted yet, 0 for none
    keyFile,    \* secret/secret.key: [key, whole], key 0 when there is no file
    running,    \* the key in memory, as read or as drawn
    cert,       \* cert/: per file, the start that wrote it (0: no file) and is it whole
    makes,      \* starts that began to write certificates
    keys,       \* keys ever persisted: a drawn one is none of them
    faults

startup == <<phase, drawn, keyFile, running, cert, makes, keys, faults>>

ASSUME StartupConstants == MaxFaults \in Nat

CertFiles == {"ca.crt", "ca.key", "server.crt", "server.key"}
Phases == {"stopped", "secrets", "rename", "cert", "sign", "listen", "serving"} \cup CertFiles

NoFile == [made |-> 0, whole |-> FALSE]
NoKey == [key |-> 0, whole |-> FALSE]

StartupInit ==
    /\ phase = "stopped" /\ drawn = 0 /\ keyFile = NoKey /\ running = NoKey
    /\ cert = [f \in CertFiles |-> NoFile]
    /\ makes = 0 /\ keys = 0 /\ faults = 0

Start ==
    /\ phase = "stopped"
    /\ phase' = "secrets"
    /\ UNCHANGED <<drawn, keyFile, running, cert, makes, keys, faults>>

-----------------------------------------------------------------------------
(* secrets.Init                                                            *)

LoadKey ==
    /\ phase = "secrets" /\ keyFile.key # 0
    /\ running' = keyFile
    /\ phase' = "cert"
    /\ UNCHANGED <<drawn, keyFile, cert, makes, keys, faults>>

\* Mutant: the key is written under its own name.
DrawKeyInPlace ==
    /\ phase = "secrets" /\ keyFile.key = 0
    /\ drawn' = keys + 1
    /\ keyFile' = [key |-> keys + 1, whole |-> FALSE]
    /\ phase' = "rename" /\ keys' = keys + 1
    /\ UNCHANGED <<running, cert, makes, faults>>

\* Into a temporary file, which nothing looks at again when the process ends here.
DrawKey ==
    /\ phase = "secrets" /\ keyFile.key = 0
    /\ drawn' = keys + 1
    /\ phase' = "rename"
    /\ UNCHANGED <<keyFile, running, cert, makes, keys, faults>>

PersistKey ==
    /\ phase = "rename"
    /\ keyFile' = [key |-> drawn, whole |-> TRUE]
    /\ running' = [key |-> drawn, whole |-> TRUE]
    /\ phase' = "cert" /\ drawn' = 0 /\ keys' = drawn
    /\ UNCHANGED <<cert, makes, faults>>

-----------------------------------------------------------------------------
(* The certificates: writePEM truncates a file, then writes it.            *)

\* Mutant: a start looks for the authority's certificate.
CheckAuthority ==
    /\ phase = "cert"
    /\ IF cert["ca.crt"].made = 0
         THEN phase' = "ca.crt" /\ makes' = makes + 1
         ELSE phase' = "listen" /\ UNCHANGED makes
    /\ UNCHANGED <<drawn, keyFile, running, cert, keys, faults>>

CheckCert ==
    /\ phase = "cert"
    /\ IF cert["server.crt"].made = 0
         THEN phase' = "ca.crt" /\ makes' = makes + 1
         ELSE phase' = "listen" /\ UNCHANGED makes
    /\ UNCHANGED <<drawn, keyFile, running, cert, keys, faults>>

\* Mutant: the authority's key is written when the certificate it signed is.
AuthorityKeyLast(f) ==
    CASE f = "ca.crt" -> "server.crt" [] f = "server.crt" -> "server.key"
      [] f = "server.key" -> "ca.key" [] f = "ca.key" -> "listen"

After(f) ==
    CASE f = "ca.crt" -> "ca.key" [] f = "ca.key" -> "sign"
      [] f = "server.crt" -> "server.key" [] f = "server.key" -> "listen"

Truncate(f) ==
    /\ phase = f /\ cert[f] # [made |-> makes, whole |-> FALSE]
    /\ cert' = [cert EXCEPT ![f] = [made |-> makes, whole |-> FALSE]]
    /\ UNCHANGED <<phase, drawn, keyFile, running, makes, keys, faults>>

Complete(f) ==
    /\ phase = f /\ cert[f] = [made |-> makes, whole |-> FALSE]
    /\ cert' = [cert EXCEPT ![f].whole = TRUE]
    /\ phase' = After(f)
    /\ UNCHANGED <<drawn, keyFile, running, makes, keys, faults>>

\* tls.LoadX509KeyPair: both files can be read, and the key is the certificate's.
Pair(crt, private) ==
    cert[crt].whole /\ cert[private].whole /\ cert[crt].made = cert[private].made

Stop ==
    /\ phase' = "stopped" /\ drawn' = 0 /\ running' = NoKey

\* CreateCert loads the authority back from the disk to sign with it.
Sign ==
    /\ phase = "sign"
    /\ IF Pair("ca.crt", "ca.key")
         THEN phase' = "server.crt" /\ UNCHANGED <<drawn, running>>
         ELSE Stop
    /\ UNCHANGED <<keyFile, cert, makes, keys, faults>>

\* A listener that cannot load its certificate ends main.
RunTLS ==
    /\ phase = "listen"
    /\ IF Pair("server.crt", "server.key")
         THEN phase' = "serving" /\ UNCHANGED <<drawn, running>>
         ELSE Stop
    /\ UNCHANGED <<keyFile, cert, makes, keys, faults>>

-----------------------------------------------------------------------------
(* Faults                                                                  *)

Crash ==
    /\ phase # "stopped" /\ faults < MaxFaults
    /\ faults' = faults + 1
    /\ Stop
    /\ UNCHANGED <<keyFile, cert, makes, keys>>

\* writePEM removes what it could not write, and main ends.
WriteFails(f) ==
    /\ phase = f /\ cert[f] = [made |-> makes, whole |-> FALSE] /\ faults < MaxFaults
    /\ faults' = faults + 1
    /\ cert' = [cert EXCEPT ![f] = NoFile]
    /\ Stop
    /\ UNCHANGED <<keyFile, makes, keys>>

Progress ==
    \/ Start \/ LoadKey \/ DrawKey \/ PersistKey \/ CheckCert \/ Sign \/ RunTLS
    \/ \E f \in CertFiles : Truncate(f) \/ Complete(f)

-----------------------------------------------------------------------------
(* Properties                                                              *)

StartupTypeOK ==
    /\ phase \in Phases
    /\ drawn \in 0..(keys + 1) /\ keys \in Nat /\ makes \in Nat /\ faults \in 0..MaxFaults
    /\ keyFile \in [key : 0..keys, whole : BOOLEAN]
    /\ running \in [key : 0..keys, whole : BOOLEAN]
    /\ cert \in [CertFiles -> [made : 0..makes, whole : BOOLEAN]]

\* The server never listens with a certificate that the authority on the disk, the
\* one operators import, did not sign: the four files are of one start, whatever
\* crashes and failed writes came before.
ServesOwnCertificate ==
    phase = "serving" =>
        /\ Pair("ca.crt", "ca.key") /\ Pair("server.crt", "server.key")
        /\ cert["ca.crt"].made = cert["server.crt"].made

\* Once nothing fails any more, the appliance comes up and stays up, unless a fault
\* left a server.crt without the key that belongs to it: only that file is looked for.
ComesUp ==
    \/ <>[](phase = "serving")
    \/ <>[](cert["server.crt"].made # 0 /\ ~Pair("server.crt", "server.key"))
=============================================================================
