---------------------------- MODULE BridgeStartup ----------------------------
(***************************************************************************)
(* How an h3wt-server comes up (load_or_create_identity, run_h3wt_server   *)
(* and write_ready_file in tools/transport_bridge/src/main.rs), and how    *)
(* the daemon that started it learns the pin it prints (waitForProxyReady  *)
(* in lib/transport.zig).                                                  *)
(*                                                                         *)
(* The certificate and the key are two files of the user's state           *)
(* directory, which every start on the machine shares; a start writes them *)
(* if one is missing.  The ready file is the start's own.  A file is       *)
(* written in two steps, emptied and filled, and a bridge may die at any   *)
(* step.  The identity a user names in the environment, which is only      *)
(* loaded, is not modelled.                                                *)
(***************************************************************************)
EXTENDS Naturals

CONSTANTS
    Starts,     \* starts of a bridge, numbers; each would make an identity of its own
    Absent,     \* a file that is not there
    Torn        \* a file that holds nothing, or a part of its text

ASSUME StartsAssumption ==
    /\ Starts \subseteq Nat /\ {Absent, Torn} \cap Starts = {}
    /\ Absent # Torn

Content == Starts \cup {Absent, Torn}

VARIABLES
    cert, key,  \* the files of the identity
    ready,      \* per start: its ready file
    at,         \* per start: where the bridge is
    identity,   \* per start: the certificate and the key it has
    printed,    \* per start: the pin its daemon printed, Absent before
    raced       \* two starts were making an identity at the same time

files == <<cert, key>>
startupVars == <<files, ready, at, identity, printed, raced>>

InitStartup ==
    /\ cert = Absent /\ key = Absent
    /\ ready = [i \in Starts |-> Absent]
    /\ at = [i \in Starts |-> "idle"]
    /\ identity = [i \in Starts |-> [cert |-> Absent, key |-> Absent]]
    /\ printed = [i \in Starts |-> Absent]
    /\ raced = FALSE

Making == {"make", "fill cert", "open key", "fill key"}
Down == {"idle", "failed", "dead"}

Advance(i, label) == at' = [at EXCEPT ![i] = label]

-----------------------------------------------------------------------------
(* load_or_create_identity.                                                *)

Begin(i) ==
    /\ at[i] = "idle" /\ Advance(i, "look cert")
    /\ UNCHANGED <<files, ready, identity, printed, raced>>

\* A start that is to make an identity, beside another that does so already.
Make(i) ==
    /\ Advance(i, "make")
    /\ raced' = (raced \/ \E j \in Starts \ {i} : at[j] \in Making)

LookAtCert(i) ==
    /\ at[i] = "look cert"
    /\ IF cert = Absent THEN Make(i) ELSE Advance(i, "look key") /\ UNCHANGED raced
    /\ UNCHANGED <<files, ready, identity, printed>>

\* Variant: what is there is made anew.
LookAtKeyInVain(i) ==
    /\ at[i] = "look key" /\ Make(i)
    /\ UNCHANGED <<files, ready, identity, printed>>

LookAtKey(i) ==
    /\ at[i] = "look key"
    /\ IF key = Absent THEN Make(i) ELSE Advance(i, "load cert") /\ UNCHANGED raced
    /\ UNCHANGED <<files, ready, identity, printed>>

\* Identity::load_pemfiles reads one file and then the other.
LoadCert(i) ==
    /\ at[i] = "load cert"
    /\ identity' = [identity EXCEPT ![i].cert = cert]
    /\ Advance(i, IF cert \in Starts THEN "load key" ELSE "failed")
    /\ UNCHANGED <<files, ready, printed, raced>>

\* Variant: a key that is not whole is waited for.
LoadKeyPatiently(i) ==
    /\ at[i] = "load key" /\ key \in Starts
    /\ identity' = [identity EXCEPT ![i].key = key]
    /\ Advance(i, "bind")
    /\ UNCHANGED <<files, ready, printed, raced>>

LoadKey(i) ==
    /\ at[i] = "load key"
    /\ identity' = [identity EXCEPT ![i].key = key]
    /\ Advance(i, IF key \in Starts THEN "bind" ELSE "failed")
    /\ UNCHANGED <<files, ready, printed, raced>>

\* Identity::self_signed, and the two files.
OpenCert(i) ==
    /\ at[i] = "make" /\ Advance(i, "fill cert")
    /\ identity' = [identity EXCEPT ![i] = [cert |-> i, key |-> i]]
    /\ cert' = Torn
    /\ UNCHANGED <<key, ready, printed, raced>>

FillCert(i) ==
    /\ at[i] = "fill cert" /\ Advance(i, "open key")
    /\ cert' = i
    /\ UNCHANGED <<key, ready, identity, printed, raced>>

OpenKey(i) ==
    /\ at[i] = "open key" /\ Advance(i, "fill key")
    /\ key' = Torn
    /\ UNCHANGED <<cert, ready, identity, printed, raced>>

FillKey(i) ==
    /\ at[i] = "fill key" /\ Advance(i, "bind")
    /\ key' = i
    /\ UNCHANGED <<cert, ready, identity, printed, raced>>

-----------------------------------------------------------------------------
(* run_h3wt_server and write_ready_file.                                   *)

\* The address is bound.  A pair that does not match may be found out here.
OpenReady(i) ==
    /\ at[i] = "bind" /\ Advance(i, "fill ready")
    /\ ready' = [ready EXCEPT ![i] = Torn]
    /\ UNCHANGED <<files, identity, printed, raced>>

\* Variant: the pin is that of the file.
FillReadyFromFile(i) ==
    /\ at[i] = "fill ready" /\ Advance(i, "accept")
    /\ ready' = [ready EXCEPT ![i] = cert]
    /\ UNCHANGED <<files, identity, printed, raced>>

FillReady(i) ==
    /\ at[i] = "fill ready" /\ Advance(i, "accept")
    /\ ready' = [ready EXCEPT ![i] = identity[i].cert]
    /\ UNCHANGED <<files, identity, printed, raced>>

\* An address that cannot be bound, a file that cannot be written, an identity
\* that cannot be used.
StartFails(i) ==
    /\ at[i] \notin Down \cup {"accept"} /\ Advance(i, "failed")
    /\ UNCHANGED <<files, ready, identity, printed, raced>>

\* The bridge, or the machine it runs on, dies.
Die(i) ==
    /\ at[i] \notin Down /\ Advance(i, "dead")
    /\ UNCHANGED <<files, ready, identity, printed, raced>>

-----------------------------------------------------------------------------
(* waitForProxyReady.                                                      *)

PrintPin(i) ==
    /\ at[i] # "idle" /\ printed[i] = Absent /\ ready[i] \in Starts
    /\ printed' = [printed EXCEPT ![i] = ready[i]]
    /\ UNCHANGED <<files, ready, at, identity, raced>>

\* A ready file that is there but not whole is no JSON, and ten seconds without
\* one are enough: the daemon gives up and kills the bridge.
GiveUp(i) ==
    /\ printed[i] = Absent /\ ready[i] \notin Starts
    /\ Die(i)

-----------------------------------------------------------------------------
(* A client that calls.                                                    *)

\* Whether a client gets a connection to bridge i, given the pin and the
\* certificates of its CA file (build_h3wt_client_config, verify_h3wt_pin): a
\* pin stands for the roots if there is no CA file, and is looked at in the end.
\* No root of the system knows a certificate that was made here.  Host names and
\* the time a certificate is valid are left out.
Connects(pin, ca, i) ==
    LET served == identity[i] IN
    /\ served.key = served.cert
    /\ pin = Absent \/ ca # {} => served.cert \in ca
    /\ pin # Absent => pin = served.cert

-----------------------------------------------------------------------------
Proceed(i) ==
    \/ LookAtCert(i) \/ LookAtKey(i) \/ LoadCert(i) \/ LoadKey(i)
    \/ OpenCert(i) \/ FillCert(i) \/ OpenKey(i) \/ FillKey(i)
    \/ OpenReady(i) \/ FillReady(i)

NextStartup ==
    \E i \in Starts :
        Begin(i) \/ Proceed(i) \/ StartFails(i) \/ Die(i) \/ PrintPin(i) \/ GiveUp(i)

Startup == InitStartup /\ [][NextStartup]_startupVars

\* A bridge that runs goes on, and its daemon looks at the ready file.
StartupFairness == \A i \in Starts : WF_startupVars(Proceed(i)) /\ WF_startupVars(PrintPin(i))

FairStartup == Startup /\ StartupFairness

-----------------------------------------------------------------------------
(* Properties.                                                             *)

Whole(content) == content \in Starts

\* "The daemon prints a ready-to-use ?sha256=... certificate pin when it starts
\* listening" (README.md:131): the pin is the one of the certificate the bridge
\* serves, and unless two starts made an identity at the same time, whatever died
\* where, a client with any pin that was ever printed gets its connection to any
\* bridge that accepts, with the stored certificate as its CA file or without.
PinsAreReadyToUse ==
    \A i, j \in Starts :
        printed[j] # Absent =>
            /\ printed[j] = identity[j].cert
            /\ ~ raced /\ at[i] = "accept" =>
                   Connects(printed[j], {}, i) /\ Connects(printed[j], {cert}, i)

\* A stored identity is kept, and it is one: unless two starts made theirs at the
\* same time, files that are both whole are a pair, and no later start and no
\* death changes them.
StoredIdentityStays ==
    [][~ raced /\ Whole(cert) /\ Whole(key) => cert = key /\ UNCHANGED files]_startupVars

\* A start waits for no file: its bridge accepts and its daemon prints the pin, or
\* it has failed, as it does for good once a dead bridge left a torn key.
EveryStartSettles ==
    \A i \in Starts :
        at[i] = "look cert" ~>
            at[i] \in Down \/ (at[i] = "accept" /\ printed[i] # Absent)
=============================================================================
