---------------------------- MODULE CertManager ----------------------------
(***************************************************************************)
(* The certificate manager of a gateway pod                                *)
(* (internal/consul/certmanager.go): it watches the Connect root and the   *)
(* service's leaf certificate, caches them, and writes three files for     *)
(* Envoy to read.  The handlers of the two watches run under one lock, but *)
(* the files are written one by one, each truncated first, and any of the  *)
(* writes may fail.  A certificate and its private key are cached together *)
(* and are one version here; on disk they are two files.                   *)
(***************************************************************************)
EXTENDS Naturals

CONSTANT MaxVersion     \* bound: versions of the root and of the leaf

ASSUME CertManagerAssumption == MaxVersion \in Nat \ {0}

VARIABLES
    root,       \* the active root in Consul: 1, 2, ...
    leaf,       \* the leaf certificate that Consul issues
    seenRoot,   \* what the root watch has handed over, 0 for nothing
    seenLeaf,   \* what the leaf watch has handed over
    ca,         \* cached root, 0 for nil
    pair,       \* cached certificate and private key, 0 for nil
    file,       \* what the three files hold: 0 when absent, or Torn
    writing,    \* the file that the holder of the lock writes, or "none"
    opened,     \* whether that file has been truncated
    failed,     \* whether the last persist returned an error
    signalled,  \* initializeSignal is closed
    manage,     \* where Manage is
    written     \* history: the files that were written to the end once

certVars == <<root, leaf, seenRoot, seenLeaf, ca, pair, file, writing, opened,
              failed, signalled, manage, written>>

Files == {"ca", "cert", "key"}
Versions == 1..MaxVersion
Torn == MaxVersion + 1      \* truncated and not yet written

ManageStates == {"idle", "fetch", "first", "watching", "stopped", "failed"}

CertTypeOK ==
    /\ root \in Versions /\ leaf \in Versions
    /\ seenRoot \in 0..MaxVersion /\ seenLeaf \in 0..MaxVersion
    /\ ca \in 0..MaxVersion /\ pair \in 0..MaxVersion
    /\ file \in [Files -> 0..Torn]
    /\ writing \in Files \cup {"none"}
    /\ opened \in BOOLEAN /\ failed \in BOOLEAN /\ signalled \in BOOLEAN
    /\ manage \in ManageStates
    /\ written \in SUBSET Files

CertInit ==
    /\ root = 1 /\ leaf = 1
    /\ seenRoot = 0 /\ seenLeaf = 0
    /\ ca = 0 /\ pair = 0
    /\ file = [f \in Files |-> 0]
    /\ writing = "none" /\ opened = FALSE
    /\ failed = FALSE /\ signalled = FALSE
    /\ manage = "idle"
    /\ written = {}

----------------------------------------------------------------------------
(* Consul rotates the root or the leaf. *)

RotateRoot ==
    /\ root < MaxVersion
    /\ root' = root + 1
    /\ UNCHANGED <<leaf, seenRoot, seenLeaf, ca, pair, file, writing, opened,
                   failed, signalled, manage, written>>

RotateLeaf ==
    /\ leaf < MaxVersion
    /\ leaf' = leaf + 1
    /\ UNCHANGED <<root, seenRoot, seenLeaf, ca, pair, file, writing, opened,
                   failed, signalled, manage, written>>

----------------------------------------------------------------------------
(* persist: the files are written in this order, each only when its part is *)
(* cached; an error ends it at once, without the signal.                    *)

Cached(f) == IF f = "ca" THEN ca ELSE pair

FirstFile(newCa) == IF newCa # 0 THEN "ca" ELSE "cert"

\* Mutant of NextFile: persist returns once it has written the root.
NextFileReturns(f) == IF f = "cert" THEN "key" ELSE "none"

NextFile(f) ==
    CASE f = "ca" -> IF pair # 0 THEN "cert" ELSE "none"
      [] f = "cert" -> "key"
      [] f = "key" -> "none"

\* The lock is free.
Unlocked == writing = "none"

\* os.WriteFile begins: the file is truncated.
OpenFile ==
    /\ writing # "none" /\ ~opened
    /\ file' = [file EXCEPT ![writing] = Torn]
    /\ opened' = TRUE
    /\ UNCHANGED <<root, leaf, seenRoot, seenLeaf, ca, pair, writing, failed,
                   signalled, manage, written>>

\* The file is written; after the last one comes signal, which closes the
\* channel once all three parts are cached.
WriteFile ==
    /\ writing # "none" /\ opened
    /\ file' = [file EXCEPT ![writing] = Cached(writing)]
    /\ written' = written \cup {writing}
    /\ opened' = FALSE
    /\ writing' = NextFile(writing)
    /\ IF NextFile(writing) = "none"
       THEN /\ signalled' = (signalled \/ (ca # 0 /\ pair # 0))
            /\ failed' = FALSE
       ELSE UNCHANGED <<signalled, failed>>
    /\ UNCHANGED <<root, leaf, seenRoot, seenLeaf, ca, pair, manage>>

\* Mutant of WriteFails: the error is logged and the next file is written.
WriteFailsOn ==
    /\ writing # "none"
    /\ writing' = NextFile(writing)
    /\ opened' = FALSE
    /\ signalled' = (signalled \/ (NextFile(writing) = "none" /\ ca # 0 /\ pair # 0))
    /\ UNCHANGED <<root, leaf, seenRoot, seenLeaf, ca, pair, file, failed, manage, written>>

\* The file cannot be opened, or is left truncated: persist returns the error,
\* and the handler logs it.
WriteFails ==
    /\ writing # "none"
    /\ writing' = "none"
    /\ opened' = FALSE
    /\ failed' = TRUE
    /\ UNCHANGED <<root, leaf, seenRoot, seenLeaf, ca, pair, file, signalled,
                   manage, written>>

----------------------------------------------------------------------------
(* The handlers. *)

\* handleRootWatch: the active root is cached and everything is written.
handleRootWatch ==
    /\ manage = "watching" /\ root # seenRoot
    /\ Unlocked
    /\ seenRoot' = root
    /\ ca' = root
    /\ writing' = "ca" /\ opened' = FALSE
    /\ UNCHANGED <<root, leaf, seenLeaf, pair, file, failed, signalled, manage, written>>

\* handleLeafWatch, for the version v.
CacheLeaf(v) ==
    /\ Unlocked
    /\ pair' = v
    /\ writing' = FirstFile(ca) /\ opened' = FALSE

handleLeafWatch ==
    /\ manage = "watching" /\ leaf # seenLeaf
    /\ seenLeaf' = leaf
    /\ CacheLeaf(leaf)
    /\ UNCHANGED <<root, leaf, seenRoot, ca, file, failed, signalled, manage, written>>

\* A result that is nil or not a key pair is dropped.
IgnoreResult ==
    /\ manage = "watching"
    /\ \/ leaf # seenLeaf /\ seenLeaf' = leaf /\ UNCHANGED seenRoot
       \/ root # seenRoot /\ seenRoot' = root /\ UNCHANGED seenLeaf
    /\ UNCHANGED <<root, leaf, ca, pair, file, writing, opened, failed,
                   signalled, manage, written>>

\* Manage fetches the leaf once, before the watches start; the watch hands the
\* same leaf over again.
FetchLeaf ==
    /\ manage = "fetch"
    /\ manage' = "first"
    /\ CacheLeaf(leaf)
    /\ UNCHANGED <<root, leaf, seenRoot, seenLeaf, ca, file, failed, signalled, written>>

FetchLeafFails ==
    /\ manage = "fetch"
    /\ manage' = "failed"
    /\ UNCHANGED <<root, leaf, seenRoot, seenLeaf, ca, pair, file, writing,
                   opened, failed, signalled, written>>

\* The handler drops a first leaf that is nil or not a key pair, and Manage
\* goes on to start the watches.
FetchLeafUnusable ==
    /\ manage = "fetch"
    /\ manage' = "first"
    /\ UNCHANGED <<root, leaf, seenRoot, seenLeaf, ca, pair, file, writing,
                   opened, failed, signalled, written>>

StartWatches ==
    /\ manage = "first" /\ writing = "none"
    /\ manage' = "watching"
    /\ UNCHANGED <<root, leaf, seenRoot, seenLeaf, ca, pair, file, writing,
                   opened, failed, signalled, written>>

\* Manage returns when its context is done; a handler may still be writing.
StopWatches ==
    /\ manage = "watching"
    /\ manage' = "stopped"
    /\ UNCHANGED <<root, leaf, seenRoot, seenLeaf, ca, pair, file, writing,
                   opened, failed, signalled, written>>

\* The steps of the manager once Manage runs, failing writes aside.
CertStep ==
    \/ OpenFile \/ WriteFile
    \/ handleRootWatch \/ handleLeafWatch
    \/ FetchLeaf \/ StartWatches

----------------------------------------------------------------------------
\* "WaitForWrite acts as a signalling mechanism for when the certificates are
\* written to disk" (certmanager.go): once the signal is given, whatever writes
\* failed before it, each of the three files has been written to the end.
SignalledIsWritten == signalled => written = Files

\* A rotation replaces the certificate and the key by two writes, and the root
\* handler writes them too: between writes they belong together, and to the
\* cached pair, unless the last persist failed; nothing but the next result of
\* a watch repairs that.
PairOnDisk ==
    writing = "none" /\ ~failed =>
        /\ file["cert"] = pair /\ file["key"] = pair
        /\ file["ca"] = ca
=============================================================================
