---------------------------- MODULE KeyFileSalt ----------------------------
(***************************************************************************)
(* The passphrase salt kept next to KESTREL_DATA_KEY_FILE, and the keys    *)
(* that are derived with it (kestrel_sdk/security/encryption.py).          *)
(*                                                                         *)
(* Processes of one deployment start at the same time, publish or find the *)
(* salt, and encrypt with the key it gives; each may die, and the host may *)
(* crash and lose a directory entry that was never synced.  Windows has no *)
(* directory fsync.  A key is named by the salt it is derived with: PBKDF2 *)
(* and HKDF are taken as injective.                                        *)
(***************************************************************************)
CONSTANTS Procs,   \* processes that share the key file
          Salts,   \* what os.urandom may return
          Legacy,  \* the unsalted SHA-256 key
          NoSalt   \* no salt file, no explicit salt, no write key

ASSUME SaltConstants == Legacy \notin Salts /\ NoSalt \notin Salts \cup {Legacy}

VARIABLES dirSync,     \* the platform can sync a directory: os.name is not "nt"
          source,      \* the passphrase comes from a bare variable or a key file
          configured,  \* explicit KESTREL_DATA_KEY_SALT or KESTREL_DATA_KEY_SALT_FILE
          entry,       \* the salt file, as every running process sees it
          diskEntry,   \* the salt file a crash of the host certainly preserves
          lost,        \* a crash of a host without directory sync has lost the salt file
          stage,          \* per process: progress of _resolve_passphrase_master_keys
          salt,        \* per process: the salt it generated, then the one it loaded
          writer,      \* per process: the write key being resolved, NoSalt if refused
          durable,     \* per process: _DURABLE_KEY_FILE_SALTS
          held,        \* per process: write keys of the ciphers it has built
          readers,     \* per process: read keys of the last cipher it built
          stored       \* keys under which ciphertext exists

envVars == <<dirSync, source, configured>>
fileVars == <<entry, diskEntry, lost>>
saltVars == <<envVars, fileVars, stage, salt, writer, durable, held, readers, stored>>

Keys == Salts \cup {Legacy}
Maybe == Salts \cup {NoSalt}

SaltTypeOK ==
    /\ dirSync \in BOOLEAN /\ lost \in BOOLEAN
    /\ source \in {"bare", "keyfile"}
    /\ configured \in Maybe /\ entry \in Maybe /\ diskEntry \in Maybe
    /\ stage \in [Procs -> {"down", "idle", "publish", "load", "sync", "read"}]
    /\ salt \in [Procs -> Maybe]
    /\ writer \in [Procs -> Keys \cup {NoSalt}]
    /\ durable \in [Procs -> SUBSET Salts]
    /\ held \in [Procs -> SUBSET Keys]
    /\ readers \in [Procs -> SUBSET Keys]
    /\ stored \subseteq Keys

SaltInit ==
    /\ dirSync \in BOOLEAN
    /\ source \in {"bare", "keyfile"}
    /\ configured = NoSalt /\ entry = NoSalt /\ diskEntry = NoSalt /\ lost = FALSE
    /\ stage = [p \in Procs |-> "down"]
    /\ salt = [p \in Procs |-> NoSalt]
    /\ writer = [p \in Procs |-> NoSalt]
    /\ durable = [p \in Procs |-> {}]
    /\ held = [p \in Procs |-> {}]
    /\ readers = [p \in Procs |-> {}]
    /\ stored \in {{}, {Legacy}}

-----------------------------------------------------------------------------

\* _passphrase_read_master_keys(): the explicit salt, else the one on disk, and the legacy
\* key; nothing is created or synced for a read.
ReadKeys ==
    {Legacy} \cup (CASE configured # NoSalt -> {configured}
                     [] configured = NoSalt /\ source = "keyfile" -> {entry} \ {NoSalt}
                     [] OTHER -> {})

\* A process of the deployment starts.
Boot(p) ==
    /\ stage[p] = "down"
    /\ stage' = [stage EXCEPT ![p] = "idle"]
    /\ UNCHANGED <<envVars, fileVars, salt, writer, durable, held, readers, stored>>

\* The write attempt ended with a key, or was refused with NoSalt; the read keys follow.
Resolved(p, key) ==
    /\ writer' = [writer EXCEPT ![p] = key]
    /\ stage' = [stage EXCEPT ![p] = "read"]

\* _load_passphrase_salt(for_write=True) without a key file: the explicit salt, or none,
\* which leaves a bare passphrase in legacy mode.
ResolveConfigured(p) ==
    /\ stage[p] = "idle"
    /\ configured # NoSalt \/ source = "bare"
    /\ Resolved(p, IF configured # NoSalt THEN configured ELSE Legacy)
    /\ UNCHANGED <<envVars, fileVars, salt, durable, held, readers, stored>>

\* _load_or_create_key_file_salt(): look for the salt file.
CheckFile(p) ==
    /\ stage[p] = "idle"
    /\ configured = NoSalt /\ source = "keyfile"
    /\ IF entry = NoSalt
       THEN /\ stage' = [stage EXCEPT ![p] = "publish"]
            /\ \E s \in Salts : salt' = [salt EXCEPT ![p] = s]
       ELSE stage' = [stage EXCEPT ![p] = "load"] /\ UNCHANGED salt
    /\ UNCHANGED <<envVars, fileVars, writer, durable, held, readers, stored>>

\* _publish_salt_file(): the synced temporary file is linked to its final name, unless
\* another process published first.
PublishSalt(p) ==
    /\ stage[p] = "publish"
    /\ entry' = IF entry = NoSalt THEN salt[p] ELSE entry
    /\ stage' = [stage EXCEPT ![p] = "load"]
    /\ UNCHANGED <<envVars, diskEntry, lost, salt, writer, durable, held, readers, stored>>

\* No salt can be published: new writes are refused.
PublishFails(p) ==
    /\ stage[p] = "publish"
    /\ Resolved(p, NoSalt)
    /\ UNCHANGED <<envVars, fileVars, salt, durable, held, readers, stored>>

\* _load_passphrase_salt_file()
Load(p) ==
    /\ stage[p] = "load"
    /\ salt' = [salt EXCEPT ![p] = entry]
    /\ stage' = [stage EXCEPT ![p] = "sync"]
    /\ UNCHANGED <<envVars, fileVars, writer, durable, held, readers, stored>>

\* An unreadable salt file, or any error of the read keys, ends the call without a cipher.
CallFails(p) ==
    /\ stage[p] \in {"load", "read"}
    /\ stage' = [stage EXCEPT ![p] = "idle"]
    /\ readers' = [readers EXCEPT ![p] = {}]
    /\ UNCHANGED <<envVars, fileVars, salt, writer, durable, held, stored>>

\* Variant: only the process that published the salt syncs its directory.
SyncTrustsFound(p) ==
    /\ stage[p] = "sync"
    /\ Resolved(p, salt[p])
    /\ durable' = [durable EXCEPT ![p] = @ \cup {salt[p]}]
    /\ UNCHANGED <<envVars, fileVars, salt, held, readers, stored>>

\* _make_key_file_salt_durable(): the first time, sync the directory; on Windows
\* _fsync_directory() returns at once, and the salt is remembered as durable all the same.
Sync(p) ==
    /\ stage[p] = "sync"
    /\ diskEntry' = IF salt[p] \in durable[p] \/ ~dirSync THEN diskEntry ELSE entry
    /\ durable' = [durable EXCEPT ![p] = @ \cup {salt[p]}]
    /\ Resolved(p, salt[p])
    /\ UNCHANGED <<envVars, entry, lost, salt, held, readers, stored>>

\* The directory cannot be synced: new writes are refused.
SyncFails(p) ==
    /\ stage[p] = "sync"
    /\ dirSync /\ salt[p] \notin durable[p]
    /\ Resolved(p, NoSalt)
    /\ UNCHANGED <<envVars, fileVars, salt, durable, held, readers, stored>>

\* _resolve_passphrase_master_keys() and _cipher_for(): resolved after the write attempt.
ResolveRead(p) ==
    /\ stage[p] = "read"
    /\ readers' = [readers EXCEPT ![p] = ReadKeys]
    /\ held' = [held EXCEPT ![p] = @ \cup ({writer[p]} \ {NoSalt})]
    /\ stage' = [stage EXCEPT ![p] = "idle"]
    /\ UNCHANGED <<envVars, fileVars, salt, writer, durable, stored>>

\* A cipher is kept and used by any thread; without a write key it refuses.
Encrypt(p) ==
    /\ \E key \in held[p] : stored' = stored \cup {key}
    /\ UNCHANGED <<envVars, fileVars, stage, salt, writer, durable, held, readers>>

\* The process ends or is killed; a temporary file it leaves is never read.
ExitProcess(p) ==
    /\ stage[p] # "down"
    /\ stage' = [stage EXCEPT ![p] = "down"]
    /\ durable' = [durable EXCEPT ![p] = {}]
    /\ held' = [held EXCEPT ![p] = {}]
    /\ readers' = [readers EXCEPT ![p] = {}]
    /\ UNCHANGED <<envVars, fileVars, salt, writer, stored>>

\* The host crashes: what was synced is there again, what was not may be lost.
HostCrash ==
    /\ entry' \in {entry, diskEntry} /\ diskEntry' = entry'
    /\ lost' = (lost \/ (~dirSync /\ entry' # entry))
    /\ stage' = [p \in Procs |-> "down"]
    /\ durable' = [p \in Procs |-> {}]
    /\ held' = [p \in Procs |-> {}]
    /\ readers' = [p \in Procs |-> {}]
    /\ UNCHANGED <<envVars, salt, writer, stored>>

\* Between deployments the operator moves the passphrase to a key file, or configures a salt
\* explicitly: the one of the salt file if there is one, as the refusal message says.
Reconfigure ==
    /\ \A p \in Procs : stage[p] = "down"
    /\ configured = NoSalt
    /\ UNCHANGED dirSync
    /\ \/ source = "bare" /\ source' = "keyfile" /\ UNCHANGED configured
       \/ configured' \in (IF entry = NoSalt THEN Salts ELSE {entry}) /\ UNCHANGED source
    /\ UNCHANGED <<fileVars, stage, salt, writer, durable, held, readers, stored>>

SaltNext ==
    \/ \E p \in Procs :
          \/ Boot(p) \/ ResolveConfigured(p) \/ CheckFile(p) \/ PublishSalt(p) \/ PublishFails(p)
          \/ Load(p) \/ CallFails(p) \/ Sync(p) \/ SyncFails(p) \/ ResolveRead(p)
          \/ Encrypt(p) \/ ExitProcess(p)
    \/ HostCrash \/ Reconfigure

SaltSpec == SaltInit /\ [][SaltNext]_saltVars

-----------------------------------------------------------------------------
\* Whatever processes race, die or are refused and whatever the host loses in a crash,
\* decrypt() now finds the key of every ciphertext that was ever written.  A Windows host that
\* crashes before the file system has written the directory is the exception.
AlwaysReadable == ~lost => stored \subseteq ReadKeys

\* Processes that hold ciphers at the same time encrypt under one salt: concurrent first
\* starts converge on the first published one.
OneSalt ==
    \A p, q \in Procs : \A k \in held[p] \ {Legacy}, l \in held[q] \ {Legacy} : k = l

\* Nothing is stranded, now or because two salts are in use.
SaltSafe == AlwaysReadable /\ OneSalt

\* The read keys of a new cipher, also of one that refuses to write, cover what exists, with
\* the exception of AlwaysReadable.
ReadersCoverStored ==
    [][\A p \in Procs : stage[p] = "read" /\ stage'[p] = "idle" /\ readers'[p] # {} =>
          (~lost => stored \subseteq readers'[p])]_saltVars

\* A salt whose directory entry is durable is never replaced or lost.
DurableSaltKept == [][diskEntry # NoSalt => diskEntry' = diskEntry]_saltVars

\* Once a salt can be had, nothing new is written under the unsalted key.
NoNewLegacy ==
    [][source = "keyfile" \/ configured # NoSalt =>
          (Legacy \in stored' => Legacy \in stored)]_saltVars

(***************************************************************************)
(* The inductive invariant: a key in use is the legacy one, the configured *)
(* one, or the one whose directory entry is durable; where directories are *)
(* not synced, the one in the directory.                                   *)
(***************************************************************************)
OnDisk(key) == key = diskEntry \/ (~dirSync /\ key = entry)
Kept(key) == key = Legacy \/ key = configured \/ OnDisk(key)

FileOrder ==
    /\ diskEntry # NoSalt => entry = diskEntry
    /\ source = "bare" => entry = NoSalt
    /\ configured # NoSalt /\ entry # NoSalt => configured = entry

InFile ==
    \A p \in Procs :
        /\ stage[p] \in {"publish", "load", "sync"} => source = "keyfile" /\ configured = NoSalt
        /\ stage[p] = "publish" => salt[p] # NoSalt
        /\ stage[p] \in {"load", "sync"} => entry # NoSalt
        /\ stage[p] = "sync" => salt[p] = entry

KeysKept ==
    /\ \A p \in Procs : \A key \in durable[p] : OnDisk(key)
    /\ \A p \in Procs : stage[p] = "read" /\ writer[p] # NoSalt => Kept(writer[p])
    /\ \A p \in Procs : \A key \in held[p] : Kept(key)
    /\ ~lost => \A key \in stored : Kept(key)
    /\ source = "keyfile" \/ configured # NoSalt =>
          \A p \in Procs : Legacy \notin held[p] /\ (stage[p] = "read" => writer[p] # Legacy)
    /\ \A p \in Procs : stage[p] = "down" => held[p] = {} /\ durable[p] = {}

SaltInv == SaltTypeOK /\ FileOrder /\ InFile /\ KeysKept
=============================================================================
