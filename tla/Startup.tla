------------------------------ MODULE Startup ------------------------------
(***************************************************************************)
(* Start-up of the server (create_rocket) and its two kinds of files: the   *)
(* settings, rewritten in place, and the database, which is moved into an   *)
(* encrypted copy once VAULTLS_DB_SECRET is set.  Every durable step is an   *)
(* action, and the process can be killed between any two of them.           *)
(***************************************************************************)
EXTENDS FiniteSets, Integers

CONSTANTS MaxKey,   \* bound on the signing keys ever generated
          Rows,     \* what requests store in the database
          Null

ASSUME StartupAssumption == MaxKey \in Nat \ {0} /\ Null \notin Nat

VARIABLES
    phase,    \* how far the process is; "down" when there is none
    secret,   \* whether VAULTLS_DB_SECRET is set
    file,     \* settings.json
    mem,      \* the settings in memory
    db,       \* database.db3
    temp,     \* encrypted.db3, the copy being made
    keys,     \* signing keys generated so far
    stored,   \* history: the rows of every write that was answered
    firstKey, \* history: the signing key of the first server that came up
    cut       \* history: a kill fell between the removal of the database and
              \* the renaming of its copy

startupVars == <<phase, secret, file, mem, db, temp, keys, stored, firstKey, cut>>

\* The phases of create_rocket, and "put" for a request that saves settings.
Phases == {"down", "load", "branch", "export", "copy", "remove", "rename", "mark",
           "open", "up", "put"}

Settings == [enc : BOOLEAN, key : 0..MaxKey]

NoSettings == [enc |-> FALSE, key |-> 0]

\* "torn": the file is there and does not parse.
SettingsFile == [state : {"absent", "torn", "ok"}, body : Settings]

\* "partial": the export has created some of the tables.
Database == [kind : {"absent", "plain", "partial", "enc"}, rows : SUBSET Rows]

NoDatabase == [kind |-> "absent", rows |-> {}]

StartupTypeOK ==
    /\ phase \in Phases
    /\ secret \in BOOLEAN
    /\ file \in SettingsFile
    /\ mem \in Settings
    /\ db \in Database /\ temp \in Database
    /\ keys \in 0..MaxKey
    /\ stored \subseteq Rows
    /\ firstKey \in 0..MaxKey
    /\ cut \in BOOLEAN

StartupInit ==
    /\ phase = "down"
    /\ secret = FALSE
    /\ file = [state |-> "absent", body |-> NoSettings]
    /\ mem = NoSettings
    /\ db = NoDatabase /\ temp = NoDatabase
    /\ keys = 0
    /\ stored = {}
    /\ firstKey = 0
    /\ cut = FALSE

----------------------------------------------------------------------------
(* The settings.                                                            *)

\* Mutant: a file that does not parse is replaced by the defaults.
LoadSettingsLenient ==
    /\ phase = "down"
    /\ IF file.state = "ok"
       THEN mem' = file.body /\ keys' = keys
       ELSE keys < MaxKey /\ keys' = keys + 1 /\ mem' = [enc |-> FALSE, key |-> keys + 1]
    /\ phase' = "load"
    /\ UNCHANGED <<secret, file, db, temp, stored, firstKey, cut>>

\* Settings::load_from_file: a corrupt file is refused; without a file the
\* defaults come with a signing key of their own.  The result is saved back.
LoadSettings ==
    /\ phase = "down"
    /\ file.state # "torn"
    /\ IF file.state = "ok"
       THEN mem' = file.body /\ keys' = keys
       ELSE keys < MaxKey /\ keys' = keys + 1 /\ mem' = [enc |-> FALSE, key |-> keys + 1]
    /\ phase' = "load"
    /\ UNCHANGED <<secret, file, db, temp, stored, firstKey, cut>>

Saving == phase \in {"load", "mark", "put"}

\* save_to_file truncates the file as it opens it ...
SaveOpen ==
    /\ Saving
    /\ file.state # "torn"
    /\ file' = [file EXCEPT !.state = "torn"]
    /\ UNCHANGED <<phase, secret, mem, db, temp, keys, stored, firstKey, cut>>

AfterSave == [load |-> "branch", mark |-> "open", put |-> "up"]

\* ... and writes it.
SaveWrite ==
    /\ Saving
    /\ file.state = "torn"
    /\ file' = [state |-> "ok", body |-> mem]
    /\ phase' = AfterSave[phase]
    /\ UNCHANGED <<secret, mem, db, temp, keys, stored, firstKey, cut>>

\* update_settings and the other setters that save: logic and auth are kept.
PutSettings ==
    /\ phase = "up"
    /\ phase' = "put"
    /\ UNCHANGED <<secret, file, mem, db, temp, keys, stored, firstKey, cut>>

----------------------------------------------------------------------------
(* The database.                                                            *)

Panic ==
    /\ phase' = "down"
    /\ mem' = NoSettings
    /\ UNCHANGED <<secret, file, db, temp, keys, stored, firstKey, cut>>

\* With a secret and a database not yet marked as encrypted: migrate what is
\* there, then set the mark (set_db_encrypted).
Branch ==
    /\ phase = "branch"
    /\ \/ /\ ~mem.enc /\ secret /\ db.kind # "absent"
          /\ phase' = "export"
          /\ UNCHANGED mem
       \/ /\ ~mem.enc /\ secret /\ db.kind = "absent"
          /\ phase' = "mark"
          /\ mem' = [mem EXCEPT !.enc = TRUE]
       \/ /\ mem.enc \/ ~secret
          /\ phase' = "open"
          /\ UNCHANGED mem
    /\ UNCHANGED <<secret, file, db, temp, keys, stored, firstKey, cut>>

\* Mutant: a copy left by an earlier attempt is taken for the finished one.
CreateEncryptDbReuse ==
    /\ phase = "export"
    /\ IF db.kind = "plain"
       THEN /\ phase' = IF temp.kind = "absent" THEN "copy" ELSE "remove"
            /\ temp' = IF temp.kind = "absent" THEN [kind |-> "partial", rows |-> {}] ELSE temp
            /\ UNCHANGED <<secret, file, mem, db, keys, stored, firstKey, cut>>
       ELSE Panic

\* create_encrypt_db: the export fails on a database it cannot read and on a
\* copy that already has tables.
CreateEncryptDb ==
    /\ phase = "export"
    /\ IF db.kind = "plain" /\ temp.kind = "absent"
       THEN /\ phase' = "copy"
            /\ temp' = [kind |-> "partial", rows |-> {}]
            /\ UNCHANGED <<secret, file, mem, db, keys, stored, firstKey, cut>>
       ELSE Panic

\* sqlcipher_export has copied every table.
ExportDone ==
    /\ phase = "copy"
    /\ phase' = "remove"
    /\ temp' = [kind |-> "enc", rows |-> db.rows]
    /\ UNCHANGED <<secret, file, mem, db, keys, stored, firstKey, cut>>

\* migrate_to_encrypted_db: remove the database ...
RemoveOld ==
    /\ phase = "remove"
    /\ phase' = "rename"
    /\ db' = NoDatabase
    /\ UNCHANGED <<secret, file, mem, temp, keys, stored, firstKey, cut>>

\* ... and put the copy in its place.
RenameCopy ==
    /\ phase = "rename"
    /\ phase' = "mark"
    /\ mem' = [mem EXCEPT !.enc = TRUE]
    /\ db' = temp
    /\ temp' = NoDatabase
    /\ UNCHANGED <<secret, file, keys, stored, firstKey, cut>>

\* VaulTLSDB::new opens or creates the file with the key that the mark asks
\* for; a file that is not what the mark says cannot be read.
OpenDatabase ==
    /\ phase = "open"
    /\ LET kind == IF mem.enc THEN "enc" ELSE "plain" IN
       IF (mem.enc => secret) /\ db.kind \in {"absent", kind}
       THEN /\ phase' = "up"
            /\ db' = [db EXCEPT !.kind = kind]
            /\ firstKey' = IF firstKey = 0 THEN mem.key ELSE firstKey
            /\ UNCHANGED <<secret, file, mem, temp, keys, stored, cut>>
       ELSE Panic

\* A request writes r and is answered.
Store(r) ==
    /\ phase = "up"
    /\ r \notin stored
    /\ db' = [db EXCEPT !.rows = @ \cup {r}]
    /\ stored' = stored \cup {r}
    /\ UNCHANGED <<phase, secret, file, mem, temp, keys, firstKey, cut>>

----------------------------------------------------------------------------
\* The process is killed, or exits.
Kill ==
    /\ phase # "down"
    /\ phase' = "down"
    /\ mem' = NoSettings
    /\ cut' = (cut \/ phase = "rename")
    /\ UNCHANGED <<secret, file, db, temp, keys, stored, firstKey>>

\* The operator adds or takes away the secret between two starts.
Configure ==
    /\ phase = "down"
    /\ secret' = ~secret
    /\ UNCHANGED <<phase, file, mem, db, temp, keys, stored, firstKey, cut>>

StartupStep ==
    \/ LoadSettings \/ SaveOpen \/ SaveWrite \/ PutSettings
    \/ Branch \/ CreateEncryptDb \/ ExportDone \/ RemoveOld \/ RenameCopy
    \/ OpenDatabase \/ Configure
    \/ \E r \in Rows : Store(r)

----------------------------------------------------------------------------
\* Wherever the process is killed, every row it has answered for is on disk, in
\* the database or in the complete copy; and the server that runs serves all
\* of them, unless a kill fell between remove_file and rename (the next start
\* then finds no database and creates an empty one beside the copy).
DataKept ==
    /\ stored \subseteq db.rows \cup temp.rows
    /\ phase \in {"up", "put"} /\ ~cut => stored \subseteq db.rows

\* The signing key outlives restarts and kills at any point: a settings file cut
\* short stops the server instead of giving it a new key, which would end every
\* service token.
KeyStable == phase \in {"up", "put"} => mem.key = firstKey

=============================================================================
