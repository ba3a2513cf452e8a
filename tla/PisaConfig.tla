----------------------------- MODULE PisaConfig -----------------------------
(***************************************************************************)
(* ConfigManager (config.py): the YAML settings file and the nested        *)
(* mapping a pisactl, scheduler or monitor process holds after reading it. *)
(* A mapping is a function from a set of keys to values; a value is a      *)
(* scalar or a mapping.  A process may start (and read the file) at any    *)
(* time; the file may be edited by hand; set, update and save_config are   *)
(* the process's own operations.                                           *)
(***************************************************************************)
EXTENDS Naturals, Sequences, TLC

CONSTANTS
    Keys,        \* the setting names that occur, at any depth
    Scalars,     \* the leaf values (numbers, strings, booleans)
    Defaults,    \* get_default_config()
    FileVals,    \* the files an operator may write
    SetPaths,    \* the dotted keys given to set, as sequences of names
    UpdateVals,  \* the mappings given to update
    SaveVals,    \* the mappings given to the module-level save_config
    Absent,      \* no file at config_path
    Garbage,     \* a file yaml.safe_load rejects, or whose document is
                 \* not a mapping (also the empty file)
    Missing,     \* the default of get: the path does not lead to a value
    NoConfig     \* no ConfigManager constructed yet

ASSUME ConfigAssumption ==
    /\ {Absent, Garbage, Missing, NoConfig} \cap Scalars = {}
    /\ Defaults \notin Scalars \cup {Absent, Garbage}

VARIABLES
    file,       \* the content of config_path
    config,     \* self.config of the process's ConfigManager
    lastSaved   \* the mapping of the last successful save, NoConfig when
                \* the file was written otherwise since

vars == <<file, config, lastSaved>>

IsDict(v) == v \notin Scalars

EmptyDict == [k \in {} |-> Missing]

(* get (lines 91-102): follow the keys while the value is a mapping that *)
(* has the next key; otherwise return the default.                        *)
RECURSIVE GetPath(_, _, _)
GetPath(v, p, dflt) ==
    IF p = <<>> THEN v
    ELSE IF IsDict(v) /\ Head(p) \in DOMAIN v
         THEN GetPath(v[Head(p)], Tail(p), dflt)
         ELSE dflt

(* The paths from a mapping to its scalar leaves. *)
RECURSIVE LeafPaths(_)
LeafPaths(v) ==
    IF v \in Scalars THEN {<<>>}
    ELSE UNION {{<<k>> \o q : q \in LeafPaths(v[k])} : k \in DOMAIN v}

(* Variant of LoadConfig that lets the defaults win over the file. *)
LoadConfigDefaultsWin(f) ==
    IF f \in {Absent, Garbage} THEN Defaults ELSE Defaults @@ f

(* Variant of LoadConfig that returns an empty mapping on a bad file. *)
LoadConfigEmptyOnError(f) ==
    IF f = Absent THEN Defaults
    ELSE IF f = Garbage THEN EmptyDict ELSE f @@ Defaults

(* load_config (lines 21-32): the defaults when there is no file or it     *)
(* cannot be read as a mapping (the exception of line 30, or a falsy      *)
(* document turned into {} by line 28); otherwise the file's top-level     *)
(* entries over the defaults' (line 29), each replacing a whole section.   *)
LoadConfig(f) ==
    IF f \in {Absent, Garbage} THEN Defaults ELSE f @@ Defaults

(* set (lines 104-114) succeeds when every value on the way is a mapping; *)
(* a missing key is created as {} (line 111), and a scalar on the way      *)
(* raises TypeError (lines 110-112) before anything is written.            *)
RECURSIVE CanSet(_, _)
CanSet(v, p) ==
    /\ IsDict(v)
    /\ \/ Len(p) = 1
       \/ Head(p) \notin DOMAIN v
       \/ CanSet(v[Head(p)], Tail(p))

RECURSIVE SetPath(_, _, _)
SetPath(v, p, x) ==
    LET k     == Head(p)
        child == IF k \in DOMAIN v THEN v[k] ELSE EmptyDict
    IN  [j \in DOMAIN v \cup {k} |->
            IF j # k THEN v[j]
            ELSE IF Len(p) = 1 THEN x ELSE SetPath(child, Tail(p), x)]

(* deep_update (lines 118-123): a mapping merged into a mapping is merged *)
(* key by key; anything else replaces the old value.                       *)
RECURSIVE DeepUpdate(_, _)
DeepUpdate(b, u) ==
    [k \in DOMAIN b \cup DOMAIN u |->
        IF k \notin DOMAIN u THEN b[k]
        ELSE IF IsDict(u[k]) /\ k \in DOMAIN b /\ IsDict(b[k])
             THEN DeepUpdate(b[k], u[k])
             ELSE u[k]]

-----------------------------------------------------------------------------
Init ==
    /\ file \in FileVals
    /\ config = NoConfig
    /\ lastSaved = NoConfig

(* A process starts: ConfigManager.__init__ (lines 17-19), also through   *)
(* the module-level load_config (lines 128-131).                          *)
Construct ==
    /\ config' = LoadConfig(file)
    /\ UNCHANGED <<file, lastSaved>>

(* An operator writes the file by hand. *)
EditFile(f) ==
    /\ file' = f
    /\ lastSaved' = NoConfig
    /\ UNCHANGED config

(* set(key, value); on TypeError nothing has been written. *)
Set(p, x) ==
    /\ config # NoConfig
    /\ config' = IF CanSet(config, p) THEN SetPath(config, p, x) ELSE config
    /\ UNCHANGED <<file, lastSaved>>

(* update(updates). *)
Update(u) ==
    /\ config # NoConfig
    /\ config' = DeepUpdate(config, u)
    /\ UNCHANGED <<file, lastSaved>>

(* save_config(c) (lines 34-47): on success the file holds c and so does  *)
(* self.config (line 43).  mkdir or open may fail with the file untouched; *)
(* safe_dump may fail after open(..., 'w') has truncated it, leaving a     *)
(* file that reads as no mapping.  Either failure returns False.           *)
SaveMapping(c) ==
    \/ /\ file' = c
       /\ config' = c
       /\ lastSaved' = c
    \/ UNCHANGED vars
    \/ /\ file' = Garbage
       /\ lastSaved' = NoConfig
       /\ UNCHANGED config

(* save_config() with no argument saves self.config (lines 36-37). *)
Save ==
    /\ config # NoConfig
    /\ SaveMapping(config)

(* The module-level save_config(c) (lines 134-137) saves c through a      *)
(* fresh manager of its own; the process's manager, if any, keeps its     *)
(* mapping.                                                                *)
SaveGiven(c) ==
    /\ \/ /\ file' = c
          /\ lastSaved' = c
       \/ UNCHANGED <<file, lastSaved>>
       \/ /\ file' = Garbage
          /\ lastSaved' = NoConfig
    /\ UNCHANGED config

Next ==
    \/ Construct
    \/ \E f \in FileVals : EditFile(f)
    \/ \E p \in SetPaths, x \in Scalars : Set(p, x)
    \/ \E u \in UpdateVals : Update(u)
    \/ Save
    \/ \E c \in SaveVals : SaveGiven(c)

Spec == Init /\ [][Next]_vars

-----------------------------------------------------------------------------
(* A value is a scalar or a mapping over Keys of such values. *)
RECURSIVE WellFormed(_)
WellFormed(v) ==
    \/ v \in Scalars
    \/ /\ DOMAIN v \subseteq Keys
       /\ \A k \in DOMAIN v : WellFormed(v[k])

(* The file and the held mapping are well formed, and a held mapping has  *)
(* every section of the defaults, whatever was read, set or updated.       *)
TypeOK ==
    /\ file \in {Absent, Garbage} \/ (IsDict(file) /\ WellFormed(file))
    /\ config = NoConfig
       \/ (IsDict(config) /\ WellFormed(config)
           /\ DOMAIN Defaults \subseteq DOMAIN config)
    /\ lastSaved = NoConfig \/ WellFormed(lastSaved)

(* A file written by save_config reads back: a process that starts while  *)
(* it is there gets every setting of the saved mapping unchanged, through *)
(* the merge with the defaults at line 29.                                  *)
SavedSettingsReload ==
    lastSaved # NoConfig =>
        \A p \in LeafPaths(lastSaved) :
            GetPath(LoadConfig(file), p, Missing) = GetPath(lastSaved, p, Missing)

(* The file overrides the setting at p: it has a scalar at p or above it. *)
Overrides(f, p) ==
    /\ f \notin {Absent, Garbage}
    /\ \E n \in 1..Len(p) : GetPath(f, SubSeq(p, 1, n), Missing) \in Scalars

(* A setting the file does not override keeps its default: the reading    *)
(* that get's callers rely on when they pass no fallback (scheduler.py     *)
(* lines 25-29, monitor.py lines 29-33 read database.* this way), and what *)
(* update's deep merge (lines 118-123) does.                               *)
LoadKeepsDefaults ==
    \A p \in LeafPaths(Defaults) :
        ~Overrides(file, p) =>
            GetPath(LoadConfig(file), p, Missing) = GetPath(Defaults, p, Missing)

=============================================================================
