-------------------------- MODULE MCEntryLifecycle --------------------------
(* Small instances of EntryLifecycle for TLC. *)
EXTENDS EntryLifecycle

CONSTANTS lamp, temp        \* two symbols

MCUpper == [t \in TypeNames \union {Blank} |-> IF t = "real" THEN "REAL" ELSE t]

Var(n, t, async, writable) == [name |-> n, type |-> t, async_read |-> async, writable |-> writable]
Light(sections) == [light |-> TRUE, sections |-> sections]
Other(sections) == [light |-> FALSE, sections |-> sections]

(* A variable listed twice under two spellings, the first async; a light   *)
(* whose symbols are also polled variables, and an unfinished item.        *)
Plain == [variables |-> <<Var(temp, "REAL", TRUE, FALSE), Var(temp, "real", FALSE, TRUE)>>,
          device_profiles |-> <<>>]
Lit == [variables |-> <<Var(lamp, "BOOL", FALSE, TRUE), Var(Blank, "REAL", TRUE, FALSE),
                        Var(temp, "real", FALSE, TRUE)>>,
        device_profiles |-> <<Light(<<[name |-> lamp, type |-> "BOOL"],
                                      [name |-> temp, type |-> "real"]>>),
                              Other(<<[name |-> temp, type |-> "REAL"],
                                      [name |-> temp, type |-> "BOOL"]>>)>>]
MCConfigs == {NewConfig, Plain, Lit}
=============================================================================
