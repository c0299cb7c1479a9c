--------------------------- MODULE MCKeyRotation ---------------------------
(* Small instances of KeyRotation for TLC.                                  *)
EXTENDS KeyRotation

(* Both keys configured, the old one forgotten, and no current key.         *)
MCConfigs ==
    {[current |-> "new", previous |-> {"old"}],
     [current |-> "new", previous |-> {}],
     [current |-> Null, previous |-> {"old"}]}

V(form, key) == [form |-> form, key |-> key, text |-> 0]
Old == V("v2", "old")
Earlier == V("v1", "old")
Current == V("v2", "new")
Lost == V("v2", "lost")
Plain == V("plain", Null)
Broken == V("broken", Null)

None == <<>>
Payment(v) == [values |-> [c \in {"payload"} |-> v], of |-> 0, stale |-> FALSE]
Attempt(p, cb) == [values |-> [payload |-> p, callback_payload |-> cb], of |-> 0, stale |-> FALSE]
Log(old, new, of) == [values |-> [old_values |-> old, new_values |-> new], of |-> of, stale |-> FALSE]
Metadata(v, stale_) == [values |-> [c \in {"custom_metadata"} |-> v], of |-> 0, stale |-> stale_]

Tables(t, a, l, m) ==
    [transactions |-> t, transactionAttempts |-> a, transactionLogs |-> l, requestMetadata |-> m]

(* One row or two of each kind of value in one table, an old one elsewhere. *)
MCInitialRows ==
    {Tables(<<Payment(v)>>, <<Attempt(Old, NullValue)>>, <<Log(Earlier, v, 1)>>, None) : v \in {Old, Plain}}
      \cup {Tables(None, <<Attempt(v, w), Attempt(Earlier, x)>>, None, None) :
                v \in {Old, Current}, w \in {Old, Lost, NullValue}, x \in {Old, Lost}}
      \cup {Tables(<<Payment(Old)>>, None, <<Log(v, w, 1), Log(NullValue, Old, 1)>>, None) :
                v \in {Old, Broken}, w \in {Lost, Current}}
      \cup {Tables(<<Payment(Old)>>, None, None,
                   <<Metadata(Old, TRUE), Metadata(v, TRUE), Metadata(Old, s)>>) :
                v \in {Old, Broken}, s \in BOOLEAN}

MCBatch == [p \in Pruner |-> 2]

============================================================================
