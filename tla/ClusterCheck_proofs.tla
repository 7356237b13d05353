------------------------- MODULE ClusterCheck_proofs -------------------------
(***************************************************************************)
(* Theorems about ClusterCheck, for every answer of the daemon, every TRES *)
(* and QOS table and both widths.                                          *)
(***************************************************************************)
EXTENDS ClusterCheckInv, TLAPS

------------------------------------------------------------------------------
(* The object job_to_value makes.                                          *)

TableNames ==
  {"account", "array_task_id", "exitcode", "flags", "job_id", "priority", "qos", "req_mem",
   "state", "time_elapsed", "time_timelimit", "tres_alloc_str", "tres_req_str"}
ExitNames == {"exitcode_return_code", "exitcode_signal"}
TresPrefixes == {"allocated", "requested"}

LEMMA KeyName == \A n, m : Key(n)[1] = n /\ (Key(n) = Key(m) => n = m)
  BY DEF Key

LEMMA RowNames ==
  \A job : DOMAIN TableRows(job) = TableNames /\ DOMAIN ExitFields(job) = ExitNames
  BY DEF TableRows, ExitFields, TableNames, ExitNames

LEMMA NamedRows ==
  ASSUME NEW rows
  PROVE  /\ DOMAIN Named(rows) = {Key(n) : n \in DOMAIN rows}
         /\ \A n \in DOMAIN rows : Named(rows)[Key(n)] = rows[n]
  BY KeyName DEF Named

(* Of four maps a key of one only has the value it has there.              *)
LEMMA InsertedFour ==
  ASSUME NEW a, NEW b, NEW c, NEW d
  PROVE  LET m == Inserted(<<a, b, c, d>>)
         IN  /\ DOMAIN m = DOMAIN a \cup DOMAIN b \cup DOMAIN c \cup DOMAIN d
             /\ \A k \in DOMAIN a \ (DOMAIN b \cup DOMAIN c \cup DOMAIN d) : m[k] = a[k]
             /\ \A k \in DOMAIN b \ (DOMAIN a \cup DOMAIN c \cup DOMAIN d) : m[k] = b[k]
             /\ \A k \in DOMAIN c \ (DOMAIN a \cup DOMAIN b \cup DOMAIN d) : m[k] = c[k]
             /\ \A k \in DOMAIN d \ (DOMAIN a \cup DOMAIN b \cup DOMAIN c) : m[k] = d[k]
<1> DEFINE maps == <<a, b, c, d>>
           Has(k) == {i \in DOMAIN maps : k \in DOMAIN maps[i]}
<1>1. DOMAIN maps = {1, 2, 3, 4} /\ maps[1] = a /\ maps[2] = b /\ maps[3] = c /\ maps[4] = d
  OBVIOUS
<1>2. \A n : n \in Int => Max({n}) = n
  BY DEF Max
<1>3. Inserted(maps) = [k \in UNION {DOMAIN maps[i] : i \in DOMAIN maps} |-> maps[Max(Has(k))][k]]
  BY DEF Inserted
<1> HIDE DEF maps
<1>4. UNION {DOMAIN maps[i] : i \in DOMAIN maps}
        = DOMAIN a \cup DOMAIN b \cup DOMAIN c \cup DOMAIN d
  BY <1>1
<1>5. \A k \in DOMAIN a \ (DOMAIN b \cup DOMAIN c \cup DOMAIN d) : Has(k) = {1}
  BY <1>1
<1>6. \A k \in DOMAIN b \ (DOMAIN a \cup DOMAIN c \cup DOMAIN d) : Has(k) = {2}
  BY <1>1
<1>7. \A k \in DOMAIN c \ (DOMAIN a \cup DOMAIN b \cup DOMAIN d) : Has(k) = {3}
  BY <1>1
<1>8. \A k \in DOMAIN d \ (DOMAIN a \cup DOMAIN b \cup DOMAIN c) : Has(k) = {4}
  BY <1>1
<1> HIDE DEF Has
<1>9. /\ DOMAIN Inserted(maps) = DOMAIN a \cup DOMAIN b \cup DOMAIN c \cup DOMAIN d
      /\ \A k \in DOMAIN Inserted(maps) : Inserted(maps)[k] = maps[Max(Has(k))][k]
  BY <1>3, <1>4
<1> QED
  BY <1>1, <1>2, <1>5, <1>6, <1>7, <1>8, <1>9 DEF maps

(* A key of an expansion begins with the prefix.                           *)
LEMMA FlatKeys ==
  ASSUME NEW prefix, NEW raw, NEW key \in DOMAIN tres_flat_fields(prefix, raw)
  PROVE  key[1] = prefix
<1> DEFINE entries == parse_tres(raw)
           UnderKey(e) == TresKey(prefix, e)
           Kept(e) == {UnderKey(e)} \cup (IF Model(e.name) = <<>> THEN {} ELSE {TypeKey(UnderKey(e))})
<1>1. PICK i \in DOMAIN entries : key \in Kept(entries[i])
  BY DEF tres_flat_fields, Inserted
<1>2. \A e : UnderKey(e)[1] = prefix
  BY DEF TresKey
<1>3. \A k : TypeKey(k)[1] = k[1]
  BY DEF TypeKey
<1> QED
  BY <1>1, <1>2, <1>3

(* Every value of the object, and what is expanded under each prefix.      *)
LEMMA ObjectValues ==
  ASSUME NEW job
  PROVE  LET v == job_to_value(job)
             flat(prefix) == tres_flat_fields(prefix,
               Pairs(IF prefix = "allocated" THEN job.tres_alloc_str ELSE job.tres_req_str))
         IN  /\ \A n \in TableNames : Key(n) \in DOMAIN v /\ v[Key(n)] = TableRows(job)[n]
             /\ \A n \in ExitNames : Key(n) \in DOMAIN v /\ v[Key(n)] = ExitFields(job)[n]
             /\ \A prefix \in TresPrefixes :
                  /\ {key \in DOMAIN v : key[1] = prefix} = DOMAIN flat(prefix)
                  /\ \A key \in DOMAIN flat(prefix) : v[key] = flat(prefix)[key]
             /\ \A key \in DOMAIN v :
                  (\E n \in TableNames \cup ExitNames : key = Key(n)) \/ key[1] \in TresPrefixes
<1> DEFINE v == job_to_value(job)
           table == Named(TableRows(job))
           exits == Named(ExitFields(job))
           alloc == tres_flat_fields("allocated", Pairs(job.tres_alloc_str))
           req == tres_flat_fields("requested", Pairs(job.tres_req_str))
<1>1. /\ DOMAIN table = {Key(n) : n \in TableNames}
      /\ \A n \in TableNames : table[Key(n)] = TableRows(job)[n]
  BY RowNames, NamedRows
<1>2. /\ DOMAIN exits = {Key(n) : n \in ExitNames}
      /\ \A n \in ExitNames : exits[Key(n)] = ExitFields(job)[n]
  BY RowNames, NamedRows
<1>3. \A key \in DOMAIN alloc : key[1] = "allocated"
  BY FlatKeys
<1>4. \A key \in DOMAIN req : key[1] = "requested"
  BY FlatKeys
<1>5. v = Inserted(<<table, alloc, req, exits>>)
  BY DEF job_to_value
<1>6. /\ "allocated" \notin TableNames \cup ExitNames
      /\ "requested" \notin TableNames \cup ExitNames
      /\ TableNames \cap ExitNames = {}
  BY DEF TableNames, ExitNames
<1>7. \A key \in DOMAIN table \cup DOMAIN exits : key[1] \in TableNames \cup ExitNames
  BY <1>1, <1>2, KeyName
<1> HIDE DEF v, table, exits, alloc, req
<1>8. /\ DOMAIN table \cap DOMAIN exits = {}
      /\ DOMAIN alloc \cap DOMAIN req = {}
      /\ (DOMAIN table \cup DOMAIN exits) \cap (DOMAIN alloc \cup DOMAIN req) = {}
  <2>1. DOMAIN table \cap DOMAIN exits = {}
    BY <1>1, <1>2, <1>6, KeyName
  <2>2. DOMAIN alloc \cap DOMAIN req = {}
    BY <1>3, <1>4
  <2>3. (DOMAIN table \cup DOMAIN exits) \cap (DOMAIN alloc \cup DOMAIN req) = {}
    BY <1>3, <1>4, <1>6, <1>7
  <2> QED
    BY <2>1, <2>2, <2>3
<1>9. /\ DOMAIN v = DOMAIN table \cup DOMAIN alloc \cup DOMAIN req \cup DOMAIN exits
      /\ \A key \in DOMAIN table : v[key] = table[key]
      /\ \A key \in DOMAIN exits : v[key] = exits[key]
      /\ \A key \in DOMAIN alloc : v[key] = alloc[key]
      /\ \A key \in DOMAIN req : v[key] = req[key]
  BY <1>5, <1>8, InsertedFour
<1>10. /\ \A n \in TableNames : Key(n) \in DOMAIN v /\ v[Key(n)] = TableRows(job)[n]
       /\ \A n \in ExitNames : Key(n) \in DOMAIN v /\ v[Key(n)] = ExitFields(job)[n]
  BY <1>1, <1>2, <1>9
<1>11. \A key \in DOMAIN v : key[1] = "allocated" <=> key \in DOMAIN alloc
  <2> SUFFICES ASSUME NEW key \in DOMAIN v PROVE key[1] = "allocated" <=> key \in DOMAIN alloc
    OBVIOUS
  <2>1. CASE key \in DOMAIN table \cup DOMAIN exits
    BY <1>6, <1>7, <1>8, <2>1
  <2>2. CASE key \in DOMAIN alloc \cup DOMAIN req
    BY <1>3, <1>4, <2>2
  <2> QED
    BY <1>9, <2>1, <2>2
<1>12. \A key \in DOMAIN v : key[1] = "requested" <=> key \in DOMAIN req
  <2> SUFFICES ASSUME NEW key \in DOMAIN v PROVE key[1] = "requested" <=> key \in DOMAIN req
    OBVIOUS
  <2>1. CASE key \in DOMAIN table \cup DOMAIN exits
    BY <1>6, <1>7, <1>8, <2>1
  <2>2. CASE key \in DOMAIN alloc \cup DOMAIN req
    BY <1>3, <1>4, <2>2
  <2> QED
    BY <1>9, <2>1, <2>2
<1>13. \A key \in DOMAIN v :
         (\E n \in TableNames \cup ExitNames : key = Key(n)) \/ key[1] \in TresPrefixes
  BY <1>1, <1>2, <1>3, <1>4, <1>9 DEF TresPrefixes
<1>14. {key \in DOMAIN v : key[1] = "allocated"} = DOMAIN alloc
  BY <1>9, <1>11
<1>15. {key \in DOMAIN v : key[1] = "requested"} = DOMAIN req
  BY <1>9, <1>12
<1> QED
  BY <1>9, <1>10, <1>13, <1>14, <1>15 DEF TresPrefixes, v, alloc, req

------------------------------------------------------------------------------
(* What the comparison accepts, field by field.                            *)

Tolerated(v, right) == v = right \/ (right \in {Num(0), Str("")} /\ v \in Sentinels \cup {Null})

RawAccepted(v, n) == v = Num(n) \/ (n \in {NO_VAL, INFINITE} /\ v \in Sentinels)

LimitAccepted(v, n) == v = U32Inf0(n) \/ (n = NO_VAL /\ v \in Sentinels)

MemAccepted(v, n) ==
  \/ v = Num(n) /\ n \notin NoMemoryPerCpu
  \/ n \in {0, NO_VAL, INFINITE} \cup NoMemoryPerCpu /\ v \in Sentinels \cup {Num(0)}

LEMMA Widths ==
  /\ U32 \in Nat /\ U64 \in Nat
  /\ HALF \in Nat /\ U64 = 2 * HALF /\ HALF > INFINITE
  /\ NO_VAL \in Nat /\ NO_VAL > 255 /\ INFINITE \in Nat /\ INFINITE = NO_VAL + 1
  BY WidthAssumption, SMT DEF HALF, NO_VAL, INFINITE

(* The type of a JSON value is part of it.                                 *)
LEMMA Values ==
  /\ \A n, m : Num(n) = Num(m) => n = m
  /\ \A n, s : Num(n) # Str(s)
  /\ \A n, s : Num(n) # Text(s)
  /\ \A s, t : Str(s) # Text(t)
  /\ \A s, t : Text(s) = Text(t) => s = t
  /\ \A n : Null # Num(n)
  /\ \A s : Null # Str(s)
  /\ \A s : Null # Text(s)
  BY DEF Num, Str, Text, Null

LEMMA NoDifference ==
  ASSUME NEW field, NEW ok \in BOOLEAN
  PROVE  Differs(field, ok) = {} <=> ok
  BY DEF Differs

LEMMA SentinelField ==
  ASSUME NEW field, NEW f, NEW s
  PROVE  eq_sentinel(field, f, s) = {}
           <=> Tolerated(f, s)
  BY NoDifference DEF eq_sentinel, Tolerated

(* sacct's three ways of printing a number, told apart again.              *)
LEMMA Unwrapped ==
  ASSUME NEW n \in Nat
  PROVE  /\ unwrap(Wrapped(n)) =
               IF n = INFINITE THEN "inf" ELSE IF n = NO_VAL THEN "unset" ELSE "v"
         /\ unwrap(Wrapped(n)) = "v" => Wrapped(n).number = n
  BY Widths DEF unwrap, Wrapped

LEMMA RawField ==
  ASSUME NEW field, NEW f, NEW n \in Nat
  PROVE  eq_wrapped(field, f, Wrapped(n), FALSE, FALSE) = {} <=> RawAccepted(f, n)
<1>1. CASE n = INFINITE
  <2>1. unwrap(Wrapped(n)) = "inf"
    BY <1>1, Unwrapped
  <2> QED
    BY <1>1, <2>1, Widths DEF eq_wrapped, Differs, RawAccepted, Sentinels
<1>2. CASE n = NO_VAL
  <2>1. unwrap(Wrapped(n)) = "unset" /\ n # INFINITE
    BY <1>2, Unwrapped, Widths
  <2> QED
    BY <1>2, <2>1 DEF eq_wrapped, Differs, RawAccepted, Sentinels
<1>3. CASE n \notin {NO_VAL, INFINITE}
  <2>1. unwrap(Wrapped(n)) = "v" /\ Wrapped(n).number = n
    BY <1>3, Unwrapped
  <2> QED
    BY <1>3, <2>1 DEF eq_wrapped, Differs, RawAccepted, Sentinels
<1> QED
  BY <1>1, <1>2, <1>3

LEMMA NullableField ==
  ASSUME NEW field, NEW f, NEW n \in Nat
  PROVE  eq_wrapped(field, f, Wrapped(n), TRUE, FALSE) = {} <=> f = NoVal32(n)
<1>1. CASE n = INFINITE
  <2>1. unwrap(Wrapped(n)) = "inf"
    BY <1>1, Unwrapped
  <2> QED
    BY <1>1, <2>1, Widths DEF eq_wrapped, Differs, NoVal32
<1>2. CASE n = NO_VAL
  <2>1. unwrap(Wrapped(n)) = "unset" /\ n # INFINITE
    BY <1>2, Unwrapped, Widths
  <2> QED
    BY <1>2, <2>1 DEF eq_wrapped, Differs, NoVal32
<1>3. CASE n \notin {NO_VAL, INFINITE}
  <2>1. unwrap(Wrapped(n)) = "v" /\ Wrapped(n).number = n
    BY <1>3, Unwrapped
  <2> QED
    BY <1>3, <2>1 DEF eq_wrapped, Differs, NoVal32
<1> QED
  BY <1>1, <1>2, <1>3

LEMMA LimitField ==
  ASSUME NEW field, NEW f, NEW n \in Nat
  PROVE  eq_wrapped(field, f, Wrapped(n), FALSE, TRUE) = {} <=> LimitAccepted(f, n)
<1>1. CASE n = INFINITE
  <2>1. unwrap(Wrapped(n)) = "inf"
    BY <1>1, Unwrapped
  <2> QED
    BY <1>1, <2>1, Widths DEF eq_wrapped, Differs, LimitAccepted, U32Inf0, Sentinels
<1>2. CASE n = NO_VAL
  <2>1. unwrap(Wrapped(n)) = "unset" /\ n # INFINITE
    BY <1>2, Unwrapped, Widths
  <2> QED
    BY <1>2, <2>1 DEF eq_wrapped, Differs, LimitAccepted, U32Inf0, Sentinels
<1>3. CASE n \notin {NO_VAL, INFINITE}
  <2>1. unwrap(Wrapped(n)) = "v" /\ Wrapped(n).number = n
    BY <1>3, Unwrapped
  <2> QED
    BY <1>3, <2>1 DEF eq_wrapped, Differs, LimitAccepted, U32Inf0, Sentinels
<1> QED
  BY <1>1, <1>2, <1>3

(* The wait macros and process_exit_code: the comparison accepts the pair  *)
(* of the decoder and no other.                                            *)
LEMMA ExitPair ==
  ASSUME NEW job, job.exitcode \in Nat, NEW f, NEW s,
         s.return_code = ReturnCode(job.exitcode), s.signal = Signal(job.exitcode)
  PROVE  compare_exit_code(f, s) = {}
           <=> \A n \in ExitNames : f[Key(n)] = ExitFields(job)[n]
<1> DEFINE raw == job.exitcode
           low7 == raw % 128
           rc == f[Key("exitcode_return_code")]
           sig == f[Key("exitcode_signal")]
<1>1. low7 \in 0..127 /\ (raw \div 256) % 256 \in 0..255
  OBVIOUS
<1>2. NO_VAL > 255 /\ INFINITE > 255
  BY Widths DEF NO_VAL, INFINITE
<1>3. (\A n \in ExitNames : f[Key(n)] = ExitFields(job)[n])
        <=> /\ rc = NumOrNull(process_exit_code(raw)[1])
            /\ sig = NumOrNull(process_exit_code(raw)[2])
  BY DEF ExitNames, ExitFields
<1>4. compare_exit_code(f, s) = {}
        <=> /\ unwrap(s.return_code) = "v" => rc = Num(s.return_code.number)
            /\ unwrap(s.return_code) = "unset" => rc = Null
            /\ sig = IF HasSignal(s) THEN Num(s.signal.number) ELSE Null
  BY NoDifference DEF compare_exit_code, ReturnCodeDiffers
<1>5. CASE raw # NO_VAL /\ low7 = 0
  <2>1. process_exit_code(raw) = <<Some((raw \div 256) % 256), Nothing>>
    BY <1>5 DEF process_exit_code
  <2>2. unwrap(s.return_code) = "v" /\ s.return_code.number = (raw \div 256) % 256
    BY <1>1, <1>2, <1>5, Unwrapped DEF ReturnCode
  <2>3. unwrap(s.signal) = "unset"
    BY <1>1, <1>2, <1>5, Unwrapped, Widths DEF Signal
  <2> QED
    BY <1>3, <1>4, <2>1, <2>2, <2>3 DEF HasSignal, NumOrNull, Some, Nothing
<1>6. CASE raw # NO_VAL /\ low7 \in 1..126
  <2>1. process_exit_code(raw) = <<Nothing, Some(low7)>>
    BY <1>6 DEF process_exit_code
  <2>2. unwrap(s.return_code) = "unset"
    BY <1>1, <1>2, <1>6, Unwrapped, Widths DEF ReturnCode
  <2>3. unwrap(s.signal) = "v" /\ s.signal.number = low7
    BY <1>1, <1>2, <1>6, Unwrapped DEF Signal
  <2>4. HasSignal(s)
    BY <1>6, <2>3 DEF HasSignal
  <2>5. NumOrNull(Nothing) = Null /\ NumOrNull(Some(low7)) = Num(low7)
    BY DEF NumOrNull, Some, Nothing
  <2> QED
    BY <1>3, <1>4, <2>1, <2>2, <2>3, <2>4, <2>5
<1>7. CASE raw = NO_VAL \/ low7 = 127
  <2>1. process_exit_code(raw) = <<Nothing, Nothing>>
    BY <1>7 DEF process_exit_code
  <2>2. unwrap(s.return_code) = "unset"
    BY <1>1, <1>2, <1>7, Unwrapped, Widths DEF ReturnCode
  <2>3. unwrap(s.signal) = "unset"
    BY <1>1, <1>2, <1>7, Unwrapped, Widths DEF Signal
  <2> QED
    BY <1>3, <1>4, <2>1, <2>2, <2>3 DEF HasSignal, NumOrNull, Some, Nothing
<1> QED
  BY <1>1, <1>5, <1>6, <1>7

(* Memory per CPU and per node, put together again.                        *)
LEMMA Memory ==
  ASSUME NEW mem \in Nat, NEW f, NEW s,
         s.memory_per_cpu = Wrapped(IF mem >= MEM_PER_CPU THEN mem - MEM_PER_CPU ELSE NO_VAL),
         s.memory_per_node = Wrapped(IF mem < MEM_PER_CPU THEN mem ELSE NO_VAL)
  PROVE  CompareMem(f, s) = {} <=> MemAccepted(f[Key("req_mem")], mem)
<1> DEFINE v == f[Key("req_mem")]
           Given(w) == unwrap(w) = "v" /\ w.number # 0
           cpu == mem - MEM_PER_CPU
<1>1. /\ MEM_PER_CPU \in Nat /\ NO_VAL \in Nat /\ NO_VAL > 0
      /\ MEM_PER_CPU > INFINITE /\ INFINITE = NO_VAL + 1
  BY Widths DEF MEM_PER_CPU
<1>0. mem \in NoMemoryPerCpu
        <=> mem = MEM_PER_CPU \/ mem = MEM_PER_CPU + NO_VAL \/ mem = MEM_PER_CPU + INFINITE
  BY <1>1 DEF NoMemoryPerCpu
<1>2. /\ Given(s.memory_per_cpu) =>
           (CompareMem(f, s) = {} <=> v = Num(MEM_PER_CPU + s.memory_per_cpu.number))
      /\ ~Given(s.memory_per_cpu) /\ Given(s.memory_per_node) =>
           (CompareMem(f, s) = {} <=> v = Num(s.memory_per_node.number))
      /\ ~Given(s.memory_per_cpu) /\ ~Given(s.memory_per_node) =>
           (CompareMem(f, s) = {} <=> v \in Sentinels \cup {Num(0)})
  <2>1. CASE Given(s.memory_per_cpu)
    BY <2>1 DEF CompareMem, Differs
  <2>2. CASE ~Given(s.memory_per_cpu) /\ Given(s.memory_per_node)
    BY <2>2 DEF CompareMem, Differs
  <2>3. CASE ~Given(s.memory_per_cpu) /\ ~Given(s.memory_per_node)
    BY <2>3 DEF CompareMem, Differs
  <2> QED
    BY <2>1, <2>2, <2>3
<1>3. CASE mem >= MEM_PER_CPU
  <2>1. cpu \in Nat /\ mem = MEM_PER_CPU + cpu
    BY <1>1, <1>3
  <2>2. s.memory_per_cpu = Wrapped(cpu) /\ s.memory_per_node = Wrapped(NO_VAL)
    BY <1>1, <1>3
  <2>3. ~Given(s.memory_per_node)
    BY <2>2, Unwrapped, Widths
  <2>4. Given(s.memory_per_cpu) <=> cpu \notin {0, NO_VAL, INFINITE}
    BY <2>1, <2>2, Unwrapped, Widths
  <2>5. Given(s.memory_per_cpu) => s.memory_per_cpu.number = cpu
    BY <2>1, <2>2, Unwrapped
  <2>6. mem \in {0, NO_VAL, INFINITE} \cup NoMemoryPerCpu <=> cpu \in {0, NO_VAL, INFINITE}
    BY <1>0, <1>1, <1>3, <2>1
  <2> HIDE DEF v, Given, cpu
  <2> QED
    BY <1>2, <2>1, <2>3, <2>4, <2>5, <2>6 DEF v, MemAccepted, Sentinels
<1>4. CASE mem < MEM_PER_CPU
  <2>1. s.memory_per_cpu = Wrapped(NO_VAL) /\ s.memory_per_node = Wrapped(mem)
    BY <1>1, <1>4
  <2>2. ~Given(s.memory_per_cpu)
    BY <2>1, Unwrapped, Widths
  <2>3. Given(s.memory_per_node) <=> mem \notin {0, NO_VAL, INFINITE}
    BY <2>1, Unwrapped, Widths
  <2>4. Given(s.memory_per_node) => s.memory_per_node.number = mem
    BY <2>1, Unwrapped
  <2>5. mem \notin NoMemoryPerCpu
    BY <1>0, <1>1, <1>4
  <2> HIDE DEF v, Given, cpu
  <2> QED
    BY <1>2, <2>2, <2>3, <2>4, <2>5 DEF v, MemAccepted, Sentinels
<1> QED
  BY <1>1, <1>3, <1>4

(* A count survives the unsigned wire and the signed answer.               *)
LEMMA SignedCount ==
  ASSUME NEW n \in 0..(U64 - 1)
  PROVE  /\ ParseU64(Some(n)) = Some(n) /\ Default(Some(n)) = n
         /\ Count(Some(n)) = IF 2 * n >= U64 THEN n - U64 ELSE n
         /\ Count(Some(n)) % U64 = n
<1>1. ParseU64(Some(n)) = Some(n) /\ Some(n) # Nothing /\ Some(n)[1] = n
  BY Widths DEF ParseU64, InRange, Some, Nothing
<1>2. Count(Some(n)) = IF n >= HALF THEN n - U64 ELSE n
  BY <1>1 DEF Count, AsI64
<1>3. Count(Some(n)) = IF 2 * n >= U64 THEN n - U64 ELSE n
  BY <1>2, Widths
<1>4. n % U64 = n /\ (n - U64) % U64 = n
  BY Widths
<1> QED
  BY <1>1, <1>3, <1>4 DEF Default

LEMMA Wire ==
  ASSUME NEW text \in TresString
  PROVE  /\ Pairs(text) \in Seq(Numeral \X Numeral)
         /\ \A i \in DOMAIN Pairs(text) : \E id, count \in 0..(U64 - 1) :
              Pairs(text)[i] = <<Some(id), Some(count)>>
<1>1. Pairs(text) \in Seq(Numeral \X Numeral)
  <2>1. CASE text = Null
    BY <2>1 DEF Pairs
  <2>2. CASE text # Null
    BY <2>2 DEF Pairs, TresString
  <2> QED
    BY <2>1, <2>2
<1>2. \A h \in Numeral : h[1] \in 0..(U64 - 1) /\ h = Some(h[1])
  BY DEF Numeral, Some
<1>3. ASSUME NEW i \in DOMAIN Pairs(text)
      PROVE  \E id, count \in 0..(U64 - 1) : Pairs(text)[i] = <<Some(id), Some(count)>>
  <2>1. Pairs(text)[i] \in Numeral \X Numeral
    BY <1>1
  <2>2. Pairs(text)[i] = <<Pairs(text)[i][1], Pairs(text)[i][2]>>
    BY <2>1
  <2> QED
    BY <1>2, <2>1, <2>2
<1> QED
  BY <1>1, <1>3

LEMMA Entries ==
  ASSUME NEW text \in TresString
  PROVE  /\ parse_tres(Pairs(text)) = SacctTres(Pairs(text))
         /\ rebuild_tres_str(SacctTres(Pairs(text))) = Pairs(text)
<1> DEFINE raw == Pairs(text)
<1>1. ASSUME NEW i \in DOMAIN raw PROVE raw[i] # <<>>
  <2>1. PICK id, count \in 0..(U64 - 1) : raw[i] = <<Some(id), Some(count)>>
    BY Wire
  <2>2. \A a, b : <<a, b>> # <<>>
    OBVIOUS
  <2> QED
    BY <2>1, <2>2
<1>2. ASSUME NEW i \in DOMAIN raw
      PROVE  /\ parse_tres(raw)[i] = SacctTres(raw)[i]
             /\ <<Some(SacctTres(raw)[i].id), Some(SacctTres(raw)[i].count % U64)>> = raw[i]
  <2>1. PICK id, count \in 0..(U64 - 1) : raw[i] = <<Some(id), Some(count)>>
    BY Wire
  <2>2. raw[i][1] = Some(id) /\ raw[i][2] = Some(count) /\ raw[i][1][1] = id /\ raw[i][2][1] = count
    BY <2>1 DEF Some
  <2>3. Default(ParseU64(raw[i][1])) = id
    BY <2>2, SignedCount
  <2>4. Count(raw[i][2]) = (IF 2 * count >= U64 THEN count - U64 ELSE count)
    BY <2>2, SignedCount
  <2>5. Count(raw[i][2]) % U64 = count
    BY <2>2, SignedCount
  <2> QED
    BY <1>1, <2>1, <2>2, <2>3, <2>4, <2>5 DEF parse_tres, SacctTres
<1>3. DOMAIN parse_tres(raw) = DOMAIN raw /\ DOMAIN SacctTres(raw) = DOMAIN raw
  BY <1>1 DEF parse_tres, SacctTres
<1>4. parse_tres(raw) = SacctTres(raw)
  BY <1>2, <1>3 DEF parse_tres, SacctTres
<1>5. raw = [i \in DOMAIN raw |-> raw[i]]
  BY Wire
<1>6. rebuild_tres_str(SacctTres(raw))
        = [i \in DOMAIN raw |-> <<Some(SacctTres(raw)[i].id), Some(SacctTres(raw)[i].count % U64)>>]
  BY <1>3 DEF rebuild_tres_str
<1>7. rebuild_tres_str(SacctTres(raw)) = raw
  BY <1>2, <1>5, <1>6
<1> QED
  BY <1>4, <1>7

(* The key rules of the two expansions are one.                            *)
LEMMA SameExpansion ==
  ASSUME NEW raw, NEW prefix
  PROVE  tres_flat_fields(prefix, raw) = expand_tres(parse_tres(raw), prefix)
  BY DEF tres_flat_fields, expand_tres, TresKey, tres_key_part, BaseName, Model, Colon

LEMMA TresField ==
  ASSUME NEW text \in TresString, NEW f, NEW str, NEW prefix
  PROVE  CompareTres(f, str, prefix, SacctTres(Pairs(text))) = {}
           <=> /\ Pairs(f[Key(str)]) = Pairs(text)
               /\ Restrict(f, {key \in DOMAIN f : key[1] = prefix})
                    = tres_flat_fields(prefix, Pairs(text))
  BY Entries, SameExpansion, NoDifference DEF CompareTres

------------------------------------------------------------------------------
(* What the comparison accepts for a job.                                  *)

SacctAccount(job) == IF job.account = Null THEN Str("") ELSE job.account

Expanded(f, prefix) == Restrict(f, {key \in DOMAIN f : key[1] = prefix})

(* The three numbers sacct wraps, and the memory.                          *)
NumbersAccepted(f, job) ==
  /\ RawAccepted(f[Key("priority")], job.priority)
  /\ f[Key("array_task_id")] = NoVal32(job.array_task_id)
  /\ LimitAccepted(f[Key("time_timelimit")], job.timelimit)
  /\ MemAccepted(f[Key("req_mem")], job.req_mem)

NamesAccepted(f, job) ==
  /\ Tolerated(f[Key("account")], SacctAccount(job))
  /\ f[Key("state")] = List(job_state(job.state))
  /\ f[Key("flags")] = List(job_flags(job.flags))
  /\ Tolerated(f[Key("qos")], Str(qos_name(job.qosid)))
  /\ Ongoing(job_state(job.state)) \/ Tolerated(f[Key("time_elapsed")], Num(job.elapsed))

TresAccepted(f, job) ==
  /\ Pairs(f[Key("tres_alloc_str")]) = Pairs(job.tres_alloc_str)
  /\ Expanded(f, "allocated") = tres_flat_fields("allocated", Pairs(job.tres_alloc_str))
  /\ Pairs(f[Key("tres_req_str")]) = Pairs(job.tres_req_str)
  /\ Expanded(f, "requested") = tres_flat_fields("requested", Pairs(job.tres_req_str))

Accepted(f, job) ==
  /\ NumbersAccepted(f, job) /\ NamesAccepted(f, job) /\ TresAccepted(f, job)
  /\ \A n \in ExitNames : f[Key(n)] = ExitFields(job)[n]

(* Getting older changes the elapsed time of a running job, nothing else.  *)
LEMMA Ageing ==
  ASSUME NEW job \in JobRecord, NEW drift \in 0..1
  PROVE  LET aged == Aged(job, drift)
         IN  /\ aged.jobid = job.jobid /\ aged.account = job.account
             /\ aged.array_task_id = job.array_task_id /\ aged.priority = job.priority
             /\ aged.timelimit = job.timelimit /\ aged.state = job.state
             /\ aged.flags = job.flags /\ aged.qosid = job.qosid
             /\ aged.req_mem = job.req_mem /\ aged.exitcode = job.exitcode
             /\ aged.tres_alloc_str = job.tres_alloc_str
             /\ aged.tres_req_str = job.tres_req_str
             /\ ~Ongoing(job_state(job.state)) => aged.elapsed = job.elapsed
<1>1. job.elapsed \in Int
  BY Widths DEF JobRecord
<1> QED
  BY <1>1 DEF Aged, JobRecord

LEMMA Comparison ==
  ASSUME NEW job \in JobRecord, NEW drift \in 0..1, NEW f
  PROVE  Compare(f, SacctJob(Aged(job, drift))) = {} <=> Accepted(f, job)
<1> DEFINE s == SacctJob(Aged(job, drift))
<1>1. /\ job.priority \in Nat /\ job.array_task_id \in Nat /\ job.timelimit \in Nat
      /\ job.req_mem \in Nat /\ job.exitcode \in Nat
      /\ job.tres_alloc_str \in TresString /\ job.tres_req_str \in TresString
  BY Widths DEF JobRecord
<1>2. /\ s.account = SacctAccount(job) /\ s.qos = Str(qos_name(job.qosid))
      /\ s.task_id = Wrapped(job.array_task_id) /\ s.priority = Wrapped(job.priority)
      /\ s.limit = Wrapped(job.timelimit)
      /\ s.state = List(job_state(job.state)) /\ s.flags = List(job_flags(job.flags))
      /\ s.allocated = SacctTres(Pairs(job.tres_alloc_str))
      /\ s.requested = SacctTres(Pairs(job.tres_req_str))
  <2> DEFINE aged == Aged(job, drift)
  <2> HIDE DEF aged
  <2>1. /\ s.account = SacctAccount(aged) /\ s.qos = Str(qos_name(aged.qosid))
        /\ s.task_id = Wrapped(aged.array_task_id) /\ s.priority = Wrapped(aged.priority)
        /\ s.limit = Wrapped(aged.timelimit)
        /\ s.state = List(job_state(aged.state)) /\ s.flags = List(job_flags(aged.flags))
        /\ s.allocated = SacctTres(Pairs(aged.tres_alloc_str))
        /\ s.requested = SacctTres(Pairs(aged.tres_req_str))
    BY DEF SacctJob, SacctAccount, aged
  <2> QED
    BY <2>1, Ageing DEF SacctAccount, aged
<1>3. /\ s.return_code = ReturnCode(job.exitcode) /\ s.signal = Signal(job.exitcode)
      /\ s.memory_per_cpu =
           Wrapped(IF job.req_mem >= MEM_PER_CPU THEN job.req_mem - MEM_PER_CPU ELSE NO_VAL)
      /\ s.memory_per_node = Wrapped(IF job.req_mem < MEM_PER_CPU THEN job.req_mem ELSE NO_VAL)
  BY Ageing DEF SacctJob
<1>4. ~Ongoing(job_state(job.state)) => s.elapsed = Num(job.elapsed)
  BY Ageing DEF SacctJob
<1> HIDE DEF s
<1>5. Compare(f, s) = {}
        <=> /\ eq_sentinel("account", f[Key("account")], s.account) = {}
            /\ IsActive(f) \/ eq_sentinel("time_elapsed", f[Key("time_elapsed")], s.elapsed) = {}
            /\ eq_wrapped("priority", f[Key("priority")], s.priority, FALSE, FALSE) = {}
            /\ eq_wrapped("array_task_id", f[Key("array_task_id")], s.task_id, TRUE, FALSE) = {}
            /\ eq_wrapped("time_timelimit", f[Key("time_timelimit")], s.limit, FALSE, TRUE) = {}
            /\ Differs("state", f[Key("state")] = s.state) = {}
            /\ Differs("flags", f[Key("flags")] = s.flags) = {}
            /\ eq_sentinel("qos", f[Key("qos")], s.qos) = {}
            /\ CompareMem(f, s) = {}
            /\ CompareTres(f, "tres_alloc_str", "allocated", s.allocated) = {}
            /\ CompareTres(f, "tres_req_str", "requested", s.requested) = {}
            /\ compare_exit_code(f, s) = {}
  BY DEF Compare
<1>6. ( /\ eq_wrapped("priority", f[Key("priority")], s.priority, FALSE, FALSE) = {}
        /\ eq_wrapped("array_task_id", f[Key("array_task_id")], s.task_id, TRUE, FALSE) = {}
        /\ eq_wrapped("time_timelimit", f[Key("time_timelimit")], s.limit, FALSE, TRUE) = {}
        /\ CompareMem(f, s) = {} )
      <=> NumbersAccepted(f, job)
  <2>1. eq_wrapped("priority", f[Key("priority")], s.priority, FALSE, FALSE) = {}
          <=> RawAccepted(f[Key("priority")], job.priority)
    <3>1. eq_wrapped("priority", f[Key("priority")], Wrapped(job.priority), FALSE, FALSE) = {}
            <=> RawAccepted(f[Key("priority")], job.priority)
      BY <1>1, RawField
    <3> QED
      BY <1>2, <3>1
  <2>2. eq_wrapped("array_task_id", f[Key("array_task_id")], s.task_id, TRUE, FALSE) = {}
          <=> f[Key("array_task_id")] = NoVal32(job.array_task_id)
    <3>1. eq_wrapped("array_task_id", f[Key("array_task_id")], Wrapped(job.array_task_id), TRUE, FALSE) = {}
            <=> f[Key("array_task_id")] = NoVal32(job.array_task_id)
      BY <1>1, NullableField
    <3> QED
      BY <1>2, <3>1
  <2>3. eq_wrapped("time_timelimit", f[Key("time_timelimit")], s.limit, FALSE, TRUE) = {}
          <=> LimitAccepted(f[Key("time_timelimit")], job.timelimit)
    <3>1. eq_wrapped("time_timelimit", f[Key("time_timelimit")], Wrapped(job.timelimit), FALSE, TRUE) = {}
            <=> LimitAccepted(f[Key("time_timelimit")], job.timelimit)
      BY <1>1, LimitField
    <3> QED
      BY <1>2, <3>1
  <2>4. CompareMem(f, s) = {} <=> MemAccepted(f[Key("req_mem")], job.req_mem)
    BY <1>1, <1>3, Memory
  <2> QED
    BY <2>1, <2>2, <2>3, <2>4 DEF NumbersAccepted
<1>7. ( /\ eq_sentinel("account", f[Key("account")], s.account) = {}
        /\ IsActive(f) \/ eq_sentinel("time_elapsed", f[Key("time_elapsed")], s.elapsed) = {}
        /\ Differs("state", f[Key("state")] = s.state) = {}
        /\ Differs("flags", f[Key("flags")] = s.flags) = {}
        /\ eq_sentinel("qos", f[Key("qos")], s.qos) = {} )
      <=> NamesAccepted(f, job)
  <2>1. /\ eq_sentinel("account", f[Key("account")], s.account) = {}
             <=> Tolerated(f[Key("account")], SacctAccount(job))
        /\ eq_sentinel("time_elapsed", f[Key("time_elapsed")], s.elapsed) = {}
             <=> Tolerated(f[Key("time_elapsed")], s.elapsed)
        /\ eq_sentinel("qos", f[Key("qos")], s.qos) = {}
             <=> Tolerated(f[Key("qos")], Str(qos_name(job.qosid)))
    BY <1>2, SentinelField
  <2>2. /\ Differs("state", f[Key("state")] = s.state) = {}
             <=> f[Key("state")] = List(job_state(job.state))
        /\ Differs("flags", f[Key("flags")] = s.flags) = {}
             <=> f[Key("flags")] = List(job_flags(job.flags))
    BY <1>2, NoDifference
  <2>3. f[Key("state")] = List(job_state(job.state)) =>
          (IsActive(f) <=> Ongoing(job_state(job.state)))
    BY DEF IsActive, List
  <2> QED
    BY <1>4, <2>1, <2>2, <2>3 DEF NamesAccepted
<1>8. ( /\ CompareTres(f, "tres_alloc_str", "allocated", s.allocated) = {}
        /\ CompareTres(f, "tres_req_str", "requested", s.requested) = {} )
      <=> TresAccepted(f, job)
  BY <1>1, <1>2, TresField DEF TresAccepted, Expanded
<1>9. compare_exit_code(f, s) = {} <=> \A n \in ExitNames : f[Key(n)] = ExitFields(job)[n]
  BY <1>1, <1>3, ExitPair
<1> QED
  BY <1>5, <1>6, <1>7, <1>8, <1>9 DEF Accepted, s

(* fastsacct's object of a record is accepted against sacct's of the same. *)
LEMMA RightAccepted ==
  ASSUME NEW job \in JobRecord, job.req_mem \notin NoMemoryPerCpu
  PROVE  Accepted(job_to_value(job), job)
<1> DEFINE v == job_to_value(job)
<1>1. /\ \A n \in TableNames : v[Key(n)] = TableRows(job)[n]
      /\ \A n \in ExitNames : v[Key(n)] = ExitFields(job)[n]
  BY ObjectValues
<1>2. \A prefix \in TresPrefixes :
        LET flat == tres_flat_fields(prefix,
              Pairs(IF prefix = "allocated" THEN job.tres_alloc_str ELSE job.tres_req_str))
        IN  /\ {k \in DOMAIN v : k[1] = prefix} = DOMAIN flat
            /\ \A k \in DOMAIN flat : v[k] = flat[k]
  BY ObjectValues
<1> HIDE DEF v
<1>3. ASSUME NEW prefix, NEW raw
      PROVE  LET flat == tres_flat_fields(prefix, raw) IN flat = [k \in DOMAIN flat |-> flat[k]]
  <2>1. PICK maps : tres_flat_fields(prefix, raw) = Inserted(maps)
    BY DEF tres_flat_fields
  <2>2. Inserted(maps) = [k \in DOMAIN Inserted(maps) |-> Inserted(maps)[k]]
    BY DEF Inserted
  <2> QED
    BY <2>1, <2>2
<1>4. NumbersAccepted(v, job)
  <2>1. /\ v[Key("priority")] = Num(job.priority)
        /\ v[Key("array_task_id")] = NoVal32(job.array_task_id)
        /\ v[Key("time_timelimit")] = U32Inf0(job.timelimit)
        /\ v[Key("req_mem")] = Num(job.req_mem)
    BY <1>1 DEF TableRows, TableNames
  <2> QED
    BY <2>1, job.req_mem \notin NoMemoryPerCpu
       DEF NumbersAccepted, RawAccepted, LimitAccepted, MemAccepted
<1>5. NamesAccepted(v, job)
  <2>1. /\ v[Key("account")] = job.account
        /\ v[Key("state")] = List(job_state(job.state))
        /\ v[Key("flags")] = List(job_flags(job.flags))
        /\ v[Key("qos")] = Str(qos_name(job.qosid))
        /\ v[Key("time_elapsed")] = Num(job.elapsed)
    BY <1>1 DEF TableRows, TableNames
  <2> QED
    BY <2>1 DEF NamesAccepted, Tolerated, SacctAccount
<1>6. TresAccepted(v, job)
  <2>1. v[Key("tres_alloc_str")] = job.tres_alloc_str /\ v[Key("tres_req_str")] = job.tres_req_str
    BY <1>1 DEF TableRows, TableNames
  <2>2. Expanded(v, "allocated") = tres_flat_fields("allocated", Pairs(job.tres_alloc_str))
    BY <1>2, <1>3 DEF Expanded, Restrict, TresPrefixes
  <2>3. Expanded(v, "requested") = tres_flat_fields("requested", Pairs(job.tres_req_str))
    BY <1>2, <1>3 DEF Expanded, Restrict, TresPrefixes
  <2> QED
    BY <2>1, <2>2, <2>3 DEF TresAccepted
<1> QED
  BY <1>1, <1>4, <1>5, <1>6 DEF Accepted, v

(* What the comparison lets pass of a wrong value.                         *)
LEMMA SpoiltValue ==
  ASSUME NEW job \in JobRecord, NEW other \in JobRecord,
         NEW key \in (DOMAIN job_to_value(job) \cap DOMAIN job_to_value(other)) \ NotCompared,
         key # Key("job_id"), job_to_value(other)[key] # job_to_value(job)[key],
         Accepted([job_to_value(job) EXCEPT ![key] = job_to_value(other)[key]], job)
  PROVE  LET f == [job_to_value(job) EXCEPT ![key] = job_to_value(other)[key]]
         IN  \/ f[key] \in Blank /\ job_to_value(job)[key] \in Blank
             \/ key = Key("time_elapsed") /\ IsActive(f)
<1> DEFINE v == job_to_value(job)
           w == job_to_value(other)
           f == [v EXCEPT ![key] = w[key]]
<1>1. /\ \A n \in TableNames : Key(n) \in DOMAIN v /\ v[Key(n)] = TableRows(job)[n]
      /\ \A n \in ExitNames : v[Key(n)] = ExitFields(job)[n]
      /\ (\E n \in TableNames \cup ExitNames : key = Key(n)) \/ key[1] \in TresPrefixes
  BY ObjectValues
<1>2. \A n \in TableNames : w[Key(n)] = TableRows(other)[n]
  BY ObjectValues
<1>3. \A prefix \in TresPrefixes :
        LET flat == tres_flat_fields(prefix,
              Pairs(IF prefix = "allocated" THEN job.tres_alloc_str ELSE job.tres_req_str))
        IN  /\ {k \in DOMAIN v : k[1] = prefix} = DOMAIN flat
            /\ \A k \in DOMAIN flat : v[k] = flat[k]
  BY ObjectValues
<1>4. key \in DOMAIN v /\ w[key] # v[key] /\ Accepted(f, job)
  OBVIOUS
<1>5. f[key] = w[key] /\ DOMAIN f = DOMAIN v /\ \A k \in DOMAIN v : k # key => f[k] = v[k]
  BY <1>4
<1>6. key # Key("exitcode") /\ key # Key("job_id")
  BY DEF NotCompared
<1>7. /\ Null \in Blank /\ Str("") \in Blank /\ Text(<<>>) \in Blank /\ Num(0) \in Blank
      /\ Sentinels \subseteq Blank
      /\ \A n \in {0, NO_VAL, INFINITE} \cup NoMemoryPerCpu : Num(n) \in Blank
  BY DEF Blank, Sentinels
<1> SUFFICES \/ f[key] \in Blank /\ v[key] \in Blank
             \/ key = Key("time_elapsed") /\ IsActive(f)
  OBVIOUS
<1> HIDE DEF v, w, f
<1>8. \A x, right : Tolerated(x, right) => x = right \/ (x \in Blank /\ right \in Blank)
  BY <1>7 DEF Tolerated
<1>9. CASE key[1] \in TresPrefixes
  <2> DEFINE prefix == key[1]
             flat == tres_flat_fields(prefix,
                       Pairs(IF prefix = "allocated" THEN job.tres_alloc_str ELSE job.tres_req_str))
  <2>1. {k \in DOMAIN v : k[1] = prefix} = DOMAIN flat /\ \A k \in DOMAIN flat : v[k] = flat[k]
    BY <1>3, <1>9
  <2>2. Expanded(f, prefix) = flat
    BY <1>4, <1>9 DEF Accepted, TresAccepted, TresPrefixes
  <2>3. key \in DOMAIN flat
    BY <1>4, <2>1
  <2>4. Expanded(f, prefix)[key] = f[key]
    BY <1>4, <1>5 DEF Expanded, Restrict
  <2> QED
    BY <1>4, <1>5, <2>1, <2>2, <2>3, <2>4
<1>10. ASSUME NEW n \in ExitNames, key = Key(n) PROVE FALSE
  BY <1>1, <1>4, <1>5, <1>10 DEF Accepted
<1>11. ASSUME NEW n \in {"flags", "state", "array_task_id"}, key = Key(n) PROVE FALSE
  <2>1. v[key] = TableRows(job)[n]
    BY <1>1, <1>11 DEF TableNames
  <2>2. f[key] = TableRows(job)[n]
    BY <1>4, <1>11 DEF TableRows, Accepted, NamesAccepted, NumbersAccepted
  <2> QED
    BY <1>4, <1>5, <2>1, <2>2
<1>12. CASE key = Key("account")
  <2>1. Tolerated(f[key], SacctAccount(job)) /\ v[key] = job.account
    BY <1>1, <1>4, <1>12 DEF Accepted, NamesAccepted, TableRows, TableNames
  <2>2. SacctAccount(job) = job.account \/ (job.account = Null /\ SacctAccount(job) = Str(""))
    BY DEF SacctAccount
  <2>3. CASE SacctAccount(job) = job.account
    BY <1>4, <1>5, <1>8, <2>1, <2>3
  <2>4. CASE job.account = Null /\ SacctAccount(job) = Str("")
    BY <1>7, <1>8, <2>1, <2>4
  <2> QED
    BY <2>2, <2>3, <2>4
<1>13. CASE key = Key("qos")
  <2>1. Tolerated(f[key], v[key])
    BY <1>1, <1>4, <1>13 DEF Accepted, NamesAccepted, TableRows, TableNames
  <2> QED
    BY <1>4, <1>5, <1>8, <2>1
<1>14. CASE key = Key("time_elapsed")
  <2>1. Ongoing(job_state(job.state)) \/ Tolerated(f[key], v[key])
    BY <1>1, <1>4, <1>14 DEF Accepted, NamesAccepted, TableRows, TableNames
  <2>2. f[Key("state")] = List(job_state(job.state))
    BY <1>4 DEF Accepted, NamesAccepted
  <2>3. IsActive(f) <=> Ongoing(job_state(job.state))
    BY <2>2 DEF IsActive, List
  <2> QED
    BY <1>4, <1>5, <1>8, <1>14, <2>1, <2>3
<1>15. CASE key = Key("priority")
  <2>1. RawAccepted(f[key], job.priority) /\ v[key] = Num(job.priority)
    BY <1>1, <1>4, <1>15 DEF Accepted, NumbersAccepted, TableRows, TableNames
  <2> QED
    BY <1>4, <1>5, <1>7, <2>1 DEF RawAccepted
<1>16. CASE key = Key("time_timelimit")
  <2>1. LimitAccepted(f[key], job.timelimit) /\ v[key] = U32Inf0(job.timelimit)
    BY <1>1, <1>4, <1>16 DEF Accepted, NumbersAccepted, TableRows, TableNames
  <2>2. job.timelimit = NO_VAL /\ f[key] \in Sentinels
    BY <1>4, <1>5, <2>1 DEF LimitAccepted
  <2>3. NO_VAL # INFINITE
    BY Widths
  <2>4. v[key] = Num(NO_VAL)
    BY <2>1, <2>2, <2>3 DEF U32Inf0
  <2> QED
    BY <1>7, <2>2, <2>4
<1>17. CASE key = Key("req_mem")
  <2>1. MemAccepted(f[key], job.req_mem) /\ v[key] = Num(job.req_mem)
    BY <1>1, <1>4, <1>17 DEF Accepted, NumbersAccepted, TableRows, TableNames
  <2>2. /\ job.req_mem \in {0, NO_VAL, INFINITE} \cup NoMemoryPerCpu
        /\ f[key] \in Sentinels \cup {Num(0)}
    BY <1>4, <1>5, <2>1 DEF MemAccepted
  <2> QED
    BY <1>7, <2>1, <2>2
<1>18. ASSUME NEW a \in TresString, NEW b \in TresString, Pairs(a) = Pairs(b), a # b
       PROVE  a \in Blank /\ b \in Blank
  <2>1. \A t \in TresString : t # Null => t = Text(t[2])
    BY DEF TresString, Text
  <2>2. \A t \in TresString : t # Null => t = Text(Pairs(t))
    BY <2>1 DEF Pairs
  <2>3. Pairs(Null) = <<>>
    BY DEF Pairs
  <2> QED
    BY <1>7, <1>18, <2>2, <2>3
<1>19. CASE key = Key("tres_alloc_str") \/ key = Key("tres_req_str")
  <2>1. PICK n \in {"tres_alloc_str", "tres_req_str"} : key = Key(n)
    BY <1>19
  <2>2. v[key] = job[n] /\ f[key] = other[n]
    BY <1>1, <1>2, <1>5, <2>1 DEF TableRows, TableNames
  <2>3. Pairs(f[key]) = Pairs(v[key])
    BY <1>1, <1>4, <2>1 DEF Accepted, TresAccepted, TableRows, TableNames
  <2>4. job[n] \in TresString /\ other[n] \in TresString
    BY <2>1 DEF JobRecord
  <2> QED
    BY <1>4, <1>5, <1>18, <2>2, <2>3, <2>4
<1> QED
  BY <1>1, <1>6, <1>9, <1>10, <1>11, <1>12, <1>13, <1>14, <1>15, <1>16, <1>17, <1>19
     DEF TableNames

------------------------------------------------------------------------------
(* The inductive invariant.                                                *)

LEMMA StoredIsSeq == ASSUME stored \in Stored PROVE stored \in Seq(JobRecord)
  BY RecordAssumption

(* fastsacct printed an object for every record, spoilt or not.            *)
LEMMA Printed ==
  ASSUME FastsacctInv
  PROVE  DOMAIN fa = IF pc = "fastsacct" THEN {} ELSE DOMAIN stored
<1>1. CASE pc = "fastsacct"
  BY <1>1 DEF FastsacctInv
<1>2. CASE pc # "fastsacct" /\ spoilt = <<>>
  BY <1>2 DEF FastsacctInv
<1>3. CASE pc # "fastsacct" /\ spoilt # <<>>
  <2>1. PICK i \in DOMAIN stored, wrong \in WrongObjects :
           \E key \in DOMAIN wrong : SpoiltAt(i, key, wrong)
    BY <1>3 DEF FastsacctInv
  <2>2. PICK key \in DOMAIN wrong : SpoiltAt(i, key, wrong)
    BY <2>1
  <2> QED
    BY <1>3, <2>2 DEF SpoiltAt
<1> QED
  BY <1>1, <1>2, <1>3

LEMMA InitStep == Init => IInv
<1> SUFFICES ASSUME Init PROVE IInv
  OBVIOUS
<1>1. Len(stored) \in Nat
  BY StoredIsSeq DEF Init
<1>2. TypeOK
  BY <1>1 DEF Init, TypeOK
<1>3. FastsacctInv /\ SacctInv /\ ReportInv
  BY DEF Init, FastsacctInv, SacctInv, ReportInv
<1>4. LoopInv
  <2>1. 1..(next - 1) = {}
    BY DEF Init
  <2> QED
    BY <2>1 DEF Init, LoopInv
<1> QED
  BY <1>2, <1>3, <1>4 DEF IInv

LEMMA RunFastsacctStep == IInv /\ RunFastsacct => IInv'
<1> SUFFICES ASSUME IInv, RunFastsacct PROVE IInv'
  OBVIOUS
<1> USE DEF IInv, RunFastsacct
<1>1. TypeOK'
  BY DEF TypeOK
<1>2. FastsacctInv'
  BY DEF FastsacctInv, Right
<1>3. SacctInv'
  BY DEF SacctInv
<1>4. LoopInv'
  <2>1. next = 1 /\ 1..(next - 1) = {}
    BY DEF LoopInv
  <2> QED
    BY <2>1 DEF LoopInv
<1>5. ReportInv'
  BY DEF ReportInv
<1> QED
  BY <1>1, <1>2, <1>3, <1>4, <1>5

LEMMA SpoilStep == IInv /\ Spoil => IInv'
<1> SUFFICES ASSUME IInv, Spoil PROVE IInv'
  OBVIOUS
<1> USE DEF IInv, Spoil
<1>1. fa = [j \in DOMAIN stored |-> Right(j)]
  BY DEF FastsacctInv
<1>2. PICK i \in DOMAIN fa, wrong \in WrongObjects :
        \E key \in (DOMAIN fa[i] \cap DOMAIN wrong) \ NotCompared :
          /\ fa[i][key] # wrong[key]
          /\ fa' = [fa EXCEPT ![i][key] = wrong[key]]
          /\ spoilt' = <<i, key, fa[i][key]>>
  OBVIOUS
<1>3. PICK key \in (DOMAIN fa[i] \cap DOMAIN wrong) \ NotCompared :
          /\ fa[i][key] # wrong[key]
          /\ fa' = [fa EXCEPT ![i][key] = wrong[key]]
          /\ spoilt' = <<i, key, fa[i][key]>>
  BY <1>2
<1>4. i \in DOMAIN stored /\ fa[i] = Right(i)
  BY <1>1
<1>5. fa' = [j \in DOMAIN stored |->
               IF j = i THEN [Right(i) EXCEPT ![key] = wrong[key]] ELSE Right(j)]
  BY <1>1, <1>3
<1>6. spoilt' = <<i, key, Right(i)[key]>> /\ spoilt' # <<>>
  BY <1>3, <1>4
<1>7. SpoiltAt(i, key, wrong)'
  BY <1>3, <1>4, <1>5, <1>6 DEF SpoiltAt, Right, WrongObjects, NotCompared
<1>8. FastsacctInv'
  BY <1>3, <1>4, <1>6, <1>7 DEF FastsacctInv, WrongObjects
<1>9. TypeOK'
  BY <1>5 DEF TypeOK
<1>10. SacctInv'
  BY DEF SacctInv
<1>11. LoopInv'
  <2>1. next = 1 /\ 1..(next - 1) = {}
    BY DEF LoopInv
  <2> QED
    BY <2>1 DEF LoopInv
<1>12. ReportInv'
  BY DEF ReportInv
<1> QED
  BY <1>8, <1>9, <1>10, <1>11, <1>12

LEMMA RunSacctStep == IInv /\ RunSacct => IInv'
<1> SUFFICES ASSUME IInv, RunSacct PROVE IInv'
  OBVIOUS
<1> USE DEF IInv, RunSacct
<1>1. PICK drift \in 0..1 : sa' = [i \in DOMAIN stored |-> SacctJob(Aged(stored[i], drift))]
  OBVIOUS
<1>2. TypeOK'
  BY <1>1 DEF TypeOK
<1>3. FastsacctInv'
  BY DEF FastsacctInv, SpoiltAt, Right, WrongObjects
<1>4. SacctInv'
  BY <1>1 DEF SacctInv
<1>5. LoopInv'
  <2>1. next = 1 /\ 1..(next - 1) = {}
    BY DEF LoopInv
  <2> QED
    BY <2>1 DEF LoopInv
<1>6. ReportInv'
  BY DEF ReportInv
<1> QED
  BY <1>2, <1>3, <1>4, <1>5, <1>6

(* A step that leaves both answers and their order alone.                  *)
LEMMA KeptAnswers ==
  ASSUME IInv, UNCHANGED <<stored, fa, sa, spoilt>>,
         pc' = pc \/ (pc = "compare" /\ pc' = "done")
  PROVE  FastsacctInv' /\ SacctInv' /\ \A i : FieldsOfJob(i)' = FieldsOfJob(i)
<1>1. \A i, key, wrong : SpoiltAt(i, key, wrong)' <=> SpoiltAt(i, key, wrong)
  BY DEF SpoiltAt, Right, WrongObjects
<1>2. FastsacctInv'
  BY <1>1 DEF IInv, FastsacctInv, Right, WrongObjects
<1>3. SacctInv'
  BY DEF IInv, SacctInv
<1>4. \A i : FieldsOfJob(i)' = FieldsOfJob(i)
  BY DEF FieldsOfJob, Found
<1> QED
  BY <1>2, <1>3, <1>4

LEMMA CompareJobStep == IInv /\ CompareJob => IInv'
<1> SUFFICES ASSUME IInv, CompareJob PROVE IInv'
  OBVIOUS
<1>1. FastsacctInv' /\ SacctInv' /\ \A i : FieldsOfJob(i)' = FieldsOfJob(i)
  BY KeptAnswers DEF CompareJob
<1> USE DEF IInv, CompareJob
<1>2. next \in 1..Len(stored) /\ Len(stored) \in Nat /\ next \in Nat
  <2>1. DOMAIN stored = 1..Len(stored) /\ Len(stored) \in Nat
    BY StoredIsSeq DEF TypeOK
  <2> QED
    BY <2>1, Printed
<1>3. TypeOK'
  <2>1. \A m \in Note(FieldsOfJob(next), next) : m.job = next
    BY DEF Note
  <2>2. \A m \in mismatches' : m.job < next'
    <3> SUFFICES ASSUME NEW m \in mismatches' PROVE m.job < next'
      OBVIOUS
    <3>1. CASE m \in mismatches
      <4>1. PICK i \in 1..(next - 1) : m \in Note(FieldsOfJob(i), i)
        BY <3>1 DEF LoopInv
      <4> QED
        BY <1>2, <4>1 DEF Note
    <3>2. CASE m \in Note(FieldsOfJob(next), next)
      BY <1>2, <2>1, <3>2
    <3> QED
      BY <3>1, <3>2
  <2> QED
    BY <1>2, <2>2 DEF TypeOK
<1>4. LoopInv'
  <2>1. 1..(next' - 1) = 1..(next - 1) \cup {next}
    BY <1>2
  <2>2. \A i : Note(FieldsOfJob(i), i)' = Note(FieldsOfJob(i), i)
    BY <1>1 DEF Note
  <2>3. mismatches' = UNION {Note(FieldsOfJob(i), i) : i \in 1..(next' - 1)}
    BY <2>1 DEF LoopInv
  <2> QED
    BY <2>2, <2>3 DEF LoopInv
<1>5. ReportInv'
  BY DEF ReportInv
<1> QED
  BY <1>1, <1>3, <1>4, <1>5

LEMMA ReportStep == IInv /\ Report => IInv'
<1> SUFFICES ASSUME IInv, Report PROVE IInv'
  OBVIOUS
<1>1. FastsacctInv' /\ SacctInv' /\ \A i : FieldsOfJob(i)' = FieldsOfJob(i)
  BY KeptAnswers DEF Report
<1> USE DEF IInv, Report
<1>2. TypeOK'
  BY DEF TypeOK
<1>3. LoopInv'
  <2>1. \A i : Note(FieldsOfJob(i), i)' = Note(FieldsOfJob(i), i)
    BY <1>1 DEF Note
  <2> QED
    BY <2>1 DEF LoopInv
<1>4. ReportInv'
  BY DEF ReportInv
<1> QED
  BY <1>1, <1>2, <1>3, <1>4

LEMMA StutterStep == IInv /\ UNCHANGED vars => IInv'
<1> SUFFICES ASSUME IInv, UNCHANGED vars PROVE IInv'
  OBVIOUS
<1>1. FastsacctInv' /\ SacctInv' /\ \A i : FieldsOfJob(i)' = FieldsOfJob(i)
  BY KeptAnswers DEF vars
<1> USE DEF IInv, vars
<1>2. TypeOK' /\ ReportInv'
  BY DEF TypeOK, ReportInv
<1>3. LoopInv'
  <2>1. \A i : Note(FieldsOfJob(i), i)' = Note(FieldsOfJob(i), i)
    BY <1>1 DEF Note
  <2> QED
    BY <2>1 DEF LoopInv
<1> QED
  BY <1>1, <1>2, <1>3

(* The inductive invariant holds in every state.                           *)
THEOREM Inductive == Spec => []IInv
<1>1. IInv /\ [Next]_vars => IInv'
  <2> SUFFICES ASSUME IInv, [Next]_vars PROVE IInv'
    OBVIOUS
  <2>1. CASE RunFastsacct
    BY <2>1, RunFastsacctStep
  <2>2. CASE Spoil
    BY <2>2, SpoilStep
  <2>3. CASE RunSacct
    BY <2>3, RunSacctStep
  <2>4. CASE CompareJob
    BY <2>4, CompareJobStep
  <2>5. CASE Report
    BY <2>5, ReportStep
  <2>6. CASE UNCHANGED vars
    BY <2>6, StutterStep
  <2> QED
    BY <2>1, <2>2, <2>3, <2>4, <2>5, <2>6 DEF Next, Terminated
<1> QED
  BY <1>1, InitStep, PTL DEF Spec

THEOREM TypeCorrect == Spec => []TypeOK
<1>1. IInv => TypeOK
  BY DEF IInv
<1> QED
  BY <1>1, Inductive, PTL

------------------------------------------------------------------------------
(* What the exit status says.                                              *)

(* At the end with status 0 no job has a field that differs.               *)
LEMMA NothingFound ==
  ASSUME IInv, pc = "done"
  PROVE  /\ DOMAIN fa = DOMAIN stored /\ DOMAIN stored \subseteq Int
         /\ exit = 0 <=> \A i \in DOMAIN stored : FieldsOfJob(i) = {}
<1> USE DEF IInv
<1>1. DOMAIN stored = 1..Len(stored) /\ Len(stored) \in Nat
  BY StoredIsSeq DEF TypeOK
<1>2. DOMAIN fa = DOMAIN stored
  BY Printed
<1>3. 1..(next - 1) = DOMAIN stored
  BY <1>1, <1>2 DEF ReportInv, TypeOK
<1>4. exit = 0 <=> mismatches = {}
  BY DEF ReportInv
<1>5. ASSUME NEW i PROVE Note(FieldsOfJob(i), i) = {} <=> FieldsOfJob(i) = {}
  BY DEF Note
<1>6. mismatches = {} <=> \A i \in DOMAIN stored : Note(FieldsOfJob(i), i) = {}
  BY <1>3 DEF LoopInv
<1> QED
  BY <1>1, <1>2, <1>4, <1>5, <1>6

(* A job whose id no other has is held against its own record.             *)
LEMMA OwnRecord ==
  ASSUME IInv, pc = "done", OneRecordPerId, NEW i \in DOMAIN stored,
         \A j \in DOMAIN stored : fa[j][Key("job_id")] = Num(stored[j].jobid)
  PROVE  FieldsOfJob(i) = {} <=> Accepted(fa[i], stored[i])
<1>1. PICK drift \in 0..1 : sa = [j \in DOMAIN stored |-> SacctJob(Aged(stored[j], drift))]
  BY DEF IInv, SacctInv
<1>2. \A j \in DOMAIN stored : stored[j] \in JobRecord
  BY StoredIsSeq DEF IInv, TypeOK
<1>3. DOMAIN fa = DOMAIN stored /\ i \in Int
  BY NothingFound
<1>4. \A j \in DOMAIN stored : sa[j].job_id = Num(stored[j].jobid)
  BY <1>1, <1>2, Ageing DEF SacctJob
<1>5. Found(fa[i][Key("job_id")]) = {i}
  BY <1>1, <1>3, <1>4 DEF Found, OneRecordPerId
<1>6. Max({i}) = i
  BY <1>3 DEF Max
<1>7. FieldsOfJob(i) = Compare(fa[i], SacctJob(Aged(stored[i], drift)))
  BY <1>1, <1>5, <1>6 DEF FieldsOfJob
<1> QED
  BY <1>2, <1>7, Comparison

LEMMA RightId == \A i : Right(i)[Key("job_id")] = Num(stored[i].jobid)
  BY ObjectValues DEF Right, TableNames, TableRows

(* fastsacct's decoders and sacct's agree under cluster_diff.py's rules,   *)
(* whatever the daemon holds: the script ends with status 0.               *)
THEOREM Agrees == Spec => []AgreesWithSacct
<1>1. IInv => AgreesWithSacct
  <2> SUFFICES ASSUME IInv, pc = "done", spoilt = <<>>, OneRecordPerId,
                      \A i \in DOMAIN stored : stored[i].req_mem \notin NoMemoryPerCpu
               PROVE  exit = 0
    BY DEF AgreesWithSacct
  <2>1. fa = [j \in DOMAIN stored |-> Right(j)]
    BY DEF IInv, FastsacctInv
  <2>2. \A j \in DOMAIN stored : stored[j] \in JobRecord
    BY StoredIsSeq DEF IInv, TypeOK
  <2>3. ASSUME NEW i \in DOMAIN stored PROVE FieldsOfJob(i) = {}
    <3>1. Accepted(fa[i], stored[i])
      BY <2>1, <2>2, RightAccepted DEF Right
    <3> QED
      BY <2>1, <3>1, RightId, OwnRecord
  <2> QED
    BY <2>3, NothingFound
<1> QED
  BY <1>1, Inductive, PTL

(* One wrong value, of any field the script compares and of any job, ends  *)
(* in status 1, unless the script's tolerances excuse it.                  *)
THEOREM Caught == Spec => []CorruptionCaught
<1>1. IInv => CorruptionCaught
  <2> SUFFICES ASSUME IInv, pc = "done", spoilt # <<>>, exit = 0, OneRecordPerId PROVE Excused
    BY DEF CorruptionCaught
  <2>1. PICK i \in DOMAIN stored, wrong \in WrongObjects :
           \E key \in DOMAIN wrong : SpoiltAt(i, key, wrong)
    BY DEF IInv, FastsacctInv
  <2>2. PICK key \in DOMAIN wrong : SpoiltAt(i, key, wrong)
    BY <2>1
  <2>3. /\ \A j \in DOMAIN stored : stored[j] \in JobRecord
        /\ DOMAIN fa = DOMAIN stored /\ \A j \in DOMAIN stored : FieldsOfJob(j) = {}
    BY StoredIsSeq, NothingFound DEF IInv, TypeOK
  <2>4. PICK other \in JobRecord : wrong = job_to_value(other)
    BY RecordAssumption DEF WrongObjects
  <2>5. /\ key \in (DOMAIN Right(i) \cap DOMAIN wrong) \ NotCompared
        /\ wrong[key] # Right(i)[key]
        /\ fa[i] = [Right(i) EXCEPT ![key] = wrong[key]]
        /\ \A j \in DOMAIN stored : j # i => fa[j] = Right(j)
        /\ spoilt[1] = i /\ spoilt[2] = key /\ spoilt[3] = Right(i)[key]
    BY <2>2 DEF SpoiltAt
  <2>6. fa[i][key] = wrong[key] /\ \A k \in DOMAIN Right(i) : k # key => fa[i][k] = Right(i)[k]
    BY <2>5
  <2>7. Key("job_id") \in DOMAIN Right(i)
    BY ObjectValues DEF Right, TableNames
  <2>8. CASE key # Key("job_id")
    <3>1. \A j \in DOMAIN stored : fa[j][Key("job_id")] = Num(stored[j].jobid)
      BY <2>5, <2>6, <2>7, <2>8, RightId
    <3>2. Accepted(fa[i], stored[i])
      BY <2>3, <3>1, OwnRecord
    <3>3. \/ fa[i][key] \in Blank /\ Right(i)[key] \in Blank
          \/ key = Key("time_elapsed") /\ IsActive(fa[i])
      <4>1. /\ key \in (DOMAIN job_to_value(stored[i]) \cap DOMAIN job_to_value(other)) \ NotCompared
            /\ job_to_value(other)[key] # job_to_value(stored[i])[key]
            /\ fa[i] = [job_to_value(stored[i]) EXCEPT ![key] = job_to_value(other)[key]]
        BY <2>4, <2>5 DEF Right
      <4>2. stored[i] \in JobRecord
        BY <2>3
      <4>3. Accepted([job_to_value(stored[i]) EXCEPT ![key] = job_to_value(other)[key]], stored[i])
        BY <3>2, <4>1
      <4> QED
        BY <2>8, <4>1, <4>2, <4>3, SpoiltValue DEF Right
    <3> QED
      BY <2>5, <3>3 DEF Excused
  <2>9. CASE key = Key("job_id")
    <3>1. PICK drift \in 0..1 : sa = [j \in DOMAIN stored |-> SacctJob(Aged(stored[j], drift))]
      BY DEF IInv, SacctInv
    <3>2. \A j \in DOMAIN stored : sa[j].job_id = Num(stored[j].jobid)
      BY <2>3, <3>1, Ageing DEF SacctJob
    <3>3. Found(wrong[key]) # {}
      BY <2>3, <2>6, <2>9 DEF FieldsOfJob
    <3>4. PICK j \in DOMAIN stored : Num(stored[j].jobid) = wrong[key]
      BY <3>1, <3>2, <3>3 DEF Found
    <3>5. j # i /\ fa[j][Key("job_id")] = fa[i][Key("job_id")]
      BY <2>5, <2>6, <2>9, <3>4, RightId
    <3> QED
      BY <2>3, <3>5 DEF OneRecordPerId
  <2> QED
    BY <2>8, <2>9
<1> QED
  BY <1>1, Inductive, PTL
==============================================================================
