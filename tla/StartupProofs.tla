--------------------------- MODULE StartupProofs ---------------------------
(***************************************************************************)
(* What Startup promises, for every YAML file, command line, default and   *)
(* width of the numbers that StartupAssumption admits.                     *)
(***************************************************************************)
EXTENDS Startup, TLAPS

-----------------------------------------------------------------------------
(* The inductive invariant.                                                *)

\* What a process was given.
GivenSound ==
    /\ daemon \in {"pamd", "firewalld"}
    /\ CommandLineOf(daemon, argv)
    /\ \A f \in DOMAIN doc.fields : FileText(doc.fields[f])
    /\ daemon = "pamd" => DOMAIN doc.fields \subseteq DOMAIN PamdFields

\* A setting that has been read or overridden has a value its daemon can take.
SettingsSound ==
    /\ DOMAIN set = DOMAIN Defaults
    /\ daemon = "pamd" => {set["records_min"], set["records_max"], set["records_delta"]} \subseteq 0..UIntMax
    /\ daemon = "firewalld" => set["check_interval"] \in 0..UIntMax /\ set["production"] \in Seq(STRING)

\* The options before the present one have been obeyed.
Obeyed(n) ==
    /\ named = {f \in {"production", "rebuild"} : Said(f, n)}
    /\ \A f \in DOMAIN set :
          \/ f = "check_interval" /\ Said(f, n) /\ LastWord(f, n) \notin 0..UIntMax
          \/ set[f] = IF Said(f, n) THEN LastWord(f, n) ELSE Defaults[f]

OptionsSound ==
    /\ phase = "read" => set = Defaults /\ named = {} /\ optind = 1
    /\ phase = "override" => optind \in 1..Len(argv) + 1
    /\ phase = "validate" => optind = Len(argv) + 1
    /\ phase \in {"override", "validate"} => Obeyed(optind - 1)

\* The handle is what db_alloc returned, if it was called.
HandleSound ==
    /\ phase \notin {"off", "read"} =>
          \/ db.driver = NULL
          \/ db.driver = "garbage" /\ daemon = "pamd"
          \/ db = Alloc(doc.database.pairs)
    /\ phase \in {"start", "running"} => db.driver \notin {NULL, "garbage"}

StartInv ==
    /\ phase \in {"off", "read", "override", "validate", "start", "running"}
    /\ GivenSound /\ SettingsSound /\ OptionsSound /\ HandleSound
    /\ LastWordWins /\ StartsSound

-----------------------------------------------------------------------------
LEMMA AllocsDriver ==
    ASSUME NEW m
    PROVE  Alloc(m).driver \in {NULL, "csvfile", "sqlite3", "mysql", "postgresql"}
BY DEF Alloc, AllocCsvfile, AllocSqlite3, AllocMysql, AllocPostgresql, Handle, NoHandle, Word, NULL

LEMMA NamingNext ==
    ASSUME NEW n \in Nat, n + 1 \in DOMAIN argv, DOMAIN argv \subseteq Nat, NEW f
    PROVE  /\ argv[n + 1].field = f => Naming(f, n + 1) # {} /\ Max(Naming(f, n + 1)) = n + 1
           /\ argv[n + 1].field # f => Naming(f, n + 1) = Naming(f, n)
<1>1. ASSUME argv[n + 1].field = f
      PROVE  Naming(f, n + 1) # {} /\ Max(Naming(f, n + 1)) = n + 1
  <2>1. n + 1 \in Naming(f, n + 1) /\ \A k \in Naming(f, n + 1) : k \in Nat /\ k =< n + 1
    BY <1>1 DEF Naming
  <2> QED BY <2>1 DEF Max
<1>2. ASSUME argv[n + 1].field # f
      PROVE  Naming(f, n + 1) = Naming(f, n)
  <2>1. \A k \in DOMAIN argv : k =< n + 1 /\ argv[k].field = f <=> k =< n /\ argv[k].field = f
    BY <1>2
  <2> QED BY <2>1 DEF Naming
<1> QED BY <1>1, <1>2

LEMMA NothingSaid ==
    ASSUME UNCHANGED <<doc, argv>>, NEW f, NEW k
    PROVE  /\ (Said(f, k))' <=> Said(f, k)
           /\ (LastWord(f, k))' = LastWord(f, k)
BY DEF Said, LastWord, Naming

\* A number that fits is kept as it is.
LEMMA Fits == ASSUME NEW m \in Nat \ {0}, NEW a \in 0..m - 1 PROVE a % m = a
<1> DEFINE q == a \div m
           r == a % m
<1>1. q \in Int /\ r \in 0..m - 1 /\ a = m * q + r
  OBVIOUS
<1> HIDE DEF q, r
<1>2. CASE q >= 1
  <2>1. m * q >= m
    BY <1>1, <1>2
  <2> QED BY <1>1, <2>1
<1>3. CASE q =< -1
  <2>1. m * q =< -m
    BY <1>1, <1>3
  <2> QED BY <1>1, <2>1
<1>4. CASE q = 0
  <2>1. m * q = 0
    BY <1>4
  <2>2. a = r
    BY <1>1, <2>1
  <2> QED BY <2>2 DEF r
<1> QED BY <1>1, <1>2, <1>3, <1>4

\* A process that is not there satisfies the invariant.
LEMMA Gone == ASSUME Exit PROVE StartInv'
<1> USE StartupAssumption DEF Exit, Begin
<1>1. GivenSound' BY DEF GivenSound, CommandLineOf, NoDocument
<1>2. SettingsSound' BY DEF SettingsSound
<1>3. OptionsSound' /\ HandleSound' BY DEF OptionsSound, HandleSound
<1>4. LastWordWins' /\ StartsSound' BY DEF LastWordWins, StartsSound, At
<1> QED BY <1>1, <1>2, <1>3, <1>4 DEF StartInv

LEMMA StartInitial == Init => StartInv
<1> SUFFICES ASSUME Init PROVE StartInv
    OBVIOUS
<1> USE StartupAssumption DEF Init
<1>1. GivenSound BY DEF GivenSound, CommandLineOf, NoDocument
<1>2. SettingsSound BY DEF SettingsSound
<1>3. OptionsSound /\ HandleSound BY DEF OptionsSound, HandleSound
<1>4. LastWordWins /\ StartsSound BY DEF LastWordWins, StartsSound, At
<1> QED BY <1>1, <1>2, <1>3, <1>4 DEF StartInv

LEMMA LaunchKeeps == ASSUME StartInv, Launch PROVE StartInv'
<1> USE StartupAssumption DEF Launch, Begin
<1>1. GivenSound' BY DEF GivenSound, CommandLineOf, OptionOf, FileText
<1>2. SettingsSound' BY DEF SettingsSound
<1>3. OptionsSound' /\ HandleSound' BY DEF OptionsSound, HandleSound
<1>4. LastWordWins' /\ StartsSound' BY DEF LastWordWins, StartsSound, At
<1> QED BY <1>1, <1>2, <1>3, <1>4 DEF StartInv

\* iptracking-pamd.c:580-600, iptracking-firewalld.c:456-476.
LEMMA ReadKeeps ==
    ASSUME StartInv, PamdRead \/ FirewalldRead
    PROVE  StartInv'
<1> DEFINE given == DOMAIN doc.fields
<1>1. CASE Exit
  BY <1>1, Gone
<1>2. CASE ~Exit
  <2>1. /\ phase = "read" /\ phase' = "override"
        /\ \A f \in given : ReadsAs(doc.fields[f], Fields[f])
        /\ set' = [f \in DOMAIN set |-> IF f \in given THEN Scalar(doc.fields[f]) ELSE set[f]]
        /\ named' = given \cap {"production", "rebuild"}
        /\ db' \in {NoHandle, Alloc(doc.database.pairs)} \/ (db' = Handle("garbage", <<>>) /\ daemon = "pamd")
        /\ UNCHANGED <<daemon, doc, argv, optind>>
    BY <1>2 DEF PamdRead, FirewalldRead, ReadFields, At
  <2>2. GivenSound'
    BY <2>1 DEF StartInv, GivenSound, CommandLineOf
  <2>3. SettingsSound'
    <3>1. DOMAIN set' = DOMAIN Defaults
      BY <2>1 DEF StartInv, SettingsSound
    <3>2. ASSUME daemon = "pamd", NEW f \in {"records_min", "records_max", "records_delta"}
          PROVE  set'[f] \in 0..UIntMax
      <4>1. f \in given => doc.fields[f].kind = "number" /\ doc.fields[f].value \in 0..UIntMax
        BY <2>1, <3>2 DEF ReadsAs, Fields, PamdFields
      <4>2. f \in DOMAIN set /\ set[f] \in 0..UIntMax
        BY <3>2, StartupAssumption DEF StartInv, SettingsSound, PamdFields
      <4> QED BY <2>1, <4>1, <4>2 DEF Scalar
    <3>3. ASSUME daemon = "firewalld"
          PROVE  set'["check_interval"] \in 0..UIntMax /\ set'["production"] \in Seq(STRING)
      <4>1. "check_interval" \in given =>
              doc.fields["check_interval"].kind = "number" /\ doc.fields["check_interval"].value \in 0..UIntMax
        BY <2>1, <3>3 DEF ReadsAs, Fields, FirewalldFields
      <4>2. "production" \in given =>
              doc.fields["production"].kind = "word" /\ doc.fields["production"].text \in Seq(STRING)
        BY <2>1, <3>3 DEF ReadsAs, Fields, FirewalldFields, StartInv, GivenSound, FileText
      <4>3. {"check_interval", "production"} \subseteq DOMAIN set
        BY StartupAssumption DEF StartInv, SettingsSound, FirewalldFields
      <4>4. set["check_interval"] \in 0..UIntMax /\ set["production"] \in Seq(STRING)
        BY <3>3 DEF StartInv, SettingsSound
      <4> QED BY <2>1, <4>1, <4>2, <4>3, <4>4 DEF Scalar
    <3> QED BY <2>1, <3>1, <3>2, <3>3 DEF SettingsSound
  <2>4. OptionsSound'
    <3>1. set = Defaults /\ optind = 1 /\ Len(argv) \in Nat /\ DOMAIN argv = 1..Len(argv)
      BY <2>1 DEF StartInv, OptionsSound, GivenSound, CommandLineOf
    <3>2. \A f : Naming(f, 0) = {} /\ (Said(f, 0) <=> f \in given)
      BY <3>1 DEF Naming, Said
    <3>3. \A f : (Said(f, 0))' <=> Said(f, 0)
      BY <2>1, NothingSaid
    <3>4. \A f : (LastWord(f, 0))' = LastWord(f, 0)
      BY <2>1, NothingSaid
    <3>5. \A f : Said(f, 0) => LastWord(f, 0) = Scalar(doc.fields[f])
      BY <3>2 DEF LastWord
    <3>6. named' = {f \in {"production", "rebuild"} : Said(f, 0)}
      BY <2>1, <3>2
    <3>7. \A f \in DOMAIN set' : set'[f] = IF Said(f, 0) THEN LastWord(f, 0) ELSE Defaults[f]
      BY <2>1, <3>1, <3>2, <3>5
    <3>8. (Obeyed(0))'
      BY <3>3, <3>4, <3>6, <3>7 DEF Obeyed
    <3> QED BY <2>1, <3>1, <3>8 DEF OptionsSound
  <2>5. HandleSound' /\ LastWordWins' /\ StartsSound'
    BY <2>1 DEF HandleSound, LastWordWins, StartsSound, At, NoHandle, Handle
  <2> QED BY <2>1, <2>2, <2>3, <2>4, <2>5 DEF StartInv
<1> QED BY <1>1, <1>2

\* An option that is obeyed has the last word on its own setting and on no other.
LEMMA Overrides ==
    ASSUME StartInv, phase = "override", optind =< Len(argv), NEW v,
           Override(Option.field, v),
           v = Scalar(Option.arg)
             \/ (Option.field = "check_interval" /\ Scalar(Option.arg) \notin 0..UIntMax),
           named' = named \cup ({Option.field} \cap {"production", "rebuild"})
    PROVE  OptionsSound'
<1> PICK n : n = optind - 1
  OBVIOUS
<1> DEFINE k == n + 1
<1>1. /\ n \in Nat /\ k = optind /\ k \in DOMAIN argv /\ DOMAIN argv = 1..Len(argv)
      /\ Len(argv) \in Nat /\ Obeyed(n)
  BY DEF StartInv, OptionsSound, GivenSound, CommandLineOf
<1>2. /\ set' = [set EXCEPT ![Option.field] = v] /\ optind' = k + 1
      /\ UNCHANGED <<phase, doc, argv>>
  BY <1>1 DEF Override
<1>3. \A f : /\ (Said(f, k))' <=> Said(f, k)
             /\ (LastWord(f, k))' = LastWord(f, k)
  BY <1>2, NothingSaid
<1>4. Said(Option.field, k) /\ LastWord(Option.field, k) = Scalar(Option.arg)
  <2>1. Naming(Option.field, k) # {} /\ Max(Naming(Option.field, k)) = k
    BY <1>1, NamingNext DEF Option
  <2> QED BY <1>1, <2>1 DEF Said, LastWord, Option
<1>5. ASSUME NEW f, f # Option.field
      PROVE  /\ Said(f, k) <=> Said(f, n)
             /\ LastWord(f, k) = LastWord(f, n)
  <2>1. Naming(f, k) = Naming(f, n)
    BY <1>1, <1>5, NamingNext DEF Option
  <2> QED BY <2>1 DEF Said, LastWord
<1>6. named' = {f \in {"production", "rebuild"} : Said(f, k)}
  BY <1>1, <1>4, <1>5 DEF Obeyed
<1>7. ASSUME NEW f \in DOMAIN set'
      PROVE  \/ f = "check_interval" /\ Said(f, k) /\ LastWord(f, k) \notin 0..UIntMax
             \/ set'[f] = IF Said(f, k) THEN LastWord(f, k) ELSE Defaults[f]
  <2>1. CASE f = Option.field
    BY <2>1, <1>2, <1>4
  <2>2. CASE f # Option.field
    BY <2>2, <1>1, <1>2, <1>5 DEF Obeyed
  <2> QED BY <2>1, <2>2
<1>8. (Obeyed(k))'
  BY <1>3, <1>6, <1>7 DEF Obeyed
<1> QED BY <1>1, <1>2, <1>8 DEF OptionsSound

\* iptracking-pamd.c:601-611 and iptracking-firewalld.c:490-517: the second pass.
LEMMA OverrideKeeps ==
    ASSUME StartInv, PamdOverride \/ FirewalldInterval \/ FirewalldName
    PROVE  StartInv'
<1>1. CASE Exit
  BY <1>1, Gone
<1>2. CASE ~Exit
  <2> DEFINE Over(v) ==
        /\ Override(Option.field, v)
        /\ v = Scalar(Option.arg)
             \/ (Option.field = "check_interval" /\ Scalar(Option.arg) \notin 0..UIntMax)
        /\ named' = named \cup ({Option.field} \cap {"production", "rebuild"})
        /\ \/ daemon = "pamd" /\ Option.field \in {"backlog", "poll"}
           \/ daemon = "firewalld" /\ Option.field = "check_interval" /\ v \in 0..UIntMax
           \/ daemon = "firewalld" /\ Option.field \in {"production", "rebuild"} /\ v \in Seq(STRING)
  <2>1. phase = "override" /\ optind =< Len(argv) /\ OptionOf(daemon, Option)
    BY DEF PamdOverride, FirewalldInterval, FirewalldName, At, StartInv, GivenSound, CommandLineOf,
           OptionsSound, Option
  <2>2. \E v : Over(v)
    <3>1. CASE PamdOverride
      BY <1>2, <2>1, <3>1 DEF PamdOverride, At, Scalar, OptionOf
    <3>2. CASE FirewalldInterval
      <4>1. Option.arg.kind = "number" /\ Option.arg.value \in Int
        BY <1>2, <2>1, <3>2 DEF FirewalldInterval, At, OptionOf
      <4>2. Option.arg.value % (UIntMax + 1) \in 0..UIntMax
        BY <4>1, StartupAssumption
      <4>3. Option.arg.value \in 0..UIntMax => Option.arg.value % (UIntMax + 1) = Option.arg.value
        BY StartupAssumption, Fits
      <4> QED BY <1>2, <2>1, <3>2, <4>1, <4>2, <4>3 DEF FirewalldInterval, At, Scalar
    <3>3. CASE FirewalldName
      BY <1>2, <2>1, <3>3 DEF FirewalldName, At, Scalar, OptionOf, FileText
    <3> QED BY <3>1, <3>2, <3>3
  <2>3. PICK v : Over(v)
    BY <2>2
  <2>4. OptionsSound'
    BY <2>1, <2>3, Overrides
  <2>5. /\ set' = [set EXCEPT ![Option.field] = v]
        /\ UNCHANGED <<daemon, phase, doc, argv, db>>
    BY <2>3 DEF Override
  <2>6. GivenSound'
    BY <2>5 DEF StartInv, GivenSound, CommandLineOf
  <2>7. SettingsSound'
    BY <2>3, <2>5, StartupAssumption DEF StartInv, SettingsSound, PamdFields, FirewalldFields
  <2>8. HandleSound' /\ LastWordWins' /\ StartsSound'
    BY <2>1, <2>5 DEF StartInv, HandleSound, LastWordWins, StartsSound, At
  <2> QED BY <2>1, <2>4, <2>5, <2>6, <2>7, <2>8 DEF StartInv
<1> QED BY <1>1, <1>2

\* config_validate and what follows it: iptracking-pamd.c:400-440 and 618-661,
\* iptracking-firewalld.c:160-206.
LEMMA DoneKeeps == ASSUME StartInv, OverridesDone PROVE StartInv'
<1>1. /\ phase = "override" /\ phase' = "validate" /\ optind > Len(argv)
      /\ UNCHANGED <<daemon, doc, argv, optind, set, named, db, files>>
  BY DEF OverridesDone
<1>2. GivenSound' /\ SettingsSound'
  BY <1>1 DEF StartInv, GivenSound, SettingsSound, CommandLineOf
<1>3. OptionsSound'
  <2> PICK n : n = optind - 1
    OBVIOUS
  <2>1. /\ optind = Len(argv) + 1 /\ Obeyed(n)
    BY <1>1 DEF StartInv, OptionsSound, GivenSound, CommandLineOf
  <2>2. (Obeyed(n))'
    BY <1>1, <2>1, NothingSaid DEF Obeyed
  <2> QED BY <1>1, <2>1, <2>2 DEF OptionsSound
<1>4. HandleSound' /\ LastWordWins' /\ StartsSound'
  BY <1>1 DEF StartInv, HandleSound, LastWordWins, StartsSound, At
<1> QED BY <1>1, <1>2, <1>3, <1>4 DEF StartInv

LEMMA ValidateKeeps ==
    ASSUME StartInv, PamdValidate \/ FirewalldValidate
    PROVE  StartInv'
<1>1. CASE Exit
  BY <1>1, Gone
<1>2. CASE ~Exit
  <2> DEFINE all == Len(argv)
             derived == IF daemon = "firewalld" /\ named = {"production"}
                        THEN [set EXCEPT !["rebuild"] = Append(set["production"], Update)] ELSE set
  <2>1. /\ phase = "validate" /\ phase' = "start" /\ set' = derived
        /\ db.driver \notin {NULL, "garbage"}
        /\ daemon = "pamd" => PamdSane /\ files' = files \ {set["socket_filepath"]}
        /\ daemon = "firewalld" => FirewalldSane
        /\ UNCHANGED <<daemon, doc, argv, optind, named, db>>
    <3>1. CASE PamdValidate
      BY <1>2, <3>1 DEF PamdValidate, Checked, PamdSane, At
    <3>2. CASE FirewalldValidate
      <4>1. FirewalldSane /\ Checked /\ phase = "validate" /\ daemon = "firewalld" /\ set' = derived
        BY <1>2, <3>2 DEF FirewalldValidate, At
      <4>2. db.driver # "garbage"
        BY <4>1, AllocsDriver DEF StartInv, HandleSound, FirewalldSane
      <4> QED BY <4>1, <4>2 DEF Checked, FirewalldSane
    <3> QED BY <3>1, <3>2
  <2>2. /\ optind = all + 1 /\ all \in Nat /\ Obeyed(all)
    BY <2>1 DEF StartInv, OptionsSound, GivenSound, CommandLineOf
  <2>3. \A f \in {"production", "check_interval", "records_min", "records_max", "records_delta",
                   "wait_min", "wait_max", "socket_filepath"} : set'[f] = set[f]
    BY <2>1
  <2>4. GivenSound'
    BY <2>1 DEF StartInv, GivenSound, CommandLineOf
  <2>5. SettingsSound'
    BY <2>1, <2>3 DEF StartInv, SettingsSound
  <2>6. OptionsSound'
    BY <2>1 DEF OptionsSound
  <2>7. HandleSound'
    BY <2>1 DEF StartInv, HandleSound
  <2>8. LastWordWins'
    <3>1. daemon = "pamd" => ~Said("production", all)
      BY DEF StartInv, GivenSound, CommandLineOf, OptionOf, Said, Naming, PamdFields
    <3>2. \A f : /\ (Said(f, all))' <=> Said(f, all)
                 /\ (LastWord(f, all))' = LastWord(f, all)
      BY <2>1, NothingSaid
    <3>3. all' = all
      BY <2>1
    <3>4. ASSUME NEW f \in DOMAIN set'
          PROVE  \/ f = "check_interval" /\ Said(f, all) /\ LastWord(f, all) \notin 0..UIntMax
                 \/ set'[f] = CASE Said(f, all) -> LastWord(f, all)
                                [] f = "rebuild" /\ ~Said(f, all) /\ Said("production", all) ->
                                      Append(LastWord("production", all), Update)
                                [] OTHER -> Defaults[f]
      <4>1. DOMAIN set' = DOMAIN set
        BY <2>1
      <4>2. CASE f = "rebuild" /\ daemon = "firewalld" /\ named = {"production"}
        <5>1. ~Said("rebuild", all) /\ Said("production", all)
          BY <2>2, <4>2 DEF Obeyed
        <5>2. set["production"] = LastWord("production", all)
          BY <2>2, <5>1, StartupAssumption DEF StartInv, SettingsSound, Obeyed, FirewalldFields
        <5> QED BY <2>1, <4>1, <4>2, <5>1, <5>2
      <4>3. CASE ~(f = "rebuild" /\ daemon = "firewalld" /\ named = {"production"})
        <5>1. set'[f] = set[f]
          BY <2>1, <4>1, <4>3
        <5>2. f = "rebuild" /\ Said("production", all) => Said("rebuild", all)
          BY <2>2, <3>1, <4>3 DEF Obeyed, StartInv, GivenSound
        <5> QED BY <2>2, <4>1, <5>1, <5>2 DEF Obeyed
      <4> QED BY <4>2, <4>3
    <3> QED BY <3>2, <3>3, <3>4 DEF LastWordWins
  <2>9. StartsSound'
    <3>1. CASE daemon = "pamd"
      BY <2>1, <2>3, <3>1 DEF StartInv, SettingsSound, StartsSound, At, PamdSane
    <3>2. CASE daemon = "firewalld"
      <4>1. set["check_interval"] \in MinInterval..UIntMax
        BY <2>1, <3>2, StartupAssumption DEF StartInv, SettingsSound, FirewalldSane
      <4>2. set["production"] # Append(set["production"], Update)
        BY <3>2 DEF StartInv, SettingsSound
      <4>3. set'["rebuild"] \in {set["rebuild"], Append(set["production"], Update)}
        BY <2>1
      <4> QED BY <2>1, <2>3, <3>2, <4>1, <4>2, <4>3 DEF StartsSound, At, FirewalldSane
    <3> QED BY <3>1, <3>2 DEF StartInv, GivenSound
  <2> QED BY <2>1, <2>4, <2>5, <2>6, <2>7, <2>8, <2>9 DEF StartInv
<1> QED BY <1>1, <1>2

\* Between validation and the end nothing that the invariant is about changes.
LEMMA RunKeeps == ASSUME StartInv, PamdRuns \/ FirewalldRuns PROVE StartInv'
<1>1. /\ phase = "start" /\ phase' = "running"
      /\ UNCHANGED <<daemon, doc, argv, optind, set, named, db>>
  BY DEF PamdRuns, FirewalldRuns, At
<1>2. GivenSound' /\ SettingsSound' /\ OptionsSound' /\ HandleSound'
  BY <1>1 DEF StartInv, GivenSound, SettingsSound, OptionsSound, HandleSound, CommandLineOf
<1>3. LastWordWins'
  <2>1. \A f, n : /\ (Said(f, n))' <=> Said(f, n)
                  /\ (LastWord(f, n))' = LastWord(f, n)
    BY <1>1, NothingSaid
  <2>2. LastWordWins /\ phase \in {"start", "running"} /\ phase' \in {"start", "running"}
    BY <1>1 DEF StartInv
  <2>3. UNCHANGED <<set, argv>>
    BY <1>1
  <2> QED BY <2>1, <2>2, <2>3 DEF LastWordWins
<1>4. StartsSound'
  BY <1>1 DEF StartsSound, At
<1> QED BY <1>1, <1>2, <1>3, <1>4 DEF StartInv

LEMMA StartSteps == StartInv /\ [Next]_vars => StartInv'
<1> SUFFICES ASSUME StartInv, [Next]_vars PROVE StartInv'
    OBVIOUS
<1>1. CASE Launch
  BY <1>1, LaunchKeeps
<1>2. CASE PamdRead \/ FirewalldRead
  BY <1>2, ReadKeeps
<1>3. CASE PamdOverride \/ FirewalldInterval \/ FirewalldName
  BY <1>3, OverrideKeeps
<1>4. CASE OverridesDone
  BY <1>4, DoneKeeps
<1>5. CASE PamdValidate \/ FirewalldValidate
  BY <1>5, ValidateKeeps
<1>6. CASE PamdRuns \/ FirewalldRuns
  BY <1>6, RunKeeps
<1>7. CASE PamdFault \/ PamdPathTooLong \/ PamdEnds \/ FirewalldEnds \/ StartFails \/ Crash
  BY <1>7, Gone DEF PamdFault, PamdPathTooLong, PamdEnds, FirewalldEnds, StartFails, Crash
<1>8. CASE UNCHANGED vars
  <2>1. /\ UNCHANGED <<daemon, phase, doc, argv, optind, set, named, db, files>>
    BY <1>8 DEF vars, process
  <2>2. GivenSound' /\ SettingsSound' /\ HandleSound' /\ StartsSound'
    BY <2>1 DEF StartInv, GivenSound, SettingsSound, HandleSound, StartsSound, CommandLineOf, At
  <2>3. \A f, n : /\ (Said(f, n))' <=> Said(f, n)
                  /\ (LastWord(f, n))' = LastWord(f, n)
    BY <2>1, NothingSaid
  <2>4. OptionsSound'
    <3> PICK n : n = optind - 1
      OBVIOUS
    <3>1. Obeyed(n) => (Obeyed(n))'
      BY <2>1, <2>3 DEF Obeyed
    <3> QED BY <2>1, <3>1 DEF StartInv, OptionsSound
  <2>5. LastWordWins'
    BY <2>1, <2>3 DEF StartInv, LastWordWins
  <2> QED BY <2>1, <2>2, <2>4, <2>5 DEF StartInv
<1> QED BY <1>1, <1>2, <1>3, <1>4, <1>5, <1>6, <1>7, <1>8 DEF Next

\* The inductive invariant of a start.
THEOREM StartInvariance == Spec => []StartInv
BY StartInitial, StartSteps, PTL DEF Spec

\* iptracking-pamd.c:580-611, iptracking-firewalld.c:192-196 and 490-517: whatever the file and
\* the command line say, the last of them that speaks of a setting decides it.
THEOREM LastWordDecides == Spec => []LastWordWins
<1>1. StartInv => LastWordWins
  BY DEF StartInv
<1> QED BY <1>1, StartInvariance, PTL

\* iptracking-pamd.c:409-429, iptracking-firewalld.c:175-196: what starts has parameters that its
\* parts can work with; the conjuncts about sizes and waits are what LogQueue assumes of them.
THEOREM StartIsSound == Spec => []StartsSound
<1>1. StartInv => StartsSound
  BY DEF StartInv
<1> QED BY <1>1, StartInvariance, PTL

-----------------------------------------------------------------------------
(* The handle.                                                             *)

LEMMA OneDriver ==
    ASSUME NEW m
    PROVE  /\ Alloc(m).driver = "csvfile" => Alloc(m) = AllocCsvfile(m)
           /\ Alloc(m).driver = "sqlite3" => Alloc(m) = AllocSqlite3(m)
           /\ Alloc(m).driver = "postgresql" => Alloc(m) = AllocPostgresql(m)
           /\ Alloc(m).driver = "mysql" => Alloc(m) = AllocMysql(m)
BY DEF Alloc, AllocCsvfile, AllocSqlite3, AllocMysql, AllocPostgresql, Handle, NoHandle, Word, NULL

\* What a driver keeps is what the mapping has.
LEMMA KeptAsGiven ==
    ASSUME NEW m, NEW keys
    PROVE  /\ DOMAIN Kept(m, keys) = {k \in keys \cap DOMAIN m : IsScalar(m[k])}
           /\ \A k \in DOMAIN Kept(m, keys) : Kept(m, keys)[k] = m[k]
BY DEF Kept, Restrict

LEMMA CsvfileAsConfigured ==
    ASSUME NEW m, NEW h, h = AllocCsvfile(m), h.driver = "csvfile"
    PROVE  /\ "filename" \in DOMAIN m /\ IsScalar(m["filename"])
           /\ "filename" \in DOMAIN h.parameters /\ h.parameters["filename"] = m["filename"]
           /\ h.parameters["delimiter"] # Word(<<>>)
           /\ "delimiter" \in DOMAIN m =>
                 "delimiter" \in DOMAIN h.parameters /\ h.parameters["delimiter"] = m["delimiter"]
<1> DEFINE kept == Kept(m, {"delimiter", "filename"})
<1>1. /\ DOMAIN kept = {k \in {"delimiter", "filename"} \cap DOMAIN m : IsScalar(m[k])}
      /\ \A k \in DOMAIN kept : kept[k] = m[k]
  BY KeptAsGiven
<1>2. /\ "filename" \in DOMAIN kept
      /\ "delimiter" \in DOMAIN m => "delimiter" \in DOMAIN kept /\ kept["delimiter"] # Word(<<>>)
      /\ h.parameters = [k \in DOMAIN kept \cup {"delimiter"} |->
                           IF k \in DOMAIN kept THEN kept[k] ELSE Word(<<",">>)]
  BY DEF AllocCsvfile, Handle, NoHandle, NULL
<1> HIDE DEF kept
<1>3. /\ DOMAIN h.parameters = DOMAIN kept \cup {"delimiter"}
      /\ \A k \in DOMAIN kept : h.parameters[k] = kept[k]
      /\ "delimiter" \notin DOMAIN kept => h.parameters["delimiter"] = Word(<<",">>)
  BY <1>2
<1>4. Word(<<",">>) # Word(<<>>)
  BY DEF Word
<1> QED BY <1>1, <1>2, <1>3, <1>4

LEMMA Sqlite3AsConfigured ==
    ASSUME NEW m, NEW h, h = AllocSqlite3(m), h.driver = "sqlite3",
           NEW opens, opens = IF "uri" \in DOMAIN m /\ IsScalar(m["uri"]) THEN "uri" ELSE "filename"
    PROVE  /\ opens \in DOMAIN m /\ IsScalar(m[opens])
           /\ "filename" \in DOMAIN h.parameters /\ h.parameters["filename"] = m[opens]
<1> DEFINE kept == Kept(m, {"uri", "filename"})
<1>1. /\ DOMAIN kept = {k \in {"uri", "filename"} \cap DOMAIN m : IsScalar(m[k])}
      /\ \A k \in DOMAIN kept : kept[k] = m[k]
  BY KeptAsGiven
<1>2. \E name, flags :
        /\ name = IF "uri" \in DOMAIN kept THEN "uri" ELSE "filename"
        /\ name \in DOMAIN kept
        /\ h.parameters = [filename |-> kept[name], flags |-> flags]
  BY DEF AllocSqlite3, Handle, NoHandle, NULL
<1> QED BY <1>1, <1>2

LEMMA MysqlAsConfigured ==
    ASSUME NEW m, NEW h, h = AllocMysql(m), NEW k \in {"host", "passwd"},
           k \in DOMAIN m, IsScalar(m[k])
    PROVE  \/ k \in DOMAIN h.parameters /\ h.parameters[k] = m[k]
           \/ /\ k = "passwd" /\ "db" \in DOMAIN m /\ IsScalar(m["db"])
              /\ k \in DOMAIN h.parameters /\ h.parameters[k] = m["db"]
<1> DEFINE kept == Kept(m, {"host", "user", "passwd", "unix_socket"})
           dbGiven == DOMAIN Kept(m, {"db"}) # {}
<1>1. k \in DOMAIN kept /\ kept[k] = m[k]
  <2>1. /\ DOMAIN kept = {x \in {"host", "user", "passwd", "unix_socket"} \cap DOMAIN m : IsScalar(m[x])}
        /\ \A x \in DOMAIN kept : kept[x] = m[x]
    BY KeptAsGiven
  <2> QED BY <2>1
<1>2. dbGiven => "db" \in DOMAIN m /\ IsScalar(m["db"])
  <2>1. DOMAIN Kept(m, {"db"}) = {x \in {"db"} \cap DOMAIN m : IsScalar(m[x])}
    BY KeptAsGiven
  <2> QED BY <2>1
<1>3. k \in DOMAIN h.parameters /\ h.parameters[k] = IF k = "passwd" /\ dbGiven THEN m["db"] ELSE kept[k]
  BY <1>1 DEF AllocMysql, Handle
<1> QED BY <1>1, <1>2, <1>3

\* db_instance_sqlite3.c:139-148, db_instance_csvfile.c:62-77, db_instance_mysql.c:149-150,
\* db_instance_postgresql.c: the handle of a daemon that starts is what the file says.
THEOREM HandleAsConfigured == Spec => []DatabaseAsConfigured
<1>1. StartInv => DatabaseAsConfigured
  <2> SUFFICES ASSUME StartInv, phase \in {"start", "running"}
               PROVE  DatabaseAsConfigured
      BY DEF DatabaseAsConfigured
  <2> DEFINE m == doc.database.pairs
  <2>1. db = Alloc(m) /\ db.driver \in {"csvfile", "sqlite3", "mysql", "postgresql"}
    BY AllocsDriver DEF StartInv, HandleSound
  <2>2. CASE db.driver = "csvfile"
    BY <2>1, <2>2, OneDriver, CsvfileAsConfigured DEF DatabaseAsConfigured
  <2>3. CASE db.driver = "sqlite3"
    BY <2>1, <2>3, OneDriver, Sqlite3AsConfigured DEF DatabaseAsConfigured
  <2>4. CASE db.driver = "postgresql"
    <3> DEFINE keys == ConnKeys \cup {"pamd.schema", "firewalld.schema", "firewalld.notify-channel"}
    <3>1. db.parameters = Kept(m, keys)
      BY <2>1, <2>4, OneDriver DEF AllocPostgresql, Handle
    <3>2. /\ DOMAIN Kept(m, keys) = {k \in keys \cap DOMAIN m : IsScalar(m[k])}
          /\ \A k \in DOMAIN Kept(m, keys) : Kept(m, keys)[k] = m[k]
      BY KeptAsGiven
    <3>3. ConnKeys \subseteq keys
      OBVIOUS
    <3> HIDE DEF keys
    <3> QED BY <2>4, <3>1, <3>2, <3>3 DEF DatabaseAsConfigured
  <2>5. CASE db.driver = "mysql"
    BY <2>1, <2>5, OneDriver, MysqlAsConfigured DEF DatabaseAsConfigured
  <2> QED BY <2>1, <2>2, <2>3, <2>4, <2>5
<1> QED BY <1>1, StartInvariance, PTL
=============================================================================
