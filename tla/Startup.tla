------------------------------ MODULE Startup ------------------------------
(***************************************************************************)
(* How the daemons start: main of pam-daemon/iptracking-pamd.c and of      *)
(* firewall-daemon/iptracking-firewalld.c up to the creation of the        *)
(* threads.  A process begins with the static values of its settings,      *)
(* reads the YAML file, goes over its command line a second time for the   *)
(* overrides, validates what it has, and runs or exits.  Of what a process *)
(* leaves behind only the socket file matters to the next one.  The two    *)
(* daemons share nothing but the YAML file, which neither writes: a        *)
(* process is one or the other.  Logging options, -h and -V are left out.  *)
(***************************************************************************)
EXTENDS DbAlloc

CONSTANTS
    Documents,     \* YAML files: [readable, database, fields]
    CommandLines,  \* [{"pamd", "firewalld"} -> sets of sequences of options]
    Defaults,      \* the static value of every setting
    SoMaxConn,
    PathMax,       \* the size of sun_path
    MinInterval,   \* 120 seconds
    NameMax,       \* 256 characters
    NameChars,     \* the letters, the digits and the underscore
    Update,        \* the suffix "_update"
    Immovable      \* paths of what unlink() does not remove

VARIABLES
    daemon,     \* which program the process runs
    phase,      \* where main is; "off" without a process
    doc,        \* the file -c names
    argv,       \* the options given, in order
    optind,     \* the option getopt_long looks at next
    set,        \* the settings
    named,      \* ipset names with their _isset flag
    db,         \* the database handle; its driver is NULL, or "garbage", without one
    files       \* paths at which the file system has something

process == <<daemon, phase, doc, argv, optind, set, named, db>>
vars == <<process, files>>

PamdFields == [
    records_min |-> "uint32", records_max |-> "uint32", records_delta |-> "uint32",
    wait_min |-> "int", wait_max |-> "int", wait_delta |-> "int", wait_thresh |-> "int",
    socket_filepath |-> "string"]

FirewalldFields == [check_interval |-> "uint32", production |-> "string", rebuild |-> "string"]

Fields == IF daemon = "pamd" THEN PamdFields ELSE FirewalldFields

FileText(node) == node.kind = "word" => node.text \in Seq(STRING)

\* The options are the daemon's own; -i comes with a long and a name with its text.
OptionOf(d, option) ==
    IF d = "pamd" THEN option.field \in {"backlog", "poll"}
    ELSE \/ option.field = "check_interval" /\ (option.arg.kind = "number" => option.arg.value \in Int)
         \/ option.field \in {"production", "rebuild"} /\ option.arg.kind = "word" /\ FileText(option.arg)

CommandLineOf(d, options) ==
    /\ Len(options) \in Nat /\ DOMAIN options = 1..Len(options)
    /\ \A k \in DOMAIN options : OptionOf(d, options[k])

ASSUME StartupAssumption ==
    /\ UIntMax \in Nat /\ MinInterval \in Nat
    /\ DOMAIN Defaults = DOMAIN PamdFields \cup DOMAIN FirewalldFields \cup {"backlog", "poll"}
    /\ {Defaults["records_min"], Defaults["records_max"], Defaults["records_delta"],
        Defaults["check_interval"]} \subseteq 0..UIntMax
    /\ Defaults["production"] \in Seq(STRING)
    /\ \A file \in Documents : \A f \in DOMAIN file.fields : FileText(file.fields[f])
    /\ \A d \in {"pamd", "firewalld"} : \A options \in CommandLines[d] : CommandLineOf(d, options)

NoDocument == [readable |-> FALSE, database |-> [kind |-> "none"], fields |-> <<>>]

\* A new process; the last one took its memory with it.
Begin(d, p, file, options) ==
    /\ daemon' = d /\ phase' = p
    /\ doc' = file /\ argv' = options /\ optind' = 1
    /\ set' = Defaults /\ named' = {} /\ db' = NoHandle

Init ==
    /\ daemon = "pamd" /\ phase = "off"
    /\ doc = NoDocument /\ argv = <<>> /\ optind = 1
    /\ set = Defaults /\ named = {} /\ db = NoHandle
    /\ files = Immovable

\* The first look at the command line finds the file to read.
Launch ==
    /\ phase = "off"
    /\ \E d \in {"pamd", "firewalld"} : \E file \in Documents : \E options \in CommandLines[d] :
          /\ DOMAIN file.fields \subseteq DOMAIN (IF d = "pamd" THEN PamdFields ELSE FirewalldFields)
          /\ Begin(d, "read", file, options)
    /\ UNCHANGED files

Exit == Begin("pamd", "off", NoDocument, <<>>)

At(d, p) == daemon = d /\ phase = p

-----------------------------------------------------------------------------
(* The YAML file.                                                          *)

HasDatabase == doc.database.kind # "none"

ReadFields(handles) ==
    LET given == DOMAIN doc.fields
    IN IF doc.readable /\ (HasDatabase => ~Nameless(doc.database)) /\ \A f \in given : ReadsAs(doc.fields[f], Fields[f])
       THEN /\ phase' = "override"
            /\ set' = [f \in DOMAIN set |-> IF f \in given THEN Scalar(doc.fields[f]) ELSE set[f]]
            /\ named' = given \cap {"production", "rebuild"}
            /\ db' \in handles
            /\ UNCHANGED <<daemon, doc, argv, optind, files>>
       ELSE Exit /\ UNCHANGED files

\* tc.db has no value until there is a database mapping.
PamdRead ==
    /\ At("pamd", "read")
    /\ ReadFields(IF HasDatabase THEN {Alloc(doc.database.pairs)}
                  ELSE {NoHandle, Handle("garbage", <<>>)})

FirewalldRead ==
    /\ At("firewalld", "read")
    /\ ReadFields({IF HasDatabase THEN Alloc(doc.database.pairs) ELSE NoHandle})

-----------------------------------------------------------------------------
(* The command line, again from the first option.                          *)

Option == argv[optind]

Override(f, v) ==
    /\ set' = [set EXCEPT ![f] = v]
    /\ optind' = optind + 1
    /\ UNCHANGED <<daemon, phase, doc, argv, db, files>>

PamdOverride ==
    /\ At("pamd", "override") /\ optind =< Len(argv)
    /\ LET most == IF Option.field = "backlog" THEN SoMaxConn ELSE IntMax
       IN IF Option.arg.kind = "number" /\ Option.arg.value \in 0..most
          THEN Override(Option.field, Option.arg.value) /\ UNCHANGED named
          ELSE Exit /\ UNCHANGED files

\* The long -i gives becomes a uint32_t.
FirewalldInterval ==
    /\ At("firewalld", "override") /\ optind =< Len(argv)
    /\ Option.field = "check_interval"
    /\ IF Option.arg.kind = "number"
       THEN Override("check_interval", Option.arg.value % (UIntMax + 1)) /\ UNCHANGED named
       ELSE Exit /\ UNCHANGED files

\* Mutant: the _isset flag is forgotten.
FirewalldName_NotSet ==
    /\ At("firewalld", "override") /\ optind =< Len(argv)
    /\ Option.field # "check_interval"
    /\ Override(Option.field, Option.arg.text)
    /\ UNCHANGED named

FirewalldName ==
    /\ At("firewalld", "override") /\ optind =< Len(argv)
    /\ Option.field # "check_interval"
    /\ Override(Option.field, Option.arg.text)
    /\ named' = named \cup {Option.field}

OverridesDone ==
    /\ phase = "override" /\ optind > Len(argv)
    /\ phase' = "validate"
    /\ UNCHANGED <<daemon, doc, argv, optind, set, named, db, files>>

-----------------------------------------------------------------------------
(* config_validate                                                         *)

Checked == /\ phase' = "start"
           /\ UNCHANGED <<daemon, doc, argv, optind, named, db>>

PamdSane ==
    /\ db.driver # NULL
    /\ set.records_max # 0 => set.records_min =< set.records_max
    /\ set.wait_max # 0 => set.wait_min =< set.wait_max

\* Mutant: the socket file stays.
PamdValidate_KeepsFile ==
    /\ At("pamd", "validate") /\ db.driver # "garbage"
    /\ IF PamdSane THEN Checked /\ UNCHANGED set ELSE Exit
    /\ UNCHANGED files

\* Only a file that cannot be removed is an error.
PamdValidate ==
    /\ At("pamd", "validate") /\ db.driver # "garbage"
    /\ IF PamdSane /\ set.socket_filepath \notin Immovable
       THEN Checked /\ files' = files \ {set.socket_filepath} /\ UNCHANGED set
       ELSE Exit /\ UNCHANGED files

\* The handle is dereferenced.
PamdFault ==
    /\ At("pamd", "validate") /\ db.driver = "garbage"
    /\ Exit /\ UNCHANGED files

ValidName(s) == Len(s) \in 1..NameMax /\ Range(s) \subseteq NameChars

FirewalldSane ==
    /\ db.driver # NULL
    /\ set.check_interval >= MinInterval
    /\ ValidName(set.production) /\ ValidName(set.rebuild)
    /\ set.rebuild # set.production

FirewalldValidate ==
    /\ At("firewalld", "validate")
    /\ IF FirewalldSane
       THEN /\ Checked
            /\ set' = IF named = {"production"}
                      THEN [set EXCEPT !.rebuild = Append(set.production, Update)]
                      ELSE set
       ELSE Exit
    /\ UNCHANGED files

-----------------------------------------------------------------------------
(* The rest of main.                                                       *)

\* The event thread binds the socket to the file.
PamdRuns ==
    /\ At("pamd", "start") /\ Len(set.socket_filepath) < PathMax
    /\ phase' = "running" /\ files' = files \cup {set.socket_filepath}
    /\ UNCHANGED <<daemon, doc, argv, optind, set, named, db>>

\* FATAL, in the event thread, ends the whole process.
PamdPathTooLong ==
    /\ At("pamd", "start") /\ Len(set.socket_filepath) >= PathMax
    /\ Exit /\ UNCHANGED files

FirewalldRuns ==
    /\ At("firewalld", "start")
    /\ phase' = "running"
    /\ UNCHANGED <<daemon, doc, argv, optind, set, named, db, files>>

\* No queue; or no connection, or no ipset helper.
StartFails == phase = "start" /\ Exit /\ UNCHANGED files

PamdEnds == At("pamd", "running") /\ Exit /\ files' = files \ {set.socket_filepath}

FirewalldEnds == At("firewalld", "running") /\ Exit /\ UNCHANGED files

\* kill -9, or the machine goes down.
Crash == phase # "off" /\ Exit /\ UNCHANGED files

Next ==
    \/ Launch
    \/ PamdRead \/ PamdOverride \/ PamdValidate \/ PamdFault \/ PamdRuns
    \/ PamdPathTooLong \/ PamdEnds
    \/ FirewalldRead \/ FirewalldInterval \/ FirewalldName \/ FirewalldValidate
    \/ FirewalldRuns \/ FirewalldEnds
    \/ OverridesDone \/ StartFails \/ Crash

Spec == Init /\ [][Next]_vars

-----------------------------------------------------------------------------
(* Properties.                                                             *)

\* Where the first n options name f.
Naming(f, n) == {k \in DOMAIN argv : k =< n /\ argv[k].field = f}

\* What the file and the first n options say of f, if they say anything: the last
\* argument, or else what the file has.
Said(f, n) == Naming(f, n) # {} \/ f \in DOMAIN doc.fields

LastWord(f, n) ==
    IF Naming(f, n) # {} THEN Scalar(argv[Max(Naming(f, n))].arg) ELSE Scalar(doc.fields[f])

\* A daemon starts with the last word on each of its settings: the command line
\* overrides the file and the file the defaults, and a rebuild name nobody gives
\* follows the production name somebody gives.  Only an interval -i does not fit
\* into the uint32_t is another (iptracking-pamd.c:580-611,
\* iptracking-firewalld.c:192-196 and 490-517).
LastWordWins ==
    phase \in {"start", "running"} =>
        LET all == Len(argv)
        IN \A f \in DOMAIN set :
              \/ f = "check_interval" /\ Said(f, all) /\ LastWord(f, all) \notin 0..UIntMax
              \/ set[f] = CASE Said(f, all) -> LastWord(f, all)
                            [] f = "rebuild" /\ ~Said(f, all) /\ Said("production", all) ->
                                  Append(LastWord("production", all), Update)
                            [] OTHER -> Defaults[f]

\* A daemon's handle holds what the file's database mapping says, of the keys that
\* are scalars, and nothing else: a file driver opens the URI or else the file that
\* is named there, a CSV file never has an empty delimiter, and a connection's
\* keyword is the one given, or the default.  The MySQL driver is the exception: it
\* has the database's name for a password, whatever password is given
\* (db_instance_sqlite3.c:139-148, db_instance_csvfile.c:62-77, db_instance_mysql.c:149-150).
DatabaseAsConfigured ==
    phase \in {"start", "running"} =>
        LET m == doc.database.pairs
            given == {k \in DOMAIN m : IsScalar(m[k])}
            has(k, node) == k \in DOMAIN db.parameters /\ db.parameters[k] = node
            opens == IF db.driver = "sqlite3" /\ "uri" \in given THEN "uri" ELSE "filename"
        IN CASE db.driver \in {"csvfile", "sqlite3"} ->
                  /\ opens \in given /\ has("filename", m[opens])
                  /\ db.driver = "csvfile" =>
                        /\ db.parameters["delimiter"] # Word(<<>>)
                        /\ "delimiter" \in DOMAIN m => has("delimiter", m["delimiter"])
             [] db.driver = "postgresql" ->
                  /\ \A k \in DOMAIN db.parameters : k \in given /\ has(k, m[k])
                  /\ ConnKeys \cap given \subseteq DOMAIN db.parameters
             [] OTHER ->
                  \A k \in {"host", "passwd"} \cap given :
                      has(k, m[k]) \/ (k = "passwd" /\ "db" \in given /\ has(k, m["db"]))

\* What starts can work.  The PAM daemon has queue sizes and waits that module
\* LogQueue assumes, whichever of them the file gave and whichever are defaults,
\* and a path that bind will find free whatever earlier daemons left there; the
\* firewall daemon builds a list that is not the one in force, and no more often
\* than the least interval (iptracking-pamd.c:409-429, iptracking-firewalld.c:175-196).
StartsSound ==
    /\ At("pamd", "start") =>
          /\ {set.records_min, set.records_max, set.records_delta} \subseteq 0..UIntMax
          /\ set.records_max # 0 => set.records_min =< set.records_max
          /\ set.wait_max # 0 => set.wait_min =< set.wait_max
          /\ set.socket_filepath \notin files
    /\ At("firewalld", "start") =>
          /\ set.rebuild # set.production
          /\ set.check_interval \in MinInterval..UIntMax
=============================================================================
