----------------------------- MODULE MCStartup -----------------------------
(***************************************************************************)
(* Startup for TLC: files that give up to two of the PAM daemon's settings *)
(* or any of the firewall daemon's, or a database mapping with any of a    *)
(* driver's keys, and command lines of up to one and two options, with     *)
(* numbers inside, at and outside the bounds.                              *)
(***************************************************************************)
EXTENDS Startup

Tree == [kind |-> "tree"]

MCImmovable == {<<"-">>}

MCDefaults == [
    records_min |-> 2, records_max |-> 0, records_delta |-> 2,
    wait_min |-> 1, wait_max |-> 3, wait_delta |-> 1, wait_thresh |-> 1,
    socket_filepath |-> <<"s">>, backlog |-> 1, poll |-> 2,
    check_interval |-> 5, production |-> <<"b">>, rebuild |-> <<"b", "u">>]

Nodes(f) ==
    CASE f = "socket_filepath" -> {Tree, Word(<<"p">>), Word(<<"-">>), Word(<<"p", "q", "r">>)}
      [] f \in {"production", "rebuild"} ->
            {Tree} \cup {Word(t) : t \in {<<"b">>, <<"b", "u">>, <<"n">>, <<>>, <<"n", "n", "n">>}}
      [] f = "check_interval" -> {Tree, Word(<<"n">>), Number(1), Number(4), Number(8)}
      [] OTHER -> {Word(<<"n">>)} \cup {Number(n) : n \in {-5, -1, 0, 1, 3, 8}}

Given(names) == {v \in [names -> UNION {Nodes(f) : f \in names}] : \A f \in names : v[f] \in Nodes(f)}

PamdGiven == UNION {Given({f, g}) : f, g \in DOMAIN PamdFields} \cup {<<>>}
FirewalldGiven == UNION {Given(names) : names \in SUBSET DOMAIN FirewalldFields}

MCSqliteFlags == {Word("CREATE"), Word("READWRITE")}

\* A driver's keys, each with one of the nodes or not given.
DriverGiven(driver, keys, nodes) ==
    {[k \in {"driver-name"} |-> Word(driver)] @@ m : m \in UNION {[names -> nodes] : names \in SUBSET keys}}

Values == {Tree, Word(<<"n">>), Word(<<>>)}
Sequence(items) == [kind |-> "sequence", items |-> items]

Mappings ==
    DriverGiven("csvfile", {"filename", "delimiter", "host"}, Values)
    \cup DriverGiven("mysql", {"host", "passwd", "db", "port"}, {Tree, Word(<<"n">>), Number(-1), Number(1)})
    \cup DriverGiven("postgresql", {"host", "port", "pamd.schema", "db"}, {Tree, Word(<<"n">>), Number(1)})
    \cup {m @@ f : m \in DriverGiven("sqlite3", {"filename", "uri"}, Values),
                  f \in DriverGiven("sqlite3", {}, {}) \cup
                       {[flags |-> n] : n \in {Tree, Word(<<"n">>), Sequence(<<Tree>>),
                                               Sequence(<<Word("CREATE"), Word("n")>>)}}}
    \cup DriverGiven("oracle", {}, {}) \cup {<<>>, [filename |-> Word(<<"n">>)]}
    \cup {[k \in {"driver-name"} |-> Tree]}

Mapping(m) == [kind |-> "mapping", pairs |-> m]

Plain == Mapping([k \in {"driver-name", "filename"} |->
                     IF k = "filename" THEN Word(<<"n">>) ELSE Word("csvfile")])

File(database, fields) == [readable |-> TRUE, database |-> database, fields |-> fields]

MCDocuments ==
    {File(Plain, fields) : fields \in PamdGiven \cup FirewalldGiven}
    \cup {File(Mapping(m), <<>>) : m \in Mappings}
    \cup {File(database, <<>>) : database \in {Tree, [kind |-> "none"]}}
    \cup {NoDocument}

Opt(field, arg) == [field |-> field, arg |-> arg]

PamdOptions == {Opt(f, a) : f \in {"backlog", "poll"}, a \in {Number(-1), Number(3), Number(4)}}
FirewalldOptions ==
    {Opt("check_interval", a) : a \in {Number(-1), Number(1), Number(4), Word(<<"n">>)}}
    \cup {Opt(f, Word(t)) : f \in {"production", "rebuild"}, t \in {<<"b">>, <<"n">>}}

MCCommandLines == [pamd |-> BoundedSeq(PamdOptions, 1), firewalld |-> BoundedSeq(FirewalldOptions, 2)]
=============================================================================
