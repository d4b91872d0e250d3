----------------------------- MODULE LocalCases -----------------------------
(* For TLC: files and reads with rows that are blank, short or too long, names  *)
(* that come twice, a workbook of two worksheets with a portable table in it,    *)
(* JSON of every layout, and damaged files; then files of a time series of one   *)
(* key and one value, and frames to stage, with texts that read as numbers,      *)
(* instants without a zone, columns that hold nothing, fields in another order,  *)
(* and files that are damaged; then configuration files, the descriptors         *)
(* installed beside them, and what a client and the commands are asked for.      *)
EXTENDS FileTables

Blank0 == [kind |-> None, size |-> 1, rows |-> <<>>, items |-> <<>>, schema |-> None, sheets |-> <<>>,
           active |-> 1, metas |-> {}, broken |-> FALSE]

Csv(rows) == [Blank0 EXCEPT !.kind = "csv", !.rows = rows]
Md(rows) == [Blank0 EXCEPT !.kind = "md", !.rows = rows]
Json(kind, items, schema) == [Blank0 EXCEPT !.kind = kind, !.items = items, !.schema = schema]

Csvs ==
  {Csv(<<<<"a", "b">>, <<"1", "">>, <<>>, <<"3", "4">>>>),
   Csv(<<<<"a", "b">>, <<"1">>, <<"2", "3">>>>),
   Csv(<<<<"a", "b">>, <<"1", "2">>, <<"3", "4", "5">>>>),
   Csv(<<<<"a", "a_duplicated_0", "a">>, <<"1", "2", "3">>>>),
   Csv(<<<<"a">>, <<"1">>, <<"2">>>>),
   [Csv(<<<<"a", "b">>, <<"1", "2">>>>) EXCEPT !.size = 2],
   Csv(<<<<>>, <<"a", "b">>, <<"1", "2">>>>)}

Rule == <<"---", "---">>
Mds ==
  {Md(<<<<"a", "b">>, Rule, <<"1", "">>, <<"3", "4">>>>),
   Md(<<<<"a", "a">>, Rule, <<"1", "2">>>>),
   Md(<<<<"a", "b">>, Rule, <<"1">>>>)}

Cell1(text) == Cell("text", text)
SheetOf(title, rows) == [title |-> title, rows |-> rows]
Portable1 == <<<<Cell1("k"), Cell1("n")>>, <<Cell1("x"), Cell1("7")>>, <<Null, Cell1("7")>>>>
Meta == [id |-> "t1", sheet |-> "T", schema |-> <<[name |-> "k", type |-> "text"], [name |-> "n", type |-> "int"]>>,
         rows |-> 2]
Book(sheets, metas) == [Blank0 EXCEPT !.kind = "xlsx", !.sheets = sheets, !.metas = metas]
Loose == SheetOf("S", <<<<Cell1("a"), Cell1("b")>>, <<Cell("int", "1"), Cell("bool", "True")>>, <<Null, Null>>,
                        <<Cell1("3"), Null, Null>>>>)

Books ==
  {Book(<<Loose, SheetOf("T", Portable1)>>, {Meta}),
   \* a row was added, a row was removed, a cell is no text
   Book(<<Loose, SheetOf("T", Append(Portable1, <<Cell1("y"), Cell1("7")>>))>>, {Meta}),
   Book(<<Loose, SheetOf("T", SubSeq(Portable1, 1, 2))>>, {Meta}),
   Book(<<Loose, SheetOf("T", <<Portable1[1], <<Cell1("x"), Cell("int", "7")>>, <<Null, Cell1("7")>>>>)>>, {Meta}),
   Book(<<SheetOf("S", <<<<Cell1("a")>>, <<Cell1("1"), Cell1("2")>>>>)>>, {Meta})}

Item(a, b) == <<Pair("a", a), Pair("b", b)>>
Of1(a) == <<Pair("a", a)>>
Declared == <<[name |-> "a", type |-> "text", nullable |-> TRUE]>>

Jsons ==
  {Json("json", <<Item(Cell("int", "1"), Null), Of1(Cell("int", "2"))>>, None),
   Json("jsonl", <<Of1(Cell("int", "1")), Item(Cell("int", "2"), Cell1("x"))>>, None),
   Json("json", <<Of1(Cell("int", "1")), Of1(Cell1("x"))>>, None),
   Json("json", <<Of1(Cell1("7")), Of1(Null)>>, Declared),
   Json("jsonl", <<Of1(Cell1("7"))>>, Declared),
   [Json("json", <<Of1(Cell("int", "1"))>>, None) EXCEPT !.size = 2],
   [Json("jsonl", <<>>, None) EXCEPT !.broken = TRUE]}

Documents == Csvs \union Mds \union Books \union Jsons

Ask == [entry |-> "facade", what |-> "read", sdk |-> None, form |-> "plain", sheet |-> None, option |-> None,
        header |-> 1, maxRows |-> None, maxBytes |-> None, timed |-> FALSE, rows |-> 2, id |-> None]
Of(entry) == [Ask EXCEPT !.entry = entry]

Reads ==
  {Ask, [Ask EXCEPT !.what = "polars"], [Ask EXCEPT !.what = "inspect"], [Ask EXCEPT !.what = "resolve"],
   [Ask EXCEPT !.maxRows = 1], [Ask EXCEPT !.maxBytes = 1], [Ask EXCEPT !.form = "query"],
   [Ask EXCEPT !.form = "symlink"], [Ask EXCEPT !.form = "fragment"], [Ask EXCEPT !.sheet = "T"],
   [Ask EXCEPT !.sheet = "S", !.option = "T"], [Ask EXCEPT !.header = 2, !.maxRows = 1],
   [Of("csv") EXCEPT !.maxRows = 1], [Of("csv") EXCEPT !.form = "fragment"], Of("excel"), Of("md"),
   [Of("md") EXCEPT !.maxRows = 1], [Of("excel") EXCEPT !.sheet = "S", !.option = "T"],
   [Of("excel") EXCEPT !.what = "resolve"], [Of("json") EXCEPT !.maxBytes = 1],
   [Of("json") EXCEPT !.maxRows = 1, !.timed = TRUE], [Of("jsonl") EXCEPT !.what = "inspect"],
   [Of("jsonl") EXCEPT !.what = "resolve"],
   Of("bounded"), [Of("bounded") EXCEPT !.maxRows = 1], [Of("bounded") EXCEPT !.maxBytes = 1],
   [Ask EXCEPT !.sdk = "open"], [Ask EXCEPT !.sdk = "open", !.sheet = "T"],
   [Ask EXCEPT !.sdk = "open", !.sheet = "S"], [Ask EXCEPT !.sdk = "open", !.id = "t1"],
   [Ask EXCEPT !.sdk = "read", !.maxRows = 1], [Ask EXCEPT !.sdk = "inspect"]}

NameSuffixes == {"csv", "json", "jsonl", "txt"}

-----------------------------------------------------------------------------
(* Time series *)

FieldNames == <<"t", "k", "v">>

TimeText(text) == Cell("text", text)
PointOf(t, k, v) == [t |-> t, k |-> k, v |-> v]
Seven == Cell("int", "7")

Series(rows) == [columns |-> FieldNames, rows |-> rows, schema |-> <<>>, fault |-> None, size |-> 2]

TwoPoints(k) == <<PointOf(TimeText("@1"), k, Seven), PointOf(TimeText("@2"), Cell("text", "x"), Null)>>

CommonSeries ==
  {Series(TwoPoints(Cell("text", "x"))),
   Series(<<PointOf(TimeText("@1"), Cell("text", "7"), Seven)>>),
   [Series(TwoPoints(Cell("text", "x"))) EXCEPT !.size = 3],
   [Series(TwoPoints(Cell("text", "x"))) EXCEPT !.columns = <<"k", "t", "v">>],
   [Series(TwoPoints(Cell("text", "x"))) EXCEPT !.fault = "malformed"],
   [Series(<<PointOf(TimeText("@1"), Null, Seven)>>) EXCEPT !.columns = <<"t", "v">>],
   Series(<<PointOf(TimeText("~1"), Cell("text", "x"), Seven)>>)}

TypedSeries ==
  {Series(<<PointOf(TimeText("@1"), Cell("nested", "x"), Seven)>>),
   Series(<<PointOf(TimeText("@1"), Cell("text", "x"), Seven), PointOf(TimeText("@2"), Seven, Seven)>>)}

\* a workbook that says its schema, with an empty row
SeriesSchema == [t |-> "time", k |-> "text", v |-> "int"]
SaidSeries == [Series(TwoPoints(Cell("text", "7")) \o <<PointOf(Null, Null, Null)>>) EXCEPT !.schema = SeriesSchema]

SeriesFiles ==
  [csv |-> CommonSeries,
   json |-> CommonSeries \union TypedSeries \union {Series(<<>>)},
   xlsx |-> CommonSeries \union TypedSeries \union
             {SaidSeries, [SaidSeries EXCEPT !.fault = "formula"], [SaidSeries EXCEPT !.schema = [SeriesSchema EXCEPT !.v = "text"]]}]

Instant(text) == Cell("time", text)
FrameOf(rows) == [columns |-> FieldNames, types |-> SeriesSchema, rows |-> rows]

PointRows(k) == <<PointOf(Instant("@1"), k, Seven), PointOf(Instant("@2"), Cell("text", "x"), Null)>>

PlainFrames ==
  {FrameOf(PointRows(Cell("text", "x"))), FrameOf(PointRows(Null)),
   FrameOf(<<PointOf(Instant("@1"), Cell("text", "7"), Seven)>>),
   FrameOf(PointRows(Cell("text", "7"))), FrameOf(<<PointOf(Null, Cell("text", "x"), Seven)>>),
   FrameOf(<<>>)}

Frames ==
  [csv |-> PlainFrames,
   json |-> PlainFrames,
   xlsx |-> PlainFrames \union {[FrameOf(<<PointOf(Instant("@1"), Cell("nested", "x"), Seven)>>) EXCEPT !.types.k = "nested"]}]

-----------------------------------------------------------------------------
(* Configurations, descriptors, endpoints and commands *)

Described(id, schemes, hosts) ==
  [id |-> id, schemes |-> schemes, hosts |-> hosts, paths |-> FALSE, local |-> FALSE,
   can |-> {"table.write"}, makes |-> "adapter", closes |-> TRUE, valid |-> TRUE]
OnFiles == [Described("files", <<"file", "csv">>, <<>>) EXCEPT !.paths = TRUE, !.local = TRUE, !.can = {}]
OnGoogle == Described("google", <<"google", "https">>, <<"docs">>)
OnFeishu == Described("feishu", <<"https">>, <<"feishu">>)
Installed == <<OnFeishu, OnFiles, OnGoogle>>

Entry(id, enabled, key, env) == [id |-> id, enabled |-> enabled, key |-> key, env |-> env]
Config(kind, providers, credentials) == [kind |-> kind, providers |-> providers, credentials |-> credentials]
NoFile == Config("absent", <<>>, <<>>)
EmptyFile == Config("empty", <<>>, <<>>)
OwnKey == [work |-> {"G_WORK"}]
Keyed == Config("document", <<Entry("google", TRUE, "work", {})>>, OwnKey)
Disabled == Config("document", <<Entry("google", FALSE, None, {})>>, <<>>)
Regional == Config("document", <<Entry("feishu", TRUE, None, {"REGION"}), Entry("google", TRUE, None, {})>>, OwnKey)
Twice == Config("document", <<Entry("google", FALSE, None, {}), Entry("google", TRUE, "gone", {})>>, <<>>)

Replacing == {NoFile, EmptyFile, Disabled}

Places(explicit, variable, xdg, home) == [explicit |-> explicit, variable |-> variable, xdg |-> xdg, home |-> home]
Host(host, explicit, environ, installed, files, overrides) ==
  [host |-> host, explicit |-> explicit, environ |-> environ, installed |-> installed, files |-> files,
   overrides |-> overrides,
   defaults |-> [google |-> [reference |-> "default-google", variable |-> "G_TOKEN"],
                 feishu |-> [reference |-> "default-feishu", variable |-> "F_TOKEN"]]]

AllSet == {"G_WORK", "G_TOKEN", "F_TOKEN", "REGION"}

Setups ==
  {Host(h, FALSE, env, Installed, Places(NoFile, NoFile, NoFile, home), <<>>) :
     h \in {"cli", "sdk"}, env \in {AllSet, {"G_TOKEN"}}, home \in {NoFile, Keyed, Regional, Twice, Disabled}}
  \union
  {Host(h, e, AllSet \union {"OTC_CONFIG", "XDG"}, Installed, Places(Regional, v, Keyed, Disabled), o) :
     h \in {"cli", "sdk"}, e \in BOOLEAN, v \in {EmptyFile, [EmptyFile EXCEPT !.kind = "bad"], Keyed},
     o \in {<<>>, [google |-> "work"]}}
  \union
  \* descriptors that come twice, are none, make nothing, or claim what another claims
  {Host(h, FALSE, {"XDG"}, i, Places(NoFile, NoFile, Keyed, NoFile), <<>>) :
     h \in {"cli", "sdk"},
     i \in {<<OnFeishu, OnFeishu>>, <<OnFeishu, [OnGoogle EXCEPT !.valid = FALSE]>>,
            <<[OnFeishu EXCEPT !.makes = "connector"], [OnGoogle EXCEPT !.makes = "nothing"]>>,
            <<[OnFeishu EXCEPT !.hosts = <<"docs">>], OnGoogle>>,
            <<OnFiles, [OnGoogle EXCEPT !.paths = TRUE]>>,
            <<OnFiles, [OnGoogle EXCEPT !.closes = FALSE]>>}}

Extra(host, form, desc) == [host |-> host, form |-> form, desc |-> desc]
Mine == Described("mine", <<"https">>, <<>>)

Extras ==
  {Extra("cli", form, d) :
     form \in {"adapter", "descriptor"},
     d \in {Mine, [Mine EXCEPT !.schemes = <<"mine">>, !.paths = TRUE], [OnGoogle EXCEPT !.schemes = <<"google2">>]}}
  \union
  {Extra("sdk", "connector", d) :
     d \in {Mine, [Mine EXCEPT !.schemes = <<"mine", "file">>], [OnGoogle EXCEPT !.schemes = <<"google2", "https">>]}}

At(scheme, host) == [path |-> FALSE, stdio |-> FALSE, scheme |-> scheme, host |-> host]
APath == [At("file", None) EXCEPT !.path = TRUE]

Targets ==
  {APath, At("https", "docs"), At("https", "feishu"), At("https", "other"), At("google", None), At("mine", None)}

Command(kind, from, to) == [kind |-> kind, from |-> from, to |-> to, format |-> FALSE]

Commands ==
  {Command("read", t, APath) :
     t \in {[APath EXCEPT !.stdio = TRUE], At("https", "docs"), At("https", "other"), At("https", "feishu")}}
  \union {[Command("read", t, APath) EXCEPT !.format = TRUE] : t \in {APath, At("google", None)}}
  \union {Command("inspect", t, APath) : t \in {At("google", None), At("ftp", None)}}
  \union {Command("convert", At("https", "docs"), t) : t \in {APath, At("csv", None), At("google", None)}}
  \union {Command("import", At("https", "feishu"), t) : t \in {At("google", None), At("csv", None), At("https", "feishu")}}
  \union {Command("import", APath, At("https", "docs"))}
=============================================================================
