--------------------------- MODULE MCUpdatePydoc ---------------------------
(* A small Doxygen output: two new-style blocks, an old-style one with its *)
(* header, a header and a namespace that share a function, and compounds   *)
(* of the kinds that are not read or not known.                            *)
EXTENDS UpdatePydoc

Element(tag, kids) == [tag |-> tag, attrs |-> [id |-> tag], kids |-> kids]
OfKind(tag, kind, kids) == [tag |-> tag, attrs |-> [kind |-> kind], kids |-> kids]
Words(text) == [tag |-> "#text", text |-> text]
Said(tag, text) == Element(tag, <<Words(text)>>)

Brief(text) == Element("briefdescription", <<Said("para", text)>>)
Detailed(kids) == Element("detaileddescription", <<Element("para", kids)>>)
ParamDoc(name, text) ==
  OfKind("parameterlist", "param",
    <<Element("parameteritem",
        <<Element("parameternamelist", <<Said("parametername", <<name>>)>>),
          Element("parameterdescription", <<Said("para", text)>>)>>)>>)

Member(kind, name, definition, kids) ==
  OfKind("memberdef", kind, <<Said("name", name),
                              Said("definition", definition)>> \o kids)
Function(name, definition, brief) ==
  Member("function", name, definition, <<Brief(brief), Detailed(<<>>)>>)
Compound(members_, brief, detailed) ==
  Element("doxygen",
    <<Element("compounddef", <<OfKind("sectiondef", "public", members_),
                               Brief(brief), Detailed(detailed)>>)>>)

One(bits) == <<bits>>
Ns == <<<<"gr">>, <<"ieee802", "11ah">>>>
MapperName == Append(Ns, <<"mapper">>)
MapperSetName == Append(Ns, <<"mapper", "set">>)
QamName == Append(Ns, <<"constellation", "16qam">>)
SquareName == One(<<"howto", "square">>)
MakeSquare == One(<<"howto", "make", "square">>)
Sptr == Member("typedef", One(<<"sptr">>), <<One(<<"sptr">>)>>,
               <<Brief(<<>>), Detailed(<<>>)>>)
MakeOf(class, brief, kids) ==
  Member("function", Make, <<One(<<"sptr">>), class \o Make>>,
         <<Brief(brief), Detailed(kids)>>)

Mapper ==
  Compound(<<Sptr,
             Function(One(<<"set", "encoding">>),
                      <<MapperName \o One(<<"set", "encoding">>)>>, <<"sets">>),
             Function(One(<<"set", "encoding">>),
                      <<MapperName \o One(<<"set", "encoding">>)>>, <<"resets">>),
             Function(One(<<"points">>), <<MapperName \o One(<<"points">>)>>,
                      <<"8PSK", "points">>),
             Function(One(<<"operator ">>), <<One(<<"bool">>)>>, <<"converts">>),
             MakeOf(MapperName, <<"creates">>,
                    <<ParamDoc("encoding", <<"the", "rate">>)>>)>>,
           <<"maps">>,
           <<Words(<<"bits">>), Said("bold", <<"quickly">>),
             Said("ref", <<"symbols">>), Words(<<"(frames)">>)>>)

\* Its only method has the placeholder of mapper's set_encoding.
MapperSet ==
  Compound(<<Function(One(<<"encoding">>),
                      <<MapperSetName \o One(<<"encoding">>)>>, <<"(chosen)">>)>>,
           <<"helps">>, <<>>)

Qam == Compound(<<Sptr, MakeOf(QamName, <<"points">>, <<>>)>>, <<"16QAM">>, <<>>)

Square ==
  Compound(<<Member("friend", MakeSquare, <<MakeSquare>>,
                    <<Brief(<<>>), Detailed(<<>>)>>),
             Function(One(<<"level">>), <<SquareName \o One(<<"level">>)>>,
                      <<"level">>)>>,
           <<"squares">>, <<ParamDoc("gain", <<"of", "it">>)>>)
SquareH ==
  Compound(<<Function(MakeSquare, <<One(<<"sptr">>), MakeSquare>>, <<"builds">>),
             Function(One(<<"version">>), <<One(<<"version">>)>>, <<"number">>)>>,
           <<"header">>, <<>>)
CopyH ==
  Compound(<<Function(One(<<"copied">>), <<One(<<"copied">>)>>, <<"again">>)>>,
           <<"copy">>, <<>>)

InterleaveDoc(brief) ==
  Function(One(<<"interleave">>), <<One(<<"void">>), Ns \o One(<<"interleave">>)>>,
           brief)
UtilsH == Compound(<<InterleaveDoc(<<"permutes">>)>>, <<"helpers">>, <<>>)
Namespace ==
  Compound(<<InterleaveDoc(<<"permutes", "bits">>),
             Function(MakeSquare, <<Ns \o MakeSquare>>, <<"another">>)>>,
           <<>>, <<>>)
Empty == Compound(<<>>, <<>>, <<>>)

File(name) == <<Append(name, ".h")>>
Entry(kind, name) == [kind |-> kind, name |-> name]

MCCompounds ==
  [mapper |-> Entry("class", MapperName),
   mapperset |-> Entry("class", MapperSetName),
   qam |-> Entry("class", QamName),
   square |-> Entry("class", SquareName),
   ns |-> Entry("namespace", Ns),
   squareh |-> Entry("file", File(<<"howto", "square">>)),
   copyh |-> Entry("file", File(<<"howto", "square">>)),
   utilsh |-> Entry("file", File(<<"utils">>)),
   maindox |-> Entry("file", One(<<"main", "page.dox">>)),
   group |-> Entry("group", One(<<"block">>)),
   example |-> Entry("example", One(<<"demo">>))]

MCXml ==
  [mapper |-> Mapper, mapperset |-> MapperSet, qam |-> Qam, square |-> Square,
   ns |-> Namespace, squareh |-> SquareH, copyh |-> CopyH, utilsh |-> UtilsH,
   maindox |-> Empty, group |-> Empty]

\* Doxygen's order: classes, namespaces, files, groups, the rest.
InOrder == <<"mapper", "mapperset", "qam", "square", "ns", "squareh", "copyh",
             "utilsh", "maindox", "group", "example">>
MCIndexes ==
  {SelectSeq(InOrder, LAMBDA refid : refid \in chosen) :
     chosen \in {s \in SUBSET ToSet(InOrder) : Cardinality(s) \in 1..4}}

MCTemplates ==
  (<<"mapper">> :> {DocKey(MapperName), DocKey(MapperName \o Make),
                    DocKey(MapperName \o One(<<"points">>)),
                    DocKey(MapperName \o One(<<"set", "encoding">>))})
  @@ (<<"constellation">> :> {DocKey(QamName), DocKey(QamName \o Make)})

ASSUME SchemaAssumption == Schema!SchemaClosed
=============================================================================
