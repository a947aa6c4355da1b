---------------------------- MODULE DoxySchema ----------------------------
(***************************************************************************)
(* The classes generateDS.py wrote for Doxygen's XML                       *)
(* (docs/doxygen/doxyxml/generated): which attributes and child elements   *)
(* each class keeps, and how build() turns an element into an object.      *)
(*                                                                         *)
(* An element is [tag, attrs, kids], a text node [tag |-> "#text", text],  *)
(* with a sequence of words as its text.  Elements obey Doxygen's schema:  *)
(* an element read as a string holds text only, and integer attributes     *)
(* hold integers (the code raises TypeError and ValueError otherwise).     *)
(* The export methods, which nothing calls, are not modelled.              *)
(***************************************************************************)
EXTENDS Sequences, SequencesExt

(* The shapes a class takes: single fields (the last element wins) and     *)
(* lists; content in document order; text alone; and a value nobody reads. *)
NoFields == <<>>
Plain(attrs, one, many) ==
  [attrs |-> attrs, one |-> one, many |-> many, mixed |-> FALSE]
Mixed(attrs, content) ==
  [attrs |-> attrs, one |-> content, many |-> NoFields, mixed |-> TRUE]
Text(attrs) == Mixed(attrs, NoFields)
Value(attrs) == Plain(attrs, NoFields, NoFields)

(* compoundsuper.py and indexsuper.py, one definition per class: build,    *)
(* buildAttributes and buildChildren.                                      *)
DoxygenType == Plain({"version"},
  [compounddef |-> "compounddefType"], NoFields)
compounddefType == Plain({"kind", "prot", "id"},
  [compoundname |-> "string", title |-> "docTitleType",
   incdepgraph |-> "graphType", invincdepgraph |-> "graphType",
   templateparamlist |-> "templateparamlistType",
   briefdescription |-> "descriptionType",
   detaileddescription |-> "descriptionType",
   inheritancegraph |-> "graphType", collaborationgraph |-> "graphType",
   programlisting |-> "listingType", location |-> "locationType",
   listofallmembers |-> "listofallmembersType"],
  [basecompoundref |-> "compoundRefType",
   derivedcompoundref |-> "compoundRefType", includes |-> "incType",
   includedby |-> "incType", innerdir |-> "refType", innerfile |-> "refType",
   innerclass |-> "refType", innernamespace |-> "refType",
   innerpage |-> "refType", innergroup |-> "refType",
   sectiondef |-> "sectiondefType"])
listofallmembersType == Plain({}, NoFields, [member |-> "memberRefType"])
memberRefType == Plain({"virt", "prot", "refid", "ambiguityscope"},
  [scope |-> "string", name |-> "string"],
  NoFields)
scope == Value({})
name == Value({})
compoundRefType == Text({"virt", "prot", "refid"})
reimplementType == Text({"refid"})
incType == Text({"local", "refid"})
refType == Text({"prot", "refid"})
refTextType == Text({"refid", "kindref", "external"})
sectiondefType == Plain({"kind"},
  [header |-> "string", description |-> "descriptionType"],
  [memberdef |-> "memberdefType"])
memberdefType == Plain({"initonly", "kind", "volatile", "const", "raise",
                        "virt", "readable", "prot", "explicit", "new",
                        "final", "writable", "add", "static", "remove",
                        "sealed", "mutable", "gettable", "inline", "settable",
                        "id"},
  [templateparamlist |-> "templateparamlistType", type |-> "linkedTextType",
   definition |-> "string", argsstring |-> "string", name |-> "string",
   read |-> "string", write |-> "string", bitfield |-> "string",
   initializer |-> "linkedTextType", exceptions |-> "linkedTextType",
   briefdescription |-> "descriptionType",
   detaileddescription |-> "descriptionType",
   inbodydescription |-> "descriptionType", location |-> "locationType"],
  [reimplements |-> "reimplementType", reimplementedby |-> "reimplementType",
   param |-> "paramType", enumvalue |-> "enumvalueType",
   references |-> "referenceType", referencedby |-> "referenceType"])
definition == Value({})
argsstring == Value({})
read == Value({})
write == Value({})
bitfield == Value({})
descriptionType == Mixed({},
  [title |-> "docTitleType", para |-> "docParaType", sect1 |-> "docSect1Type",
   internal |-> "docInternalType"])
enumvalueType == Mixed({"prot", "id"},
  [name |-> "string", initializer |-> "linkedTextType",
   briefdescription |-> "descriptionType",
   detaileddescription |-> "descriptionType"])
templateparamlistType == Plain({}, NoFields, [param |-> "paramType"])
paramType == Plain({},
  [type |-> "linkedTextType", declname |-> "string", defname |-> "string",
   array |-> "string", defval |-> "linkedTextType",
   briefdescription |-> "descriptionType"],
  NoFields)
declname == Value({})
defname == Value({})
array == Value({})
linkedTextType == Mixed({}, [ref |-> "docRefTextType"])
graphType == Plain({}, NoFields, [node |-> "nodeType"])
nodeType == Plain({"id"},
  [label |-> "string", link |-> "linkType"],
  [childnode |-> "childnodeType"])
label == Value({})
childnodeType == Plain({"relation", "refid"},
  NoFields, [edgelabel |-> "string"])
edgelabel == Value({})
linkType == Value({"refid", "external"})
listingType == Plain({}, NoFields, [codeline |-> "codelineType"])
codelineType == Plain({"external", "lineno", "refkind", "refid"},
  NoFields,
  [highlight |-> "highlightType"])
highlightType == Mixed({"class"},
  [sp |-> "string", ref |-> "docRefTextType"])
sp == Value({})
referenceType == Text({"endline", "startline", "refid", "compoundref"})
locationType == Value({"bodystart", "line", "bodyend", "bodyfile", "file"})
docSect1Type == Mixed({"id"},
  [title |-> "docTitleType", para |-> "docParaType", sect2 |-> "docSect2Type",
   internal |-> "docInternalS1Type"])
docSect2Type == Mixed({"id"},
  [title |-> "docTitleType", para |-> "docParaType", sect3 |-> "docSect3Type",
   internal |-> "docInternalS2Type"])
docSect3Type == Mixed({"id"},
  [title |-> "docTitleType", para |-> "docParaType", sect4 |-> "docSect4Type",
   internal |-> "docInternalS3Type"])
docSect4Type == Mixed({"id"},
  [title |-> "docTitleType", para |-> "docParaType",
   internal |-> "docInternalS4Type"])
docInternalType == Mixed({},
  [para |-> "docParaType", sect1 |-> "docSect1Type"])
docInternalS1Type == Mixed({},
  [para |-> "docParaType", sect2 |-> "docSect2Type"])
docInternalS2Type == Mixed({},
  [para |-> "docParaType", sect3 |-> "docSect3Type"])
docInternalS3Type == Mixed({},
  [para |-> "docParaType", sect3 |-> "docSect4Type"])
docInternalS4Type == Mixed({}, [para |-> "docParaType"])
docTitleType == Text({})
docParaType == Text({})
docMarkupType == Text({})
docURLLink == Text({"url"})
docAnchorType == Text({"id"})
docFormulaType == Text({"id"})
docIndexEntryType == Plain({},
  [primaryie |-> "string", secondaryie |-> "string"],
  NoFields)
docListType == Plain({}, NoFields, [listitem |-> "docListItemType"])
docListItemType == Plain({}, NoFields, [para |-> "docParaType"])
docSimpleSectType == Plain({"kind"},
  [title |-> "docTitleType"],
  [para |-> "docParaType"])
docVarListEntryType == Plain({}, [term |-> "docTitleType"], NoFields)
docVariableListType == Value({})
docRefTextType == Text({"refid", "kindref", "external"})
docTableType == Plain({"rows", "cols"},
  [caption |-> "docCaptionType"],
  [row |-> "docRowType"])
docRowType == Plain({}, NoFields, [entry |-> "docEntryType"])
docEntryType == Plain({"thead"}, NoFields, [para |-> "docParaType"])
docCaptionType == Text({})
docHeadingType == Text({"level"})
docImageType == Text({"width", "type", "name", "height"})
docDotFileType == Text({"name"})
docTocItemType == Text({"id"})
docTocListType == Plain({}, NoFields, [tocitem |-> "docTocItemType"])
docLanguageType == Plain({"langid"}, NoFields, [para |-> "docParaType"])
docParamListType == Plain({"kind"},
  NoFields,
  [parameteritem |-> "docParamListItem"])
docParamListItem == Plain({},
  [parameterdescription |-> "descriptionType"],
  [parameternamelist |-> "docParamNameList"])
docParamNameList == Plain({}, NoFields, [parametername |-> "docParamName"])
docParamName == Mixed({"direction"}, [ref |-> "docRefTextType"])
docXRefSectType == Plain({"id"},
  [xrefdescription |-> "descriptionType"],
  [xreftitle |-> "string"])
docCopyType == Plain({"link"},
  [internal |-> "docInternalType"],
  [para |-> "docParaType", sect1 |-> "docSect1Type"])
docCharType == Value({"char"})
docEmptyType == Value({})
index_DoxygenType == Plain({"version"},
  NoFields, [compound |-> "CompoundType"])
CompoundType == Plain({"kind", "refid"},
  [name |-> "string"],
  [member |-> "MemberType"])
MemberType == Plain({"kind", "refid"}, [name |-> "string"], NoFields)

Types == [DoxygenType |-> DoxygenType, compounddefType |-> compounddefType,
          listofallmembersType |-> listofallmembersType,
          memberRefType |-> memberRefType, scope |-> scope, name |-> name,
          compoundRefType |-> compoundRefType,
          reimplementType |-> reimplementType, incType |-> incType,
          refType |-> refType, refTextType |-> refTextType,
          sectiondefType |-> sectiondefType, memberdefType |-> memberdefType,
          definition |-> definition, argsstring |-> argsstring, read |-> read,
          write |-> write, bitfield |-> bitfield,
          descriptionType |-> descriptionType,
          enumvalueType |-> enumvalueType,
          templateparamlistType |-> templateparamlistType,
          paramType |-> paramType, declname |-> declname, defname |-> defname,
          array |-> array, linkedTextType |-> linkedTextType,
          graphType |-> graphType, nodeType |-> nodeType, label |-> label,
          childnodeType |-> childnodeType, edgelabel |-> edgelabel,
          linkType |-> linkType, listingType |-> listingType,
          codelineType |-> codelineType, highlightType |-> highlightType,
          sp |-> sp, referenceType |-> referenceType,
          locationType |-> locationType, docSect1Type |-> docSect1Type,
          docSect2Type |-> docSect2Type, docSect3Type |-> docSect3Type,
          docSect4Type |-> docSect4Type, docInternalType |-> docInternalType,
          docInternalS1Type |-> docInternalS1Type,
          docInternalS2Type |-> docInternalS2Type,
          docInternalS3Type |-> docInternalS3Type,
          docInternalS4Type |-> docInternalS4Type,
          docTitleType |-> docTitleType, docParaType |-> docParaType,
          docMarkupType |-> docMarkupType, docURLLink |-> docURLLink,
          docAnchorType |-> docAnchorType, docFormulaType |-> docFormulaType,
          docIndexEntryType |-> docIndexEntryType,
          docListType |-> docListType, docListItemType |-> docListItemType,
          docSimpleSectType |-> docSimpleSectType,
          docVarListEntryType |-> docVarListEntryType,
          docVariableListType |-> docVariableListType,
          docRefTextType |-> docRefTextType, docTableType |-> docTableType,
          docRowType |-> docRowType, docEntryType |-> docEntryType,
          docCaptionType |-> docCaptionType,
          docHeadingType |-> docHeadingType, docImageType |-> docImageType,
          docDotFileType |-> docDotFileType,
          docTocItemType |-> docTocItemType,
          docTocListType |-> docTocListType,
          docLanguageType |-> docLanguageType,
          docParamListType |-> docParamListType,
          docParamListItem |-> docParamListItem,
          docParamNameList |-> docParamNameList,
          docParamName |-> docParamName, docXRefSectType |-> docXRefSectType,
          docCopyType |-> docCopyType, docCharType |-> docCharType,
          docEmptyType |-> docEmptyType,
          index_DoxygenType |-> index_DoxygenType,
          CompoundType |-> CompoundType, MemberType |-> MemberType]

(* The fields the constructors give a fresh object: None, '' and [].       *)
NoObject == [class |-> "None"]
Fields(objects, strings, lists) ==
  [f \in objects \cup strings \cup lists |->
     IF f \in objects THEN NoObject ELSE <<>>]

DoxygenType_fields == Fields({"compounddef"}, {}, {})
compounddefType_fields == Fields(
  {"incdepgraph", "invincdepgraph", "templateparamlist", "briefdescription",
   "detaileddescription", "inheritancegraph", "collaborationgraph",
   "programlisting", "location", "listofallmembers"},
  {"compoundname", "title"},
  {"basecompoundref", "derivedcompoundref", "includes", "includedby",
   "innerdir", "innerfile", "innerclass", "innernamespace", "innerpage",
   "innergroup", "sectiondef"})
listofallmembersType_fields == Fields({}, {}, {"member"})
memberRefType_fields == Fields({}, {"scope", "name"}, {})
sectiondefType_fields == Fields({"description"}, {"header"}, {"memberdef"})
memberdefType_fields == Fields(
  {"templateparamlist", "type", "initializer", "exceptions",
   "briefdescription", "detaileddescription", "inbodydescription",
   "location"},
  {"definition", "argsstring", "name", "read", "write", "bitfield"},
  {"reimplements", "reimplementedby", "param", "enumvalue", "references",
   "referencedby"})
templateparamlistType_fields == Fields({}, {}, {"param"})
paramType_fields == Fields(
  {"type", "defval", "briefdescription"},
  {"declname", "defname", "array"},
  {})
graphType_fields == Fields({}, {}, {"node"})
nodeType_fields == Fields({"link"}, {"label"}, {"childnode"})
childnodeType_fields == Fields({}, {}, {"edgelabel"})
listingType_fields == Fields({}, {}, {"codeline"})
codelineType_fields == Fields({}, {}, {"highlight"})
docIndexEntryType_fields == Fields({}, {"primaryie", "secondaryie"}, {})
docListType_fields == Fields({}, {}, {"listitem"})
docListItemType_fields == Fields({}, {}, {"para"})
docSimpleSectType_fields == Fields({"title"}, {}, {"para"})
docVarListEntryType_fields == Fields({"term"}, {}, {})
docTableType_fields == Fields({"caption"}, {}, {"row"})
docRowType_fields == Fields({}, {}, {"entry"})
docEntryType_fields == Fields({}, {}, {"para"})
docTocListType_fields == Fields({}, {}, {"tocitem"})
docLanguageType_fields == Fields({}, {}, {"para"})
docParamListType_fields == Fields({}, {}, {"parameteritem"})
docParamListItem_fields == Fields(
  {"parameterdescription"},
  {},
  {"parameternamelist"})
docParamNameList_fields == Fields({}, {}, {"parametername"})
docXRefSectType_fields == Fields({"xrefdescription"}, {}, {"xreftitle"})
docCopyType_fields == Fields({"internal"}, {}, {"para", "sect1"})
index_DoxygenType_fields == Fields({}, {}, {"compound"})
CompoundType_fields == Fields({}, {"name"}, {"member"})
MemberType_fields == Fields({}, {"name"}, {})

New == [DoxygenType |-> DoxygenType_fields,
        compounddefType |-> compounddefType_fields,
        listofallmembersType |-> listofallmembersType_fields,
        memberRefType |-> memberRefType_fields,
        sectiondefType |-> sectiondefType_fields,
        memberdefType |-> memberdefType_fields,
        templateparamlistType |-> templateparamlistType_fields,
        paramType |-> paramType_fields, graphType |-> graphType_fields,
        nodeType |-> nodeType_fields, childnodeType |-> childnodeType_fields,
        listingType |-> listingType_fields,
        codelineType |-> codelineType_fields,
        docIndexEntryType |-> docIndexEntryType_fields,
        docListType |-> docListType_fields,
        docListItemType |-> docListItemType_fields,
        docSimpleSectType |-> docSimpleSectType_fields,
        docVarListEntryType |-> docVarListEntryType_fields,
        docTableType |-> docTableType_fields,
        docRowType |-> docRowType_fields,
        docEntryType |-> docEntryType_fields,
        docTocListType |-> docTocListType_fields,
        docLanguageType |-> docLanguageType_fields,
        docParamListType |-> docParamListType_fields,
        docParamListItem |-> docParamListItem_fields,
        docParamNameList |-> docParamNameList_fields,
        docXRefSectType |-> docXRefSectType_fields,
        docCopyType |-> docCopyType_fields,
        index_DoxygenType |-> index_DoxygenType_fields,
        CompoundType |-> CompoundType_fields,
        MemberType |-> MemberType_fields]

-----------------------------------------------------------------------------
IsText(node) == node.tag = "#text"

(* The text of an element that is read as a string. *)
Characters(node) == FlattenSeq([i \in DOMAIN node.kids |-> node.kids[i].text])

Kids(node, tags) == SelectSeq(node.kids, LAMBDA kid : kid.tag \in tags)

(* One piece of mixed content: its name is '' for text. *)
MixedContainer(name_, isText, value) ==
  [name |-> name_, isText |-> isText, value |-> value]

RECURSIVE Build(_, _)
BuildAs(kind, node) ==
  IF kind = "string" THEN Characters(node) ELSE Build(kind, node)
BuildAll(kind, nodes) == [i \in DOMAIN nodes |-> BuildAs(kind, nodes[i])]

(* The text of an element and the children it keeps, in document order. *)
ContentOf(kinds, node) ==
  LET kids == Kids(node, DOMAIN kinds \cup {"#text"})
  IN  [i \in DOMAIN kids |->
         IF IsText(kids[i]) THEN MixedContainer("", TRUE, kids[i].text)
         ELSE LET kind == kinds[kids[i].tag]
              IN  MixedContainer(kids[i].tag, kind = "string",
                                 BuildAs(kind, kids[i]))]

(* A paragraph keeps its text and its references as content, its parameter *)
(* lists and its simple sections; every other element in it is dropped.    *)
docParaTypeSub_NoRef(node) ==
  [content |-> ContentOf(NoFields, node),
   fields |-> [parameterlist |-> BuildAll("docParamListType",
                                          Kids(node, {"parameterlist"})),
               simplesects |-> BuildAll("docSimpleSectType",
                                        Kids(node, {"simplesect"}))]]

docParaTypeSub(node) ==
  [content |-> ContentOf([ref |-> "docRefTextType"], node),
   fields |-> [parameterlist |-> BuildAll("docParamListType",
                                          Kids(node, {"parameterlist"})),
               simplesects |-> BuildAll("docSimpleSectType",
                                        Kids(node, {"simplesect"}))]]

(* What an object of a class without mixed content keeps. *)
FieldsOf(class, type, node) ==
  [f \in DOMAIN type.one \cup DOMAIN type.many |->
     LET kids == Kids(node, {f})
     IN  IF f \in DOMAIN type.many THEN BuildAll(type.many[f], kids)
         ELSE IF kids # <<>> THEN BuildAs(type.one[f], Last(kids))
         ELSE New[class][f]]

(* factory() and build() of a class. *)
Build(class, node) ==
  LET type == Types[class]
      para == docParaTypeSub(node)
  IN  [class |-> class,
       attrs |-> [a \in DOMAIN node.attrs \cap type.attrs |-> node.attrs[a]],
       content |-> IF class = "docParaType" THEN para.content
                   ELSE IF type.mixed THEN ContentOf(type.one, node) ELSE <<>>,
       fields |-> IF class = "docParaType" THEN para.fields
                  ELSE IF type.mixed THEN NoFields
                  ELSE FieldsOf(class, type, node)]

(* Every class an element is built as exists and has the fields its        *)
(* constructor gave it; and whatever a description holds can be read as    *)
(* text: mixed classes hold strings and mixed classes only, so             *)
(* description_bit never meets an object without content.                  *)
SchemaClosed ==
  /\ \A class \in DOMAIN Types :
       LET type == Types[class]
           kinds == {type.one[f] : f \in DOMAIN type.one}
                      \cup {type.many[f] : f \in DOMAIN type.many}
       IN  /\ kinds \subseteq DOMAIN Types \cup {"string"}
           /\ type.mixed => \A kind \in kinds \ {"string"} : Types[kind].mixed
  /\ \A class \in {c \in DOMAIN Types : ~ Types[c].mixed} :
       LET fields == DOMAIN Types[class].one \cup DOMAIN Types[class].many
       IN  fields # {} => /\ class \in DOMAIN New
                         /\ DOMAIN New[class] = fields
=============================================================================
