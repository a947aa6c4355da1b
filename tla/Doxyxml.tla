------------------------------ MODULE Doxyxml ------------------------------
(***************************************************************************)
(* docs/doxygen/doxyxml: base.py, doxyindex.py and text.py, which read     *)
(* Doxygen's XML and offer its classes, functions, files and namespaces    *)
(* with the text of their comments.                                        *)
(*                                                                         *)
(* A name is a sequence of components (split at '::'), a component a       *)
(* sequence of bits (split at '_'); a file name ends in a bit ".h".  Text  *)
(* is a sequence of words.  Doxygen writes both descriptions of every      *)
(* compound and member.  Objects are parsed at first use; as the files do  *)
(* not change meanwhile, what an object holds does not depend on when.     *)
(***************************************************************************)
EXTENDS Naturals, Sequences, SequencesExt

CONSTANTS BREAK,       \* the empty line after a paragraph
          Malformed    \* an XML file expat cannot parse

Schema == INSTANCE DoxySchema
NoObject == Schema!NoObject

(* text.py *)
RECURSIVE description_bit(_)
description_bit(item) ==
  LET contents == item.value.content
      text == IF item.isText THEN item.value
              ELSE FlattenSeq([i \in DOMAIN contents |->
                                 description_bit(contents[i])])
  IN  text \o (IF item.name = "para" THEN <<BREAK>> ELSE <<>>)

RECURSIVE Stripped(_)
Stripped(text) ==
  IF text = <<>> THEN text
  ELSE IF Last(text) = BREAK THEN Stripped(Front(text))
  ELSE IF Head(text) = BREAK THEN Stripped(Tail(text))
  ELSE text

(* The text of an object with content; '' stands for the None of an object *)
(* that is not there.                                                      *)
description(obj) ==
  IF obj = NoObject THEN <<>>
  ELSE Stripped(description_bit([name |-> "", isText |-> FALSE, value |-> obj]))

Joined(first, second) ==
  first \o (IF first # <<>> /\ second # <<>> THEN <<BREAK>> ELSE <<>>) \o second

-----------------------------------------------------------------------------
(* doxyindex.py: the class that stands for an element of each kind.  Kinds *)
(* outside this list make get_cls raise.                                   *)
Classes ==
  [function |-> "DoxyFunction", class |-> "DoxyClass", file |-> "DoxyFile",
   namespace |-> "DoxyNamespace", group |-> "DoxyGroup", friend |-> "DoxyFriend"]
OtherKinds == {"variable", "struct", "union", "define", "typedef", "enum",
               "dir", "page", "signal", "slot", "property"}
can_parse(kind) == kind \in DOMAIN Classes \cup OtherKinds
get_cls(kind) == IF kind \in DOMAIN Classes THEN Classes[kind] ELSE "DoxyOther"

(* A parameter documented in the comment, under the first of its names. *)
DoxyParameterItem(item) ==
  [name |-> description(item.fields.parameternamelist[1].fields.parametername[1]),
   description |-> description(item.fields.parameterdescription)]

(* A parameter of the declaration. *)
DoxyParam(param) ==
  [name |-> param.fields.declname,
   description |-> description(param.fields.briefdescription)]

(* The parameter lists, of whatever kind, of the paragraphs that stand     *)
(* directly in the detailed description.                                   *)
set_parameters(data) ==
  LET paras == SelectSeq(data.fields.detaileddescription.content,
                         LAMBDA item : ~item.isText
                                         /\ item.value.class = "docParaType")
      lists == FlattenSeq([i \in DOMAIN paras |->
                             paras[i].value.fields.parameterlist])
      items == FlattenSeq([i \in DOMAIN lists |-> lists[i].fields.parameteritem])
  IN  [i \in DOMAIN items |-> DoxyParameterItem(items[i])]

(* An object and what the script may ask it for: its descriptions, its     *)
(* parameters, its members, and whether its own file failed to parse.      *)
Doxy(cls, name, definition, data, params, members) ==
  [cls |-> cls, name |-> name, definition |-> definition, error |-> FALSE,
   brief |-> description(data.fields.briefdescription),
   detailed |-> description(data.fields.detaileddescription),
   params |-> params, members |-> members]
Unparsed(cls, name, error) ==
  [cls |-> cls, name |-> name, definition |-> <<>>, error |-> error,
   brief |-> <<>>, detailed |-> <<>>, params |-> <<>>, members |-> <<>>]

DoxyFunction(md) ==
  LET documented == set_parameters(md)
      declared == [i \in DOMAIN md.fields.param |-> DoxyParam(md.fields.param[i])]
  IN  Doxy("DoxyFunction", md.fields.name, md.fields.definition, md,
           IF documented # <<>> THEN documented ELSE declared, <<>>)

(* convert_mem for a member: nothing (None) for a kind without a class. *)
convert_mem(md) ==
  IF get_cls(md.attrs.kind) = "DoxyFunction" THEN DoxyFunction(md)
  ELSE Unparsed(IF can_parse(md.attrs.kind) THEN get_cls(md.attrs.kind)
                ELSE "None", md.fields.name, FALSE)

(* The members of all sections, the first of each name only: all of them   *)
(* are memberdefTypeSub objects, whatever their kind.                      *)
process_memberdefs_Last(compounddef) ==
  LET sections == compounddef.fields.sectiondef
      mdtss == FlattenSeq([i \in DOMAIN sections |-> sections[i].fields.memberdef])
      Later(i) == \E j \in DOMAIN mdtss :
                    j > i /\ mdtss[j].fields.name = mdtss[i].fields.name
      firsts == SelectSeq([i \in DOMAIN mdtss |-> <<i, mdtss[i]>>],
                          LAMBDA m : ~Later(m[1]))
  IN  [i \in DOMAIN firsts |-> convert_mem(firsts[i][2])]

process_memberdefs(compounddef) ==
  LET sections == compounddef.fields.sectiondef
      mdtss == FlattenSeq([i \in DOMAIN sections |-> sections[i].fields.memberdef])
      Earlier(i) == \E j \in 1..i - 1 : mdtss[j].fields.name = mdtss[i].fields.name
      firsts == SelectSeq([i \in DOMAIN mdtss |-> <<i, mdtss[i]>>],
                          LAMBDA m : ~Earlier(m[1]))
  IN  [i \in DOMAIN firsts |-> convert_mem(firsts[i][2])]

(* retrieve_data: the description of a compound in its own file. *)
retrieve_data(xml) == Schema!Build("DoxygenType", xml).fields.compounddef

DoxyClass(name, xml) ==
  IF xml = Malformed THEN Unparsed("DoxyClass", name, TRUE)
  ELSE LET cdef == retrieve_data(xml)
       IN  Doxy("DoxyClass", name, <<>>, cdef, set_parameters(cdef),
                process_memberdefs(cdef))

(* Files and namespaces ask for the compound's descriptions before they    *)
(* look at the error: a malformed file raises an AttributeError.           *)
DoxyFileOrNamespace(cls, name, xml) ==
  LET cdef == retrieve_data(xml)
  IN  Doxy(cls, name, <<>>, cdef, <<>>, process_memberdefs(cdef))

EndsWithH(name) == Last(Last(name)) = ".h"

(* The kinds of compound whose file is parsed while the index is read. *)
ParsedAtOnce(mem) ==
  \/ mem.attrs.kind = "namespace"
  \/ mem.attrs.kind = "file" /\ EndsWithH(mem.fields.name)

(* What an entry of the index adds to the members of the index: a file or  *)
(* a namespace adds its own members first, a file that is no header none.  *)
MembersOf(mem, xml) ==
  LET cls == get_cls(mem.attrs.kind)
      name == mem.fields.name
      opened == DoxyFileOrNamespace(cls, name, xml)
  IN  IF ParsedAtOnce(mem) THEN Append(opened.members, opened)
      ELSE IF cls = "DoxyFile" THEN <<>>
      ELSE IF cls = "DoxyClass" THEN <<DoxyClass(name, xml)>>
      ELSE <<Unparsed(cls, name, FALSE)>>

-----------------------------------------------------------------------------
(* base.py: looking members up by category and name. *)
in_category(members, cls) == SelectSeq(members, LAMBDA mem : mem.cls = cls)

(* The members a name leads to: the first component names a member of the  *)
(* category, and the members of functions, friends and files do not        *)
(* continue a qualified name in the same category.  No member is a         *)
(* NoSuchMember, several are a Duplicate.                                  *)
get_dict_members(members, name, cls) ==
  SelectSeq(in_category(members, cls), LAMBDA mem : mem.name = <<Head(name)>>)
NoSuchMember(members, name, cls) ==
  LET found == get_dict_members(members, name, cls)
  IN  Len(found) = 0 \/ (Len(found) = 1 /\ Len(name) > 1)
Duplicate(members, name, cls) == Len(get_dict_members(members, name, cls)) > 1
get_member(members, name, cls) == get_dict_members(members, name, cls)[1]
has_member(members, name, cls) == ~NoSuchMember(members, name, cls)
=============================================================================
