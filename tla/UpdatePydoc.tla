---------------------------- MODULE UpdatePydoc ----------------------------
(***************************************************************************)
(* docs/doxygen/update_pydoc.py: "scrape" collects a docstring for every   *)
(* class, method and function Doxygen describes, "sub" writes them into    *)
(* the placeholders of the pydoc templates, "copy" leaves these blank.     *)
(***************************************************************************)
EXTENDS Doxyxml, FiniteSets

CONSTANTS Compounds,   \* refid -> [kind, name] of its entry in index.xml
          Xml,         \* refid -> the root element of <refid>.xml
          Indexes,     \* the index files considered, as sequences of refids
          Filter,      \* --filter, a name
          Templates,   \* stem of a pydoc template -> its placeholders
          Args, Colon, \* what format_params writes
          Octal,       \* words that start with two octal digits
          Digits,      \* the others that start with a digit
          Closing      \* words that hold a ')'

VARIABLES index,       \* the compounds of index.xml, in order
          broken,      \* the compounds whose file is malformed
          phase,       \* where the script is
          todo,        \* what the loop it is in has left
          members,     \* di.members()
          blocks, blocks2,
          make_funcs,
          output,      \* the docstrings, a sequence of [key, doc]
          pydoc        \* the files written: stem -> placeholder -> docstring

vars == <<index, broken, phase, todo, members, blocks, blocks2, make_funcs,
          output, pydoc>>

-----------------------------------------------------------------------------
(* Names *)
FirstLong(name) == CHOOSE i \in DOMAIN name :
                     /\ Len(name[i]) > 1
                     /\ \A j \in 1..i - 1 : Len(name[j]) = 1

(* 'make' after the first bit of the whole name. *)
make_name(name) ==
  IF \E i \in DOMAIN name : Len(name[i]) > 1
  THEN [name EXCEPT ![FirstLong(name)] = <<Head(@), "make">> \o Tail(@)]
  ELSE [name EXCEPT ![Len(name)] = @ \o <<"make", "">>]

HeaderOf(name) == [name EXCEPT ![Len(name)] = Append(@, ".h")]

IsOperator(name) == \E i \in DOMAIN name : Head(name[i]) = "operator "

StartsWith(name, prefix) ==
  LET n == Len(prefix)
  IN  /\ n <= Len(name)
      /\ \A i \in 1..n - 1 : name[i] = prefix[i]
      /\ IsPrefix(prefix[n], name[n])

Make == <<<<"make">>>>

-----------------------------------------------------------------------------
(* Block.includes and Block2.includes. *)
IsBlock(item) ==
  /\ item.cls = "DoxyClass" /\ ~item.error
  /\ \/ has_member(item.members, make_name(item.name), "DoxyFriend")
     \/ has_member(members, make_name(item.name), "DoxyFunction")

IsBlock2(item) ==
  /\ item.cls = "DoxyClass" /\ ~item.error
  /\ has_member(item.members, Make, "DoxyFunction")
  /\ has_member(item.members, <<<<"sptr">>>>, "DoxyOther")

(* Looking the make function up raises Duplicate. *)
Ambiguous(item) ==
  /\ item.cls = "DoxyClass" /\ ~item.error
  /\ ~has_member(item.members, make_name(item.name), "DoxyFriend")
  /\ Duplicate(members, make_name(item.name), "DoxyFunction")

-----------------------------------------------------------------------------
(* Entries *)
combine_descriptions(obj) == Stripped(Joined(obj.brief, obj.detailed))

format_params(params) ==
  LET line(p) == p.name \o <<Colon>> \o p.description
  IN  <<Args>> \o FlattenSeq([i \in DOMAIN params |-> line(params[i])])

(* An operator of conversion gets no entry. *)
make_entry(name, desc, params) ==
  IF IsOperator(name) THEN <<>>
  ELSE <<[key |-> name,
          doc |-> IF params = <<>> THEN desc
                  ELSE desc \o <<BREAK>> \o format_params(params)]>>

make_class_entry(klass, desc, ignored, params) ==
  LET funcs == SelectSeq(in_category(klass.members, "DoxyFunction"),
                         LAMBDA func : func.name \notin ignored)
  IN  make_entry(klass.name, desc, params)
        \o FlattenSeq([i \in DOMAIN funcs |->
                         make_entry(klass.name \o funcs[i].name,
                                    combine_descriptions(funcs[i]), <<>>)])

(* The class, its make function and its header share one description. *)
make_block_entry(block, make_func) ==
  LET header == get_dict_members(members, HeaderOf(block.name), "DoxyFile")
      desc == Joined(Joined(combine_descriptions(block),
                            combine_descriptions(make_func)),
                     IF header = <<>> THEN <<>>
                     ELSE combine_descriptions(header[1]))
  IN  make_class_entry(block, desc, {}, block.params)
        \o make_entry(Last(make_func.definition), desc, block.params)

make_block2_entry(block, make_func) ==
  LET desc == combine_descriptions(block) \o <<BREAK>>
                \o combine_descriptions(make_func)
  IN  make_class_entry(block, desc, {Make}, make_func.params)
        \o make_entry(block.name \o Make, desc, make_func.params)

(* dict.update: a key that is there keeps its place. *)
Put(dict, entry) ==
  IF \E i \in DOMAIN dict : dict[i].key = entry.key
  THEN [i \in DOMAIN dict |->
          IF dict[i].key = entry.key THEN entry ELSE dict[i]]
  ELSE Append(dict, entry)
Update(dict, entries) == FoldLeft(Put, dict, entries)

-----------------------------------------------------------------------------
XmlOf(refid) == IF refid \in broken THEN Malformed ELSE Xml[refid]

(* index.parse: the entry of a compound in index.xml. *)
IndexEntry(refid) ==
  LET text == [tag |-> "#text", text |-> Compounds[refid].name]
      name == [tag |-> "name", attrs |-> NoObject, kids |-> <<text>>]
      compound == [tag |-> "compound",
                   attrs |-> [kind |-> Compounds[refid].kind, refid |-> refid],
                   kids |-> <<name>>]
  IN  Schema!Build("CompoundType", compound)

Blank == [stem \in DOMAIN Templates |-> [p \in Templates[stem] |-> <<>>]]

Init == /\ index \in Indexes
        /\ broken \in {{}} \cup {{refid} : refid \in DOMAIN Xml}
        /\ broken \subseteq {index[i] : i \in DOMAIN index}
        /\ phase = "index"
        /\ todo = index
        /\ members = <<>>
        /\ blocks = <<>> /\ blocks2 = <<>>
        /\ make_funcs = {}
        /\ output = <<>>
        /\ pydoc = <<>>

Stop == /\ phase' = "stopped"
        /\ UNCHANGED <<index, broken, todo, members, blocks, blocks2,
                       make_funcs, output, pydoc>>

(* DoxyIndex._parse: a compound of unknown kind, and a header or namespace *)
(* that cannot be parsed, end the script.                                  *)
ReadCompound ==
  /\ phase = "index" /\ todo # <<>>
  /\ LET mem == IndexEntry(Head(todo))
         xml == XmlOf(Head(todo))
     IN  IF \/ ~can_parse(mem.attrs.kind)
            \/ ParsedAtOnce(mem) /\ xml = Malformed
         THEN Stop
         ELSE /\ members' = members \o MembersOf(mem, xml)
              /\ todo' = Tail(todo)
              /\ UNCHANGED <<index, broken, phase, blocks, blocks2,
                             make_funcs, output, pydoc>>

FindBlocks ==
  /\ phase = "index" /\ todo = <<>>
  /\ IF \E i \in DOMAIN members : Ambiguous(members[i]) THEN Stop
     ELSE /\ blocks' = SelectSeq(members, IsBlock)
          /\ blocks2' = SelectSeq(members, IsBlock2)
          /\ phase' = "blocks"
          /\ todo' = blocks'
          /\ UNCHANGED <<index, broken, members, make_funcs, output, pydoc>>

(* A friend says that the class is a block; its make function must be      *)
(* there, once, and at most one header of its name.                        *)
DocumentBlock ==
  /\ phase = "blocks" /\ todo # <<>>
  /\ LET block == Head(todo)
         makename == make_name(block.name)
         found == get_dict_members(members, makename, "DoxyFunction")
     IN  IF \/ NoSuchMember(members, makename, "DoxyFunction")
            \/ Len(found) > 1
            \/ /\ found[1].name \notin make_funcs
               /\ Duplicate(members, HeaderOf(block.name), "DoxyFile")
         THEN Stop
         ELSE /\ output' =
                   IF found[1].name \in make_funcs THEN output
                   ELSE Update(output, make_block_entry(block, found[1]))
              /\ make_funcs' = make_funcs \cup {found[1].name}
              /\ todo' = Tail(todo)
              /\ UNCHANGED <<index, broken, phase, members, blocks, blocks2,
                             pydoc>>

DocumentBlock2 ==
  /\ phase = "blocks2" /\ todo # <<>>
  /\ LET block == Head(todo)
         makename == block.name \o Make
     IN  /\ output' = IF makename \in make_funcs THEN output
                      ELSE Update(output, make_block2_entry(block,
                             get_member(block.members, Make, "DoxyFunction")))
         /\ make_funcs' = make_funcs \cup {makename}
  /\ todo' = Tail(todo)
  /\ UNCHANGED <<index, broken, phase, members, blocks, blocks2, pydoc>>

DocumentFunction ==
  /\ phase = "functions" /\ todo # <<>>
  /\ LET f == Head(todo)
     IN  output' = Update(output, make_entry(Last(f.definition),
                                             combine_descriptions(f), <<>>))
  /\ todo' = Tail(todo)
  /\ UNCHANGED <<index, broken, phase, members, blocks, blocks2, make_funcs,
                 pydoc>>

(* The ParsingError of a class without a file is caught. *)
DocumentClass ==
  /\ phase = "classes" /\ todo # <<>>
  /\ output' = IF Head(todo).error THEN output
               ELSE Update(output, make_class_entry(Head(todo),
                      combine_descriptions(Head(todo)), {}, Head(todo).params))
  /\ todo' = Tail(todo)
  /\ UNCHANGED <<index, broken, phase, members, blocks, blocks2, make_funcs,
                 pydoc>>

Standard(name) == Len(name) > 1 /\ Head(name) = <<"std">>
Functions ==
  SelectSeq(in_category(members, "DoxyFunction"),
            LAMBDA f : f.name \notin make_funcs /\ ~Standard(f.name))
OtherClasses ==
  LET names == {block.name : block \in ToSet(blocks) \cup ToSet(blocks2)}
  IN  SelectSeq(in_category(members, "DoxyClass"),
                LAMBDA k : k.name \notin names /\ ~Standard(k.name))

(* From one loop of get_docstrings_dict to the next. *)
NextLoop ==
  /\ todo = <<>>
  /\ \/ phase = "blocks" /\ phase' = "blocks2" /\ todo' = blocks2
     \/ phase = "blocks2" /\ phase' = "functions" /\ todo' = Functions
     \/ phase = "functions" /\ phase' = "classes" /\ todo' = OtherClasses
     \/ phase = "classes" /\ phase' = "scraped" /\ UNCHANGED todo
  /\ UNCHANGED <<index, broken, members, blocks, blocks2, make_funcs, output,
                 pydoc>>

-----------------------------------------------------------------------------
(* The name of the placeholder: '::' becomes '_'. *)
DocKey(name) == FlattenSeq(name)

(* subn of one key finds nothing once the placeholder holds a ')'.  The    *)
(* docstring stands right behind the reference '\1' to the declaration: if  *)
(* it starts with a digit there is no such group, and subn fails; if it     *)
(* starts with two octal digits they make one character of the reference,   *)
(* which takes the place of the declaration.                                *)
Found(template, entry) ==
  /\ DocKey(entry.key) \in DOMAIN template
  /\ ToSet(template[DocKey(entry.key)]) \cap Closing = {}
Begins(doc, words) == doc # <<>> /\ Head(doc) \in words
Without(template, p) == [q \in DOMAIN template \ {p} |-> template[q]]

(* Mutant: a key that fails leaves the template blank *)
Substituted_Reset(template, entry) ==
  IF Begins(entry.doc, Digits) THEN [p \in DOMAIN template |-> <<>>]
  ELSE IF ~Found(template, entry) THEN template
  ELSE IF Begins(entry.doc, Octal) THEN Without(template, DocKey(entry.key))
  ELSE [template EXCEPT ![DocKey(entry.key)] = entry.doc]

Substituted(template, entry) ==
  IF ~Found(template, entry) \/ Begins(entry.doc, Digits) THEN template
  ELSE IF Begins(entry.doc, Octal) THEN Without(template, DocKey(entry.key))
  ELSE [template EXCEPT ![DocKey(entry.key)] = entry.doc]

(* The docstrings meant for a template, by the name of its file. *)
Filtered(stem) ==
  SelectSeq(output, LAMBDA e : /\ StartsWith(e.key, Filter)
                               /\ StartsWith(e.key, Append(Filter, stem)))

sub_docstring_in_pydoc_h ==
  /\ phase = "scraped"
  /\ pydoc' = [stem \in DOMAIN Templates |->
                 FoldLeft(Substituted, Blank[stem], Filtered(stem))]
  /\ phase' = "substituted"
  /\ UNCHANGED <<index, broken, todo, members, blocks, blocks2, make_funcs,
                 output>>

(* Without Doxygen the templates are copied instead. *)
copy_docstring_templates ==
  /\ phase = "index" /\ todo = index
  /\ pydoc' = Blank
  /\ phase' = "copied"
  /\ UNCHANGED <<index, broken, todo, members, blocks, blocks2, make_funcs,
                 output>>

Next == \/ ReadCompound \/ FindBlocks \/ DocumentBlock \/ DocumentBlock2
        \/ DocumentFunction \/ DocumentClass \/ NextLoop
        \/ sub_docstring_in_pydoc_h \/ copy_docstring_templates

Spec == Init /\ [][Next]_vars

-----------------------------------------------------------------------------
(* What the comments say, read off the elements themselves: the words of a *)
(* description that stand in paragraphs, sections, titles and references,  *)
(* in no other markup.                                                     *)
RunningText == {"title", "para", "sect1", "sect2", "sect3", "sect4",
                "internal", "ref"}
RECURSIVE Spoken(_)
Spoken(node) ==
  UNION {LET kid == node.kids[i]
         IN  IF kid.tag = "#text" THEN ToSet(kid.text)
             ELSE IF kid.tag \in RunningText THEN Spoken(kid) ELSE {} :
         i \in DOMAIN node.kids}
CommentOf(node) ==
  LET parts == Schema!Kids(node, {"briefdescription", "detaileddescription"})
  IN  UNION {Spoken(parts[i]) : i \in DOMAIN parts}

CompoundDef(refid) == Xml[refid].kids[1]
MemberDefs(refid) ==
  LET sections == Schema!Kids(CompoundDef(refid), {"sectiondef"})
  IN  FlattenSeq([i \in DOMAIN sections |->
                    Schema!Kids(sections[i], {"memberdef"})])
TextOf(md, tag) == Schema!Characters(Schema!Kids(md, {tag})[1])
(* The functions of a compound, but for operators of conversion and for    *)
(* overloads after the first.                                              *)
FirstFunctions(refid) ==
  LET mds == MemberDefs(refid)
  IN  {mds[i] : i \in {i \in DOMAIN mds :
         /\ mds[i].attrs.kind = "function"
         /\ ~IsOperator(TextOf(mds[i], "name"))
         /\ \A j \in 1..i - 1 : TextOf(mds[j], "name") # TextOf(mds[i], "name")}}

Listed(kinds) == {refid \in ToSet(index) \ broken :
                    Compounds[refid].kind \in kinds}
DocsOf(key) == {ToSet(output[i].doc) \ {BREAK} :
                  i \in {i \in DOMAIN output : output[i].key = key}}

(* Every class whose file can be read has a docstring with all its running *)
(* text, every method of it one with the text of its first overload and    *)
(* nothing else; every function of a header or namespace has one that      *)
(* holds the text of a function of that definition, and nothing else       *)
(* unless it makes a block.  A class that cannot be read costs nobody else *)
(* an entry: the script ends early only for an unknown kind, a header or   *)
(* namespace that cannot be read, and a block whose make function or       *)
(* header is missing or ambiguous.                                         *)
NothingLost ==
  /\ phase = "scraped" =>
       /\ \A refid \in Listed({"class"}) :
            LET name == Compounds[refid].name
            IN  /\ \E doc \in DocsOf(name) : CommentOf(CompoundDef(refid)) \subseteq doc
                /\ \A md \in FirstFunctions(refid) :
                     \/ TextOf(md, "name") = Make
                     \/ DocsOf(name \o TextOf(md, "name")) = {CommentOf(md)}
       /\ \A refid \in Listed({"file", "namespace"}) :
            \/ ~ParsedAtOnce(IndexEntry(refid))
            \/ \A md \in FirstFunctions(refid) :
                 LET key == Last(TextOf(md, "definition"))
                 IN  IF TextOf(md, "name") \in make_funcs
                     THEN \E doc \in DocsOf(key) : CommentOf(md) \subseteq doc
                     ELSE \E r \in Listed({"file", "namespace"}) :
                          \E m \in FirstFunctions(r) :
                            /\ Last(TextOf(m, "definition")) = key
                            /\ DocsOf(key) = {CommentOf(m)}
  /\ phase = "stopped" =>
       \/ \E i \in DOMAIN index :
            LET mem == IndexEntry(index[i])
            IN  ~can_parse(mem.attrs.kind)
                  \/ (index[i] \in broken /\ ParsedAtOnce(mem))
       \/ \E refid \in Listed({"class"}) :
            LET makename == make_name(Compounds[refid].name)
                found == get_dict_members(members, makename, "DoxyFunction")
                friend == \E i \in DOMAIN MemberDefs(refid) :
                            /\ MemberDefs(refid)[i].attrs.kind = "friend"
                            /\ TextOf(MemberDefs(refid)[i], "name") = makename
            IN  \/ Len(found) > 1
                \/ found = <<>> /\ friend
                \/ found # <<>> /\ Duplicate(members,
                                     HeaderOf(Compounds[refid].name), "DoxyFile")

(* A placeholder in the template of a class ends up with a docstring meant *)
(* for it, if one was collected that does not start with a digit, and      *)
(* stays blank otherwise: no key takes another's text, and a docstring     *)
(* that cannot be substituted costs only its own placeholder.  The          *)
(* declaration itself, which update_pydoc.py:293 means to leave as it is,  *)
(* is lost if, and only if, a docstring meant for it starts with two octal *)
(* digits, and none that holds a ')' came before.                          *)
PlaceholdersFilled ==
  phase = "substituted" =>
    \A stem \in DOMAIN Templates : \A p \in Templates[stem] :
      LET meant == SelectSeq(output, LAMBDA e :
                     DocKey(e.key) = p /\ StartsWith(e.key, Append(Filter, stem)))
          usable(i) == ~Begins(meant[i].doc, Digits \cup Octal)
          closed(i) == usable(i) /\ ToSet(meant[i].doc) \cap Closing # {}
          lost == \E i \in DOMAIN meant :
                    /\ Begins(meant[i].doc, Octal)
                    /\ \A j \in 1..i - 1 : ~closed(j)
          docs == {meant[i].doc : i \in {i \in DOMAIN meant : usable(i)}}
      IN  /\ p \notin DOMAIN pydoc[stem] <=> lost
          /\ ~lost => IF docs = {} THEN pydoc[stem][p] = <<>>
                      ELSE pydoc[stem][p] \in docs
=============================================================================
