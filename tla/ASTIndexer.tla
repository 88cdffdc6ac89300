----------------------------- MODULE ASTIndexer -----------------------------
(***************************************************************************)
(* clang-indexer/ASTIndexer.cc: the traversal of a declaration's syntax    *)
(* tree and the references it records.                                     *)
(*                                                                         *)
(* The tree comes from Clang.  A node is a record with its kind and its    *)
(* subtrees `subs`, in the order in which RecursiveASTVisitor takes them;  *)
(* a place in the tree is the sequence of the numbers of the subtrees      *)
(* taken to get there.  What is done with an expression's value is passed  *)
(* down in two members, m_thisContext and m_childContext, which every      *)
(* handler sets and a Switcher puts back when it returns: each call on the *)
(* stack is a frame here.                                                  *)
(***************************************************************************)
EXTENDS Integers, Sequences

LOCAL INSTANCE SequencesExt

CONSTANT Trees  \* bound: the translation units that may be indexed

VARIABLES tree,           \* the top-level declarations, under one node
          m_thisContext, m_childContext, m_typeContext,
          stack,          \* the calls in progress, innermost first
          refs,           \* <<place, RefType>>, as recorded
          symbols         \* <<place, SymbolType>>, as recorded

vars == <<tree, m_thisContext, m_childContext, m_typeContext, stack, refs, symbols>>

ExprKinds ==
    {"DeclRefExpr", "MemberExpr", "ParenExpr", "CallExpr", "Comma", "Assign", "CompoundAssign",
     "LValueToRValue", "ArrayToPointerDecay", "ToVoid", "OtherCast", "AddrOf", "Deref",
     "InitListExpr", "CXXConstructExpr", "OtherExpr"}
VarKinds == {"VarDecl", "ParmVarDecl"}
ClassKinds ==
    {"CXXRecordDecl", "ClassTemplateSpecializationDecl", "ClassTemplatePartialSpecializationDecl"}
DeclKinds ==
    VarKinds \cup ClassKinds
    \cup {"FunctionDecl", "EnumDecl", "UsingDirectiveDecl", "UsingDecl", "NamespaceAliasDecl",
          "TemplateDecl", "FieldDecl", "TypedefDecl", "NamespaceDecl", "EnumConstantDecl",
          "OtherDecl"}

RECURSIVE NodeAt(_, _)
NodeAt(node, place) ==
    IF place = <<>> THEN node ELSE NodeAt(node.subs[Head(place)], Tail(place))

RECURSIVE Places(_)
Places(node) ==
    {<<>>} \cup UNION {{<<i>> \o p : p \in Places(node.subs[i])} : i \in DOMAIN node.subs}
-----------------------------------------------------------------------------
(* RECORDING.  RecordDeclRefExpr: a function that is not called is used by *)
(* its address; a variable that nothing is known about is read if the      *)
(* expression is an rvalue.                                                *)
RefTypesOf(node, context) ==
    IF node.function
    THEN {r \in {"Called"} : "Called" \in context}
         \cup {r \in {"AddressTaken"} :
                  "Called" \notin context \/ context \cap {"Read", "AddressTaken"} # {}}
    ELSE IF context = {} THEN {IF node.rvalue THEN "Read" ELSE "Other"} ELSE context

(* VisitDecl: the references recorded at a declaration's name.  Of the     *)
(* class template specializations only the explicit and the partial ones,  *)
(* which are no instantiations, can be definitions.                        *)
DeclRefTypes(node, parent) ==
    LET definition == IF node.definition THEN "Definition" ELSE "Declaration"
        omitParamVar == parent.kind = "FunctionDecl" /\ ~parent.definition
    IN  CASE node.kind = "FunctionDecl" -> IF node.instantiation THEN {} ELSE {definition}
          [] node.kind = "ParmVarDecl" -> IF omitParamVar THEN {} ELSE {definition}
          [] node.kind \in {"VarDecl", "EnumDecl"} -> {definition}
          [] node.kind \in ClassKinds ->
                IF node.kind = "ClassTemplateSpecializationDecl" /\ node.instantiation
                THEN {"Declaration"} ELSE {definition}
          [] node.kind = "UsingDirectiveDecl" -> {"UsingDirective"}
          [] node.kind = "UsingDecl" -> {"Using"}
          [] node.kind = "NamespaceAliasDecl" -> {"Declaration", "NamespaceAlias"}
          [] node.kind = "TemplateDecl" -> {}
          [] OTHER -> {"Declaration"}

(* VisitDecl: the kind of symbol, which is recorded along with them.       *)
DeclSymbolTypes(node, parent) ==
    IF node.kind \notin DeclKinds \/ node.unnamed \/ DeclRefTypes(node, parent) = {} THEN {}
    ELSE CASE node.kind = "FunctionDecl" -> {node.method}
           [] node.kind = "ParmVarDecl" -> {"Parameter"}
           [] node.kind = "VarDecl" -> {IF node.local THEN "LocalVariable" ELSE "GlobalVariable"}
           [] node.kind \in ClassKinds -> {"Class"}
           [] node.kind = "EnumDecl" -> {"Enum"}
           [] node.kind \in {"NamespaceAliasDecl", "NamespaceDecl"} -> {"Namespace"}
           [] node.kind = "FieldDecl" -> {"Field"}
           [] node.kind = "TypedefDecl" -> {"Typedef"}
           [] node.kind = "EnumConstantDecl" -> {"Enumerator"}
           [] OTHER -> {}

(* VisitCXXConstructExpr: at the closing parenthesis, if there is one.     *)
ConstructorRefTypes(node) == {r \in {"Called"} : node.parenthesized}

(* TraverseConstructorInitializer: a member is initialised, not a base.    *)
InitializerRefTypes(node) == {r \in {"Initialized"} : node.member}

(* TraverseNestedNameSpecifierLoc: one for each part of a qualifier that   *)
(* names a namespace, an alias of one, a typedef, a class or a template.   *)
QualifierRefTypes(node) ==
    {r \in {"Qualifier"} :
        node.names \in {"Namespace", "NamespaceAlias", "Typedef", "Tag", "Template"}}

(* VisitTypeLoc: of types that have a declaration.                         *)
TypeRefTypes(node) ==
    {r \in {m_typeContext} : node.names \in {"Tag", "Typedef", "TemplateParameter", "Template"}}

(* What is recorded at a node.  RecordDeclRef leaves out what has no name. *)
RefTypes(node, parent, context) ==
    IF node.unnamed THEN {}
    ELSE CASE node.kind \in {"DeclRefExpr", "MemberExpr"} -> RefTypesOf(node, context)
           [] node.kind = "CXXConstructExpr" -> ConstructorRefTypes(node)
           [] node.kind = "CXXCtorInitializer" -> InitializerRefTypes(node)
           [] node.kind = "NestedNameSpecifier" -> QualifierRefTypes(node)
           [] node.kind = "TypeLoc" -> TypeRefTypes(node)
           [] node.kind \in DeclKinds -> DeclRefTypes(node, parent)
           [] OTHER -> {}
-----------------------------------------------------------------------------
(* CONTEXTS.  VisitMemberExpr: what is done with the object that has the   *)
(* member.                                                                 *)
BaseContext(node, context) ==
    IF node.arrow THEN {"Read"}
    ELSE (context \cap {"AddressTaken"})
         \cup {f \in {"Modified"} : context \cap {"Assigned", "Modified"} # {}}
         \cup {f \in {"Read"} : context \cap {"Read", "Called"} # {}}

(* The Visit functions: the context of a node's subtrees, which is the     *)
(* node's own unless a function says otherwise.                            *)
Visited(node, context) ==
    CASE node.kind \in {"ArrayToPointerDecay", "AddrOf", "DeclStmt", "ReturnStmt",
                        "InitListExpr"} \cup VarKinds -> {"AddressTaken"}
      [] node.kind \in {"ToVoid", "Deref"} -> {}
      [] node.kind = "LValueToRValue" -> {"Read"}
      [] node.kind = "MemberExpr" -> BaseContext(node, context)
      [] OTHER -> context

(* TraverseAssignCommon: the value that is called is a read one.           *)
AssignedContext(context, flag) ==
    (context \ {"Called"}) \cup {flag} \cup {f \in {"Read"} : "Called" \in context}


(* TraverseCallCommon, TraverseBinComma, TraverseAssignCommon: these set   *)
(* the context anew in front of each operand.                              *)
ChildContext(node, i) ==
    CASE node.kind = "CallExpr" -> IF i = 1 THEN {"Called"} ELSE {"AddressTaken"}
      [] node.kind = "Comma" -> IF i = 1 THEN {} ELSE m_thisContext
      [] node.kind = "Assign" -> IF i = 1 THEN AssignedContext(m_thisContext, "Assigned") ELSE {}
      [] node.kind = "CompoundAssign" ->
            IF i = 1 THEN AssignedContext(m_thisContext, "Modified") ELSE {}
      [] OTHER -> m_childContext

(* The context that a node is visited in.  TraverseStmt: what its parent   *)
(* said, of which an rvalue keeps only that it is read or called, and a    *)
(* statement nothing.  TraverseDecl, TraverseTypeLoc: none.                *)
ThisContext(node, childContext) ==
    CASE node.kind \in ExprKinds ->
            IF node.rvalue THEN childContext \ {"AddressTaken", "Assigned", "Modified"}
            ELSE childContext
      [] node.kind \in {"CXXCtorInitializer", "BaseSpecifier", "NestedNameSpecifier"} ->
            m_thisContext
      [] OTHER -> {}
-----------------------------------------------------------------------------
(* TraverseCXXRecordDecl: the type of a base specifier is a base class.    *)
(* The bases of a partial specialization are taken by the visitor's own    *)
(* function, as any other type is.                                         *)
TypeContext(node, parent) ==
    IF node.kind = "BaseSpecifier" /\ parent.kind = "CXXRecordDecl" THEN "BaseClass"
    ELSE m_typeContext


(* A class has bases where it is defined.  Of a class template             *)
(* specialization, instantiated or explicit, only the members are gone     *)
(* into: TraverseClassTemplateSpecializationDecl leaves out its qualifier, *)
(* its written type and its bases.                                         *)
GoesInto(node, sub) ==
    /\ node.kind \in ClassKinds /\ sub.kind = "BaseSpecifier" => node.definition
    /\ node.kind = "ClassTemplateSpecializationDecl" => sub.kind \in DeclKinds

(* The next of the subtrees that are gone into.                            *)
NextSubtree(node, next) ==
    LET rest == {i \in DOMAIN node.subs : i >= next /\ GoesInto(node, node.subs[i])}
    IN  {i \in rest : \A j \in rest : i <= j}

(* Call the handler of the node at a place: it switches the contexts,      *)
(* records, and leaves the context for its subtrees.  TraverseDecl and     *)
(* TraverseTypeLoc clear both contexts; TraverseConstructorInitializer     *)
(* switches nothing, and what it sets stays set.                           *)
Enter(place, node, parent, childContext, callers) ==
    LET this == ThisContext(node, childContext)
        child == IF node.kind = "CXXCtorInitializer" THEN {"AddressTaken"}
                 ELSE IF node.kind \in {"BaseSpecifier", "NestedNameSpecifier"} THEN childContext
                 ELSE Visited(node, this)
    IN
    /\ stack' = <<[place |-> place, next |-> 1,
                   this |-> m_thisContext,
                   child |-> IF node.kind = "CXXCtorInitializer" THEN child ELSE childContext,
                   type |-> m_typeContext]>> \o callers
    /\ m_thisContext' = this
    /\ m_childContext' = child
    /\ m_typeContext' = TypeContext(node, parent)
    /\ refs' = refs \cup ({place} \X RefTypes(node, parent, this))
    /\ symbols' = symbols \cup ({place} \X DeclSymbolTypes(node, parent))

Frame == Head(stack)
Node == NodeAt(tree, Frame.place)

(* The innermost call goes on to its next subtree.                         *)
Descend ==
    /\ stack # <<>>
    /\ \E i \in NextSubtree(Node, Frame.next) :
          Enter(Append(Frame.place, i), Node.subs[i], Node, ChildContext(Node, i),
                <<[Frame EXCEPT !.next = i + 1]>> \o Tail(stack))
    /\ UNCHANGED tree

(* Mutant: a base is marked by an assignment and not by a Switcher.        *)
Leave_typeKept ==
    /\ stack # <<>>
    /\ NextSubtree(Node, Frame.next) = {}
    /\ stack' = Tail(stack)
    /\ m_thisContext' = Frame.this
    /\ m_childContext' = Frame.child
    /\ UNCHANGED <<tree, m_typeContext, refs, symbols>>

(* The innermost call returns, and its Switchers put back what they found. *)
Leave ==
    /\ stack # <<>>
    /\ NextSubtree(Node, Frame.next) = {}
    /\ stack' = Tail(stack)
    /\ m_thisContext' = Frame.this
    /\ m_childContext' = Frame.child
    /\ m_typeContext' = Frame.type
    /\ UNCHANGED <<tree, refs, symbols>>

(* HandleTranslationUnit: the translation unit's declaration is handed to  *)
(* indexDecl of a new ASTIndexer, which is the outermost call here.        *)
Init ==
    /\ tree \in Trees
    /\ m_thisContext = {}
    /\ m_childContext = {}
    /\ m_typeContext = "Reference"
    /\ stack = <<[place |-> <<>>, next |-> 1, this |-> {}, child |-> {}, type |-> "Reference"]>>
    /\ refs = {}
    /\ symbols = {}

Next == Descend \/ Leave
Spec == Init /\ [][Next]_vars
-----------------------------------------------------------------------------
(* WHAT IS DONE WITH A NAME, said from below: from the names whose value   *)
(* an expression has, and from what the language does with the expression. *)

At(place) == NodeAt(tree, place)
Parent(place) == At(Front(place))
Names == {p \in Places(tree) : At(p).kind \in {"DeclRefExpr", "MemberExpr"} /\ ~At(p).unnamed}

(* The operands one of which an expression's value is: it is that object   *)
(* if the expression is an lvalue.                                         *)
Carried(node) ==
    CASE node.kind \in {"ParenExpr", "OtherCast", "Assign", "CompoundAssign"} -> {1}
      [] node.kind = "Comma" -> {2}
      [] node.kind = "OtherExpr" -> DOMAIN node.subs
      [] OTHER -> {}

(* The names that the value of the expression at a place may have come     *)
(* from; as an object, only through lvalues.                               *)
RECURSIVE ValueOf(_, _)
ValueOf(place, asObject) ==
    IF asObject /\ At(place).rvalue THEN {}
    ELSE ({place} \cap Names)
         \cup UNION {ValueOf(Append(place, i), asObject) : i \in Carried(At(place))}

(* The places of expressions that are assigned to, updated, bound to a     *)
(* reference or pointed at, read, called.                                  *)
Operands(kinds, i) ==
    {p \in Places(tree) : p # <<>> /\ Parent(p).kind \in kinds /\ Last(p) = i}
Objects(places) == UNION {ValueOf(p, TRUE) : p \in places}

AssignedTo == Objects(Operands({"Assign"}, 1))
Updated == Objects(Operands({"CompoundAssign"}, 1))
Bound ==
    Objects({p \in Places(tree) :
                /\ p # <<>> /\ At(p).kind \in ExprKinds
                /\ \/ Parent(p).kind \in {"AddrOf", "ArrayToPointerDecay", "ReturnStmt",
                                          "InitListExpr", "CXXCtorInitializer"} \cup VarKinds
                   \/ Parent(p).kind = "CallExpr" /\ Last(p) > 1})
CalledHere == UNION {ValueOf(p, FALSE) : p \in Operands({"CallExpr"}, 1)}
ReadHere ==
    Objects(Operands({"LValueToRValue"}, 1))
    \cup (CalledHere \cap (AssignedTo \cup Updated))
    \cup UNION {ValueOf(p, FALSE) :
                   p \in {q \in Operands({"MemberExpr"}, 1) : Parent(q).arrow}}

(* What is done to a name itself, and to the members selected from it: to  *)
(* change a part is to modify the whole.                                   *)
RECURSIVE Uses(_)
Uses(name) ==
    LET members(asObject) ==
            {m \in Names : /\ At(m).kind = "MemberExpr" /\ ~At(m).arrow
                           /\ name \in ValueOf(Append(m, 1), asObject)}
        parts == UNION {Uses(m) : m \in members(FALSE)}
        objectParts == UNION {Uses(m) : m \in members(TRUE)}
    IN  {u \in {"Assigned"} : name \in AssignedTo}
        \cup {u \in {"Modified"} :
                 name \in Updated \/ objectParts \cap {"Assigned", "Modified"} # {}}
        \cup {u \in {"AddressTaken"} : name \in Bound \/ "AddressTaken" \in objectParts}
        \cup {u \in {"Called"} : name \in CalledHere \ (AssignedTo \cup Updated)}
        \cup {u \in {"Read"} : name \in ReadHere \/ parts \cap {"Read", "Called"} # {}}


(* The types that the base specifiers of a class name, where it is         *)
(* defined: each base itself, and what is written in template arguments.   *)
Through(place, kind) == {n \in 1 .. Len(place) : At(SubSeq(place, 1, n)).kind = kind}
BaseTypes ==
    {p \in Places(tree) :
        /\ At(p).kind = "TypeLoc" /\ At(p).names \in {"Tag", "Typedef", "Template"}
        /\ \E n \in Through(p, "BaseSpecifier") :
              LET class == Parent(SubSeq(p, 1, n))
              IN  class.kind = "CXXRecordDecl" /\ class.definition}
IsArgument(place) ==
    \E n \in Through(Front(place), "TypeLoc") : At(SubSeq(place, 1, n)).names = "Template"

=============================================================================
