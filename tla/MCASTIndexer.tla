---------------------------- MODULE MCASTIndexer ----------------------------
(***************************************************************************)
(* Translation units for ASTIndexer: every expression of a small depth, in *)
(* every statement that takes one, and some declarations.  Expressions are *)
(* put together as Clang's Sema does it as far as lvalues and rvalues go;  *)
(* types do not matter to the indexer and are left out.                    *)
(***************************************************************************)
EXTENDS ASTIndexer

Blank == [kind |-> "OtherStmt", subs |-> <<>>, rvalue |-> FALSE, arrow |-> FALSE,
          function |-> FALSE, unnamed |-> FALSE, parenthesized |-> FALSE, member |-> FALSE,
          definition |-> TRUE, instantiation |-> FALSE, method |-> "Function", local |-> FALSE,
          names |-> "Tag"]

Tree(kind, subs) == [Blank EXCEPT !.kind = kind, !.subs = subs]
RValue(kind, subs) == [Tree(kind, subs) EXCEPT !.rvalue = TRUE]

Variable == Tree("DeclRefExpr", <<>>)
Load(lvalue) == RValue("LValueToRValue", <<lvalue>>)
Value == Load(Variable)
Function == RValue("OtherCast", <<[Variable EXCEPT !.function = TRUE]>>)
Literal == RValue("OtherExpr", <<>>)
Decay(lvalue) == RValue("ArrayToPointerDecay", <<lvalue>>)
Method(kind, base, arrow) ==
    [RValue(kind, <<base>>) EXCEPT !.function = TRUE, !.arrow = arrow]
Arrow(pointer) == [Tree("MemberExpr", <<pointer>>) EXCEPT !.arrow = TRUE]

LValuesOver(lvalues, rvalues) ==
    UNION {{Tree("ParenExpr", <<l>>), Tree("OtherCast", <<l>>), Tree("Comma", <<Variable, l>>),
            Tree("Comma", <<l, Variable>>), Tree("Assign", <<l, Value>>),
            Tree("CompoundAssign", <<l, Value>>), Tree("MemberExpr", <<l>>),
            Tree("OtherExpr", <<Value, l, Variable>>),
            Tree("OtherExpr", <<Decay(l), Value>>)} : l \in lvalues}
    \cup UNION {{Tree("Assign", <<Variable, r>>), Arrow(r), Tree("Deref", <<r>>)} : r \in rvalues}

RValuesOver(lvalues, rvalues) ==
    UNION {{Load(l), RValue("AddrOf", <<l>>), RValue("ToVoid", <<l>>),
            RValue("CallExpr", <<Function, l>>), RValue("Assign", <<l, Value>>),
            RValue("CallExpr", <<Method("MemberExpr", l, FALSE), Value>>),
            RValue("CallExpr", <<Load(l), l>>),
            RValue("Comma", <<l, Value>>)} : l \in lvalues}
    \cup UNION {{RValue("ParenExpr", <<r>>), RValue("CallExpr", <<r, Variable>>),
                 RValue("CallExpr", <<Function, Value, r>>), RValue("Comma", <<Variable, r>>),
                 RValue("MemberExpr", <<r>>), RValue("OtherExpr", <<Value, r, Function>>),
                 RValue("CallExpr", <<Method("MemberExpr", r, TRUE)>>),
                 RValue("InitListExpr", <<Variable, r>>)} : r \in rvalues}

LValues1 == LValuesOver({Variable}, {Value, Literal, Function})
RValues1 == RValuesOver({Variable}, {Value, Literal, Function})
LValues2 == LValuesOver(LValues1, RValues1)
RValues2 == RValuesOver(LValues1, RValues1)

FunctionOf(statement) == Tree("FunctionDecl", <<statement>>)
LocalOf(e) == [Tree("VarDecl", <<e>>) EXCEPT !.local = TRUE]
Statements ==
    {Tree("ReturnStmt", <<e>>) : e \in LValues2 \cup RValues2}
    \cup {Tree("OtherStmt", <<e, Variable>>) : e \in LValues2 \cup RValues2}
    \cup {Tree("DeclStmt", <<LocalOf(e)>>) : e \in LValues1 \cup RValues1}
    \cup {Tree("ReturnStmt", <<e>>) : e \in LValuesOver(LValues2, {})}
    \cup {Tree("OtherStmt", <<RValue("CXXConstructExpr", <<e>>)>>) :
             e \in LValues1 \cup RValues1}
    \cup {[Tree("CXXCtorInitializer", <<e>>) EXCEPT !.member = TRUE] : e \in LValues1 \cup RValues1}

Type == Tree("TypeLoc", <<>>)
Named(kind, names) == [Tree(kind, <<>>) EXCEPT !.names = names]
TypeOf(names, subs) == [Tree("TypeLoc", subs) EXCEPT !.names = names]
Qualifier == Tree("NestedNameSpecifier", <<>>)
BaseOfType(type) == Tree("BaseSpecifier", <<type>>)
Bases ==                                  \* A, T<A>, N::T<N::A, T<B>>
    <<BaseOfType(Type),
      BaseOfType(TypeOf("Template", <<Type>>)),
      BaseOfType(TypeOf("Elaborated",
          <<Qualifier, TypeOf("Template", <<TypeOf("Elaborated", <<Qualifier, Type>>),
                                            TypeOf("Template", <<Type>>)>>)>>))>>
Constructor ==
    [Tree("FunctionDecl",
          <<Type, Tree("ParmVarDecl", <<Named("TypeLoc", "TemplateParameter")>>),
            [Tree("CXXCtorInitializer", <<Variable>>) EXCEPT !.member = TRUE],
            Tree("CXXCtorInitializer", <<Type, [RValue("CXXConstructExpr", <<Variable>>)
                                                EXCEPT !.parenthesized = TRUE]>>),
            Tree("OtherStmt", <<Variable>>)>>) EXCEPT !.method = "Constructor"]
Members ==
    <<Tree("FieldDecl", <<Type>>), [Constructor EXCEPT !.definition = FALSE], Constructor>>
Class == Tree("CXXRecordDecl", <<Qualifier>> \o Bases \o Members)

\* Its bases are those of the definition, which Clang finds from any declaration.
Forward == [Tree("CXXRecordDecl", Bases) EXCEPT !.definition = FALSE]
Instantiation ==
    [Tree("ClassTemplateSpecializationDecl",
          <<TypeOf("Template", <<Type>>)>> \o Bases
          \o <<Tree("FieldDecl", <<Type>>), [Constructor EXCEPT !.instantiation = TRUE]>>)
     EXCEPT !.instantiation = TRUE]
Explicit ==
    Tree("ClassTemplateSpecializationDecl",
         <<Qualifier, TypeOf("Template", <<Type>>)>> \o Bases \o Members)
Partial ==
    Tree("ClassTemplatePartialSpecializationDecl",
         <<Tree("OtherDecl", <<>>), TypeOf("TemplateParameter", <<>>), Qualifier>>
         \o Bases \o Members)
Template ==
    Tree("TemplateDecl", <<Class, Instantiation, [Constructor EXCEPT !.instantiation = TRUE]>>)
Specializations == Tree("NamespaceDecl", <<Explicit, Partial, Forward>>)
Others ==
    Tree("NamespaceDecl",
         <<Tree("NamespaceAliasDecl", <<Named("NestedNameSpecifier", "Namespace"),
                                        Named("NestedNameSpecifier", "Decltype")>>),
           Tree("UsingDirectiveDecl", <<>>), Tree("UsingDecl", <<>>), Tree("TypedefDecl", <<Type>>),
           [Tree("EnumDecl", <<Tree("EnumConstantDecl", <<Literal>>)>>) EXCEPT !.unnamed = TRUE],
           Tree("VarDecl", <<Named("TypeLoc", "Builtin")>>), Tree("OtherDecl", <<>>)>>)

MCTrees ==
    {Tree("TranslationUnitDecl", <<FunctionOf(s)>>) : s \in Statements}
    \cup {Tree("TranslationUnitDecl", <<a, b>>) :
             a, b \in {Class, Template, Specializations, Others}}
=============================================================================
