---------------------------- MODULE ClangCursor ----------------------------
(***************************************************************************)
(* The extensions of libclang that the analysis reads the AST through      *)
(* (src/libs/dextool_clang_extensions/cpp_source).  They are functions: a  *)
(* cursor is taken apart, a question is put to the AST of clang, and the   *)
(* parts of the answer are wrapped in new cursors.                         *)
(*                                                                         *)
(* A node of the AST is a record with the fields that the code asks for:   *)
(*    class    its statement or declaration class, without Stmt:: or Class *)
(*    expr     whether it is an Expr                                       *)
(*    inside   of an expression that stands for others (opaque value,      *)
(*             pseudo object, constant): those, from the outside in        *)
(* and fields of its class: opcode, loc, args, parts, constexpr ...        *)
(* A pointer that is null is one of the constants.                         *)
(***************************************************************************)
EXTENDS Integers, Sequences

CONSTANTS
    LlvmMajor,      \* LLVM_MAJOR_VERSION
    CIndexVersion,  \* CINDEX_VERSION
    NoDecl, NoStmt, NoUnit, NoContext, InvalidLoc,
    Unset           \* what is in memory that was not initialised

(***************************************************************************)
(* Operators (binary_op.cpp): the length of every operator of each of the  *)
(* enumerations of clang.  OpKind has the same names; those of overloaded  *)
(* operators begin with OO_.                                               *)
(***************************************************************************)
LengthOfBinary ==
    [PtrMemD |-> 2, PtrMemI |-> 3, Mul |-> 1, Div |-> 1, Rem |-> 1, Add |-> 1, Sub |-> 1,
     Shl |-> 2, Shr |-> 2, Cmp |-> 3, LT |-> 1, GT |-> 1, LE |-> 2, GE |-> 2, EQ |-> 2, NE |-> 2,
     And |-> 1, Xor |-> 1, Or |-> 1, LAnd |-> 2, LOr |-> 2, Assign |-> 1, MulAssign |-> 2,
     DivAssign |-> 2, RemAssign |-> 2, AddAssign |-> 2, SubAssign |-> 2, ShlAssign |-> 3,
     ShrAssign |-> 3, AndAssign |-> 2, XorAssign |-> 2, OrAssign |-> 2, Comma |-> 1]

\* libclang knows of the spaceship operator in its later versions.
BinaryLength ==
    [k \in {x \in DOMAIN LengthOfBinary : x = "Cmp" => CIndexVersion > 61} |-> LengthOfBinary[k]]

UnaryLength ==
    [PostInc |-> 2, PostDec |-> 2, PreInc |-> 2, PreDec |-> 2, AddrOf |-> 1, Deref |-> 1,
     Plus |-> 1, Minus |-> 1, Not |-> 1, LNot |-> 1, Real |-> 6, Imag |-> 6, Extension |-> 13,
     Coawait |-> 8]

OverloadedLength ==
    [OO_New |-> 3, OO_Delete |-> 6, OO_Array_New |-> 5, OO_Array_Delete |-> 8, OO_Plus |-> 1,
     OO_Minus |-> 1, OO_Star |-> 1, OO_Slash |-> 1, OO_Percent |-> 1, OO_Caret |-> 1,
     OO_Amp |-> 1, OO_Pipe |-> 1, OO_Tilde |-> 1, OO_Exclaim |-> 1, OO_Equal |-> 1,
     OO_Less |-> 1, OO_Greater |-> 1, OO_PlusEqual |-> 2, OO_MinusEqual |-> 2,
     OO_StarEqual |-> 2, OO_SlashEqual |-> 2, OO_PercentEqual |-> 2, OO_CaretEqual |-> 2,
     OO_AmpEqual |-> 2, OO_PipeEqual |-> 2, OO_LessLess |-> 2, OO_GreaterGreater |-> 2,
     OO_LessLessEqual |-> 3, OO_GreaterGreaterEqual |-> 3, OO_EqualEqual |-> 2,
     OO_ExclaimEqual |-> 2, OO_LessEqual |-> 2, OO_GreaterEqual |-> 2, OO_AmpAmp |-> 2,
     OO_PipePipe |-> 2, OO_PlusPlus |-> 2, OO_MinusMinus |-> 2, OO_Comma |-> 1,
     OO_ArrowStar |-> 3, OO_Arrow |-> 2, OO_Call |-> 2, OO_Subscript |-> 2,
     OO_Conditional |-> 1, OO_Coawait |-> 8]

OpKind == DOMAIN LengthOfBinary \cup DOMAIN UnaryLength \cup DOMAIN OverloadedLength

(***************************************************************************)
(* Cursors (libclang_interop.cpp).                                         *)
(***************************************************************************)
\* Classes whose cursor kind has the same name, in the order of the switch.
OwnStatements ==
    {"CaseStmt", "DefaultStmt", "IfStmt", "SwitchStmt", "WhileStmt", "DoStmt", "ForStmt",
     "GotoStmt", "IndirectGotoStmt", "ContinueStmt", "BreakStmt", "ReturnStmt", "GCCAsmStmt",
     "MSAsmStmt", "ObjCAtTryStmt", "ObjCAtCatchStmt", "ObjCAtFinallyStmt", "ObjCAtThrowStmt",
     "ObjCAtSynchronizedStmt", "ObjCAutoreleasePoolStmt", "ObjCForCollectionStmt",
     "CXXCatchStmt", "CXXTryStmt", "CXXForRangeStmt", "SEHTryStmt", "SEHExceptStmt",
     "SEHFinallyStmt", "SEHLeaveStmt"}

OwnBlocks == {"CompoundStmt", "NullStmt", "LabelStmt", "DeclStmt"}

OwnOperands ==
    {"IntegerLiteral", "FloatingLiteral", "ImaginaryLiteral", "StringLiteral",
     "CharacterLiteral", "ParenExpr", "UnaryOperator", "ArraySubscriptExpr"}

OwnExpressions ==
    {"BinaryOperator", "CompoundAssignOperator", "ConditionalOperator", "CStyleCastExpr",
     "CompoundLiteralExpr", "InitListExpr", "AddrLabelExpr", "StmtExpr", "GenericSelectionExpr",
     "GNUNullExpr", "CXXStaticCastExpr", "CXXDynamicCastExpr", "CXXReinterpretCastExpr",
     "CXXConstCastExpr", "CXXFunctionalCastExpr", "CXXTypeidExpr", "CXXBoolLiteralExpr",
     "CXXNullPtrLiteralExpr", "CXXThisExpr", "CXXThrowExpr", "CXXNewExpr", "CXXDeleteExpr",
     "ObjCStringLiteral", "ObjCEncodeExpr", "ObjCSelectorExpr", "ObjCProtocolExpr",
     "ObjCBoolLiteralExpr", "ObjCAvailabilityCheckExpr", "ObjCBridgedCastExpr", "BlockExpr",
     "PackExpansionExpr", "SizeOfPackExpr"}

UnexposedStmts ==
    {"AttributedStmt", "CapturedStmt"}
        \cup IF LlvmMajor > 19
             THEN {"CoroutineBodyStmt", "CoreturnStmt", "SYCLKernelCallStmt",
                   "MSDependentExistsStmt"}
             ELSE {}

References ==
    {"DeclRefExpr", "DependentScopeDeclRefExpr", "SubstNonTypeTemplateParmExpr",
     "SubstNonTypeTemplateParmPackExpr", "FunctionParmPackExpr", "UnresolvedLookupExpr"}

Members ==
    {"CXXDependentScopeMemberExpr", "CXXPseudoDestructorExpr", "MemberExpr",
     "MSPropertyRefExpr", "UnresolvedMemberExpr"}

Calls ==
    {"CallExpr", "CXXOperatorCallExpr", "CXXMemberCallExpr", "CUDAKernelCallExpr",
     "CXXConstructExpr", "CXXInheritedCtorInitExpr", "CXXTemporaryObjectExpr",
     "CXXUnresolvedConstructExpr", "UserDefinedLiteral"}

\* With an LLVM after 19 these have kinds of their own too.
NewExpressions ==
    {"FixedPointLiteral", "ArraySectionExpr", "OMPArrayShapingExpr", "OMPIteratorExpr",
     "CXXAddrspaceCastExpr", "PackIndexingExpr", "ConceptSpecializationExpr", "RequiresExpr",
     "CXXParenListInitExpr", "BuiltinBitCastExpr"}

\* The directives of OpenMP and OpenACC, one class for all of each age: all of
\* them have the kind of their own name.
Directives ==
    (IF LlvmMajor > 19 THEN {"OMPDirective", "OpenACCConstruct"} ELSE {})
        \cup (IF LlvmMajor > 20 THEN {"OMPStripeDirective", "OpenACCCacheConstruct"} ELSE {})

OwnKind ==
    OwnStatements \cup OwnBlocks \cup OwnOperands \cup OwnExpressions \cup {"LambdaExpr"}
        \cup Directives \cup (IF LlvmMajor > 19 THEN NewExpressions ELSE {})

\* The switch over the class; what it has no case for is an unexposed expression.
KindOf(class) ==
    CASE class = "NoStmt" -> "NotImplemented"
      [] class \in OwnKind -> class
      [] class \in UnexposedStmts -> "UnexposedStmt"
      [] class \in {"UnaryExprOrTypeTraitExpr", "CXXNoexceptExpr"} -> "UnaryExpr"
      [] class = "MSPropertySubscriptExpr" -> "ArraySubscriptExpr"
      [] class \in References -> "DeclRefExpr"
      [] class \in Members -> "MemberRefExpr"
      [] class \in Calls -> "CallExpr"
      [] OTHER -> "UnexposedExpr"

\* The expressions that the cursor is not made for, but for what they wrap.
SeenThrough ==
    {"OpaqueValueExpr", "PseudoObjectExpr"} \cup IF LlvmMajor > 19 THEN {"ConstantExpr"} ELSE {}

\* The calls of dex_MakeCXCursor on itself end at the first expression that is
\* exposed, or at an opaque value without a source.
Layers(s) == <<s>> \o s.inside
Stops(s, i) == Layers(s)[i].class \notin SeenThrough \/ i = Len(Layers(s))
Exposed(s) ==
    Layers(s)[CHOOSE i \in DOMAIN Layers(s) :
                 Stops(s, i) /\ \A j \in 1 .. i - 1 : ~Stops(s, j)]

\* data[0], data[1] and data[2].  A statement's declaration is the one around it.
MakeCXCursor(s, parent, tu) ==
    [kind |-> KindOf(Exposed(s).class), decl |-> parent, stmt |-> Exposed(s), tu |-> tu]

MakeCursorVariableRef(var, loc, tu) ==
    [kind |-> "VariableRef", decl |-> var, stmt |-> loc, tu |-> tu]

NullCursor == [kind |-> "InvalidFile", decl |-> NoDecl, stmt |-> NoStmt, tu |-> NoUnit]

\* A sub statement that is not there has no cursor.
CursorOf(s, cx) == IF s = NoStmt THEN NullCursor ELSE MakeCXCursor(s, cx.decl, cx.tu)

GetCursorTU(cx)      == cx.tu
GetCursorContext(cx) == [unit |-> GetCursorTU(cx)]
GetCursorDecl(cx)    == cx.decl
GetCursorStmt(cx) ==
    IF cx.kind \in {"ObjCSuperClassRef", "ObjCProtocolRef", "ObjCClassRef"} THEN NoStmt ELSE cx.stmt
GetCursorExpr(cx) ==
    IF GetCursorStmt(cx) # NoStmt /\ GetCursorStmt(cx).expr THEN GetCursorStmt(cx) ELSE NoStmt

NullLocation == [context |-> NoContext, loc |-> InvalidLoc]

\* The test for an invalid location has no effect (libclang_interop.cpp:871).
TranslateSourceLocation(context, loc) == [context |-> context, loc |-> loc]

\* clang_isExpression, from Index.h.
ExpressionKind == OwnOperands \cup OwnExpressions \cup NewExpressions
                    \cup {"UnexposedExpr", "DeclRefExpr", "MemberRefExpr", "CallExpr",
                          "LambdaExpr", "UnaryExpr"}

GetLocation(cx) ==
    IF cx.kind \in ExpressionKind
    THEN TranslateSourceLocation(GetCursorContext(cx), GetCursorExpr(cx).begin)
    ELSE NullLocation

\* bare is what IgnoreParenImpCasts of clang returns.
GetUnderlyingExprNode(cx) ==
    LET e == GetCursorExpr(cx)
    IN  IF e = NoStmt THEN NullCursor
        ELSE CursorOf(IF e.class = "DeclRefExpr" THEN e ELSE e.bare, cx)
-----------------------------------------------------------------------------
(* Questions about an expression (binary_op.cpp).                          *)

IsBinary(s) == s.class \in {"BinaryOperator", "CompoundAssignOperator"}
IsUnary(s) == s.class = "UnaryOperator"
IsOperatorCall(s) == s.class = "CXXOperatorCallExpr"

LengthTable(e) ==
    CASE IsBinary(e) -> BinaryLength
      [] IsUnary(e) -> UnaryLength
      [] OTHER -> OverloadedLength

NoOperator(cx) ==
    [hasValue |-> FALSE, kind |-> Unset, opLength |-> Unset, location |-> NullLocation, cursor |-> cx]

GetExprOperator(cx) ==
    LET e == GetCursorExpr(cx)
    IN  IF e # NoStmt /\ (IsBinary(e) \/ IsUnary(e) \/ IsOperatorCall(e))
              /\ e.opcode \in DOMAIN LengthTable(e)
        THEN [hasValue |-> TRUE, kind |-> e.opcode, opLength |-> LengthTable(e)[e.opcode],
              location |-> TranslateSourceLocation(GetCursorContext(cx), e.opLoc), cursor |-> cx]
        ELSE NoOperator(cx)

\* args are the operands, or the arguments of the call.
Sides(lhs, rhs) == [lhs |-> lhs, rhs |-> rhs]
GetOperatorExprs(cx) ==
    LET e == GetCursorExpr(cx)
    IN  IF e # NoStmt /\ (IsBinary(e) \/ IsUnary(e) \/ IsOperatorCall(e))
        THEN CASE Len(e.args) = 1 -> Sides(CursorOf(e.args[1], cx), NullCursor)
               [] Len(e.args) = 2 -> Sides(CursorOf(e.args[1], cx), CursorOf(e.args[2], cx))
               [] OTHER -> Sides(NullCursor, NullCursor)
        ELSE Sides(NullCursor, NullCursor)

\* Operator.length of the D wrapper: what is between the operator and the next
\* operand; without a right hand side the operator is taken for a unary one.
Start(cx) == IF cx = NullCursor THEN 0 ELSE cx.stmt.begin.offset
OperatorLength(op) ==
    LET e  == GetOperatorExprs(op.cursor)
        at == op.location.loc.offset
    IN  CASE ~op.hasValue -> 0
          [] op.hasValue /\ e.rhs = NullCursor ->
                IF at < Start(e.lhs) THEN Start(e.lhs) - at ELSE at - Start(e.lhs)
          [] op.hasValue /\ e.rhs # NullCursor ->
                IF Start(e.rhs) > at THEN Start(e.rhs) - at ELSE op.opLength

\* clang knows three categories; the generalised ones are two of them.
GetExprValueKind(cx) ==
    LET e == GetCursorExpr(cx)
    IN  CASE e = NoStmt -> "unknown"
          [] e # NoStmt /\ e.category = "lvalue" -> "lvalue"
          [] e # NoStmt /\ e.category = "prvalue" -> "rvalue"
          [] e # NoStmt /\ e.category = "xvalue" -> "xvalue"
          [] OTHER -> "unknown"
-----------------------------------------------------------------------------
(* Questions about statements, declarations and locations.                 *)

NoIf == [init |-> NullCursor, cond |-> NullCursor, then |-> NullCursor, else |-> NullCursor,
         condVar |-> NullCursor, condVarDeclStmt |-> NullCursor]

GetIfStmt(cx) ==
    LET s == GetCursorStmt(cx)
    IN  IF s = NoStmt \/ s.class # "IfStmt" THEN NoIf
        ELSE [init |-> CursorOf(s.init, cx), cond |-> CursorOf(s.cond, cx),
              then |-> CursorOf(s.then, cx), else |-> CursorOf(s.else, cx),
              condVar |-> IF s.var = NoDecl THEN NullCursor
                          ELSE MakeCursorVariableRef(s.var, s.var.loc, GetCursorTU(cx)),
              condVarDeclStmt |-> CursorOf(s.varStmt, cx)]

\* hasValue is not initialised for a statement that is not a case.
GetCaseStmt(cx) ==
    LET s == GetCursorStmt(cx)
        At(loc) == TranslateSourceLocation(GetCursorContext(cx), loc)
    IN  IF s = NoStmt \/ s.class # "CaseStmt"
        THEN [hasValue |-> Unset, subStmt |-> NullCursor, colonLoc |-> NullLocation,
              beginLoc |-> NullLocation, endLoc |-> NullLocation]
        ELSE [hasValue |-> TRUE, subStmt |-> CursorOf(s.sub, cx), colonLoc |-> At(s.colon),
              beginLoc |-> At(s.begin), endLoc |-> At(s.end)]

\* cfg is the control flow graph that clang builds: for each block how many
\* successors it has; empty if there is none.
CfgEdges[cfg \in Seq(Nat)] == IF cfg = <<>> THEN 0 ELSE Head(cfg) + CfgEdges[Tail(cfg)]

McCabe(cx) ==
    LET decl == GetCursorDecl(cx)
    IN  IF decl = NoDecl \/ ~decl.function \/ decl.cfg = <<>>
        THEN [hasValue |-> FALSE, value |-> 0]
        ELSE [hasValue |-> TRUE,
              value |-> (CfgEdges[decl.cfg] - 2) - (Len(decl.cfg) - 2) + 2]

FunctionDecls == {"Function", "CXXMethod", "CXXConstructor", "CXXDestructor", "CXXConversion",
                  "CXXDeductionGuide"}

\* The declaration of the cursor first, then its statement.
IsPotentialConstExpr(cx) ==
    IF GetCursorDecl(cx) # NoDecl /\ GetCursorDecl(cx).class \in FunctionDecls
    THEN GetCursorDecl(cx).constexpr
    ELSE LET s == GetCursorStmt(cx)
         IN  s # NoStmt /\ s.class = "IfStmt" /\ s.constexpr

IsFunctionTemplateConstExpr(cx) ==
    \/ CIndexVersion < 61
    \/ /\ GetCursorDecl(cx) # NoDecl /\ GetCursorDecl(cx).class = "FunctionTemplate"
       /\ GetCursorDecl(cx).templated # NoDecl
       /\ GetCursorDecl(cx).templated.constexpr

\* macro is what the source manager knows of a location.
InMacro(location, which) ==
    location.loc # InvalidLoc /\ location.loc.macro \cap which # {}

IsInSystemMacro(location)      == InMacro(location, {"system"})
IsMacroArgExpansion(location)  == InMacro(location, {"argument"})
IsMacroBodyExpansion(location) == InMacro(location, {"body"})
IsAnyMacro(location)           == InMacro(location, {"system", "body", "argument"})
=============================================================================
