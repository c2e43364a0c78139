------------------------- MODULE ClangCursorProofs -------------------------
(* What the callers of the libclang extensions rely on, for every AST.     *)
EXTENDS ClangCursor, TLAPS

\* The lengths in the tables of operators are positive and small.
LEMMA LengthsOfOperators ==
    /\ \A k \in DOMAIN BinaryLength : BinaryLength[k] \in 1 .. 13
    /\ \A k \in DOMAIN UnaryLength : UnaryLength[k] \in 1 .. 13
    /\ \A k \in DOMAIN OverloadedLength : OverloadedLength[k] \in 1 .. 13
<1>0. \A k \in DOMAIN LengthOfBinary : LengthOfBinary[k] \in 1 .. 13
    BY DEF LengthOfBinary
<1>1. \A k \in DOMAIN BinaryLength : BinaryLength[k] \in 1 .. 13
    BY <1>0 DEF BinaryLength
<1>2. \A k \in DOMAIN UnaryLength : UnaryLength[k] \in 1 .. 13
    BY DEF UnaryLength
<1>3. \A k \in DOMAIN OverloadedLength : OverloadedLength[k] \in 1 .. 13
    BY DEF OverloadedLength
<1> QED BY <1>1, <1>2, <1>3

\* Whoever finds hasValue may use the rest: the kind is one of the enumeration,
\* the length was set together with it and the location is that of the
\* operator in the translation unit of the cursor (binary_op.cpp:547-583).
THEOREM OperatorIsComplete ==
    ASSUME NEW cx, GetExprOperator(cx).hasValue
    PROVE  /\ GetExprOperator(cx).kind \in OpKind
           /\ GetExprOperator(cx).opLength \in 1 .. 13
           /\ GetExprOperator(cx).location
                = TranslateSourceLocation(GetCursorContext(cx), GetCursorExpr(cx).opLoc)
           /\ GetExprOperator(cx).cursor = cx
<1> DEFINE e == GetCursorExpr(cx)
<1>1. e # NoStmt /\ (IsBinary(e) \/ IsUnary(e) \/ IsOperatorCall(e))
      /\ e.opcode \in DOMAIN LengthTable(e)
    BY DEF GetExprOperator, NoOperator
<1>2. GetExprOperator(cx) =
        [hasValue |-> TRUE, kind |-> e.opcode, opLength |-> LengthTable(e)[e.opcode],
         location |-> TranslateSourceLocation(GetCursorContext(cx), e.opLoc), cursor |-> cx]
    BY <1>1 DEF GetExprOperator
<1> HIDE DEF e
<1>3. LengthTable(e) \in {BinaryLength, UnaryLength, OverloadedLength}
    BY DEF LengthTable
<1>4. e.opcode \in OpKind
    BY <1>1, <1>3 DEF OpKind, BinaryLength
<1>5. LengthTable(e)[e.opcode] \in 1 .. 13
    BY <1>1, <1>3, LengthsOfOperators
<1> QED BY <1>2, <1>4, <1>5 DEF e

\* Every class of statement has a kind, if only the one of the unexposed.
LEMMA KindIsValid ==
    ASSUME NEW class
    PROVE  KindOf(class) # "InvalidFile"
BY DEF KindOf, OwnKind, OwnStatements, OwnBlocks, OwnOperands, OwnExpressions, NewExpressions,
       Directives

\* A cursor that is made of a statement is not the null cursor.
LEMMA CursorIsNotNull ==
    ASSUME NEW s, NEW cx, s # NoStmt
    PROVE  CursorOf(s, cx) # NullCursor
<1>1. CursorOf(s, cx).kind = KindOf(Exposed(s).class)
    BY DEF CursorOf, MakeCXCursor
<1>2. NullCursor.kind = "InvalidFile"
    BY DEF NullCursor
<1> QED BY <1>1, <1>2, KindIsValid

\* The sides of an operator: both for two operands, the left one for one, and
\* for a call with another number of arguments none (binary_op.cpp:593-635).
THEOREM SidesOfOperator ==
    ASSUME NEW cx, GetExprOperator(cx).hasValue,
           \A i \in DOMAIN GetCursorExpr(cx).args : GetCursorExpr(cx).args[i] # NoStmt,
           NEW S, GetCursorExpr(cx).args \in Seq(S)
    PROVE  /\ GetOperatorExprs(cx).lhs # NullCursor <=> Len(GetCursorExpr(cx).args) \in {1, 2}
           /\ GetOperatorExprs(cx).rhs # NullCursor <=> Len(GetCursorExpr(cx).args) = 2
<1> DEFINE e == GetCursorExpr(cx)
<1>1. e # NoStmt /\ (IsBinary(e) \/ IsUnary(e) \/ IsOperatorCall(e))
    BY DEF GetExprOperator, NoOperator
<1>2. e.args \in Seq(S) /\ \A i \in 1 .. Len(e.args) : CursorOf(e.args[i], cx) # NullCursor
    BY CursorIsNotNull
<1>3. GetOperatorExprs(cx) =
        CASE Len(e.args) = 1 -> Sides(CursorOf(e.args[1], cx), NullCursor)
          [] Len(e.args) = 2 -> Sides(CursorOf(e.args[1], cx), CursorOf(e.args[2], cx))
          [] OTHER -> Sides(NullCursor, NullCursor)
    BY <1>1 DEF GetOperatorExprs
<1> HIDE DEF e
<1>4. CASE Len(e.args) = 1
    <2>1. GetOperatorExprs(cx) = Sides(CursorOf(e.args[1], cx), NullCursor)
        BY <1>3, <1>4
    <2>2. CursorOf(e.args[1], cx) # NullCursor
        BY <1>2, <1>4
    <2> QED BY <1>4, <2>1, <2>2 DEF Sides, e
<1>5. CASE Len(e.args) = 2
    <2>1. GetOperatorExprs(cx) = Sides(CursorOf(e.args[1], cx), CursorOf(e.args[2], cx))
        BY <1>3, <1>5
    <2>2. CursorOf(e.args[1], cx) # NullCursor /\ CursorOf(e.args[2], cx) # NullCursor
        BY <1>2, <1>5
    <2> QED BY <1>5, <2>1, <2>2 DEF Sides, e
<1>6. CASE Len(e.args) \notin {1, 2}
    <2>1. GetOperatorExprs(cx) = Sides(NullCursor, NullCursor)
        BY <1>3, <1>6
    <2> QED BY <1>6, <2>1 DEF Sides, e
<1> QED BY <1>4, <1>5, <1>6

\* So the D wrapper takes such a call for a unary operator with an operand at
\* the beginning of the file, and its length for the offset of the operator
\* (package.d:356-373 of the extensions): f(a, b) of a functor is one.
THEOREM LengthOfCall ==
    ASSUME NEW cx, GetExprOperator(cx).hasValue,
           NEW S, GetCursorExpr(cx).args \in Seq(S), Len(GetCursorExpr(cx).args) \notin {1, 2},
           GetCursorExpr(cx).opLoc.offset \in Nat
    PROVE  OperatorLength(GetExprOperator(cx)) = GetCursorExpr(cx).opLoc.offset
<1> DEFINE op == GetExprOperator(cx)
           at == GetCursorExpr(cx).opLoc.offset
<1>1. op.hasValue = TRUE /\ op.cursor = cx /\ op.location.loc.offset = at
    BY DEF GetExprOperator, NoOperator, TranslateSourceLocation
<1>2. GetOperatorExprs(op.cursor) = Sides(NullCursor, NullCursor)
    BY <1>1 DEF GetOperatorExprs
<1>3. Sides(NullCursor, NullCursor).rhs = NullCursor /\ Start(Sides(NullCursor, NullCursor).lhs) = 0
    BY DEF Sides, Start
<1> HIDE DEF op, at
<1>4. OperatorLength(op) = IF at < 0 THEN 0 - at ELSE at - 0
    BY <1>1, <1>2, <1>3 DEF OperatorLength
<1> QED BY <1>4 DEF op, at

InUnitOf(cx, made) == made = NullCursor \/ made.tu = cx.tu
OfParent(cx, made) == made = NullCursor \/ (made.tu = cx.tu /\ made.decl = cx.decl)

\* A cursor keeps the translation unit and the declaration it is made in.
LEMMA CursorStays ==
    ASSUME NEW s, NEW cx
    PROVE  OfParent(cx, CursorOf(s, cx))
BY DEF OfParent, CursorOf, MakeCXCursor

\* No cursor is made without the translation unit of the one it comes from: the
\* AST context can be reached from it, as every function of the extensions
\* does without a test (libclang_interop.cpp:841-843).
THEOREM CursorsStayInUnit ==
    ASSUME NEW cx
    PROVE  /\ OfParent(cx, GetOperatorExprs(cx).lhs) /\ OfParent(cx, GetOperatorExprs(cx).rhs)
           /\ OfParent(cx, GetUnderlyingExprNode(cx)) /\ OfParent(cx, GetCaseStmt(cx).subStmt)
           /\ \A part \in {"init", "cond", "then", "else", "condVarDeclStmt"} :
                 OfParent(cx, GetIfStmt(cx)[part])
           /\ InUnitOf(cx, GetIfStmt(cx).condVar)
<1>1. OfParent(cx, NullCursor) /\ InUnitOf(cx, NullCursor)
    BY DEF OfParent, InUnitOf
<1>2. OfParent(cx, GetOperatorExprs(cx).lhs) /\ OfParent(cx, GetOperatorExprs(cx).rhs)
    BY <1>1, CursorStays DEF GetOperatorExprs, Sides
<1>3. OfParent(cx, GetUnderlyingExprNode(cx))
    BY <1>1, CursorStays DEF GetUnderlyingExprNode
<1>4. OfParent(cx, GetCaseStmt(cx).subStmt)
    BY <1>1, CursorStays DEF GetCaseStmt
<1>5. ASSUME NEW part \in {"init", "cond", "then", "else", "condVarDeclStmt"}
      PROVE  OfParent(cx, GetIfStmt(cx)[part])
    BY <1>1, CursorStays DEF GetIfStmt, NoIf
<1>6. InUnitOf(cx, GetIfStmt(cx).condVar)
    BY <1>1 DEF GetIfStmt, NoIf, InUnitOf, MakeCursorVariableRef, GetCursorTU
<1> QED BY <1>2, <1>3, <1>4, <1>5, <1>6

\* In a function the question whether an if statement is constexpr is answered
\* for the function, so the answer is the same for all of its statements: the
\* declaration of a statement's cursor is the one around it (trait.cpp:14-35).
THEOREM ConstexprOfFunction ==
    ASSUME NEW f, f # NoDecl, f.class \in FunctionDecls, NEW s, NEW tu
    PROVE  IsPotentialConstExpr(MakeCXCursor(s, f, tu)) = f.constexpr
BY DEF IsPotentialConstExpr, MakeCXCursor, GetCursorDecl

=============================================================================
