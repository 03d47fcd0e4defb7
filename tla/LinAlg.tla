------------------------------- MODULE LinAlg -------------------------------
(***************************************************************************)
(* The linear algebra built-ins of runtime/c/plant_runtime.c over exact    *)
(* numbers: a matrix is a sequence of rows, an entry that is no number is  *)
(* NaN, and every error text is Err. The code takes a pivot below 1e-12    *)
(* for zero. EIGEN and SVD, which need square roots, are left out.         *)
(***************************************************************************)
EXTENDS Rationals, Sequences, FiniteSets

CONSTANTS
    MaxDim,  \* LA_MAXD, the rows of the largest matrix
    Entries, \* the numbers of the instance
    Rows3    \* its rows of three

VARIABLE args  \* the arguments of one call: two matrices and a vector

Err == <<>>

\* _la_matrix and the entries read from it: rectangular, not empty, numbers.
IsMatrix(m) ==
    /\ Len(m) \in 1 .. MaxDim
    /\ \A i \in DOMAIN m : m[i] # <<>> /\ Len(m[i]) = Len(m[1])

\* _la_vec fills a buffer of size numbers, whatever the length of the list: past
\* it the program is undefined.
Overrun == <<"overrun">>
Overruns(v, size) == Len(v) > size /\ \A i \in 1 .. size + 1 : ~IsNaN(v[i])

AllNumbers(v) == \A i \in DOMAIN v : ~IsNaN(v[i])
Readable(m) == IsMatrix(m) /\ \A i \in DOMAIN m : AllNumbers(m[i])
SquareShape(m) == IsMatrix(m) /\ Len(m) = Len(m[1])
Square(m) == SquareShape(m) /\ Readable(m)

Cols(m) == DOMAIN m[1]
Matrix(I, J, entry) == [i \in I |-> [j \in J |-> entry[i, j]]]

----------------------------------------------------------------------------
(* Vectors *)

Dot(a, b) ==
    IF Overruns(a, MaxDim) \/ (AllNumbers(a) /\ a # <<>> /\ Overruns(b, MaxDim)) THEN Overrun
    ELSE IF a = <<>> \/ ~AllNumbers(a) \/ ~AllNumbers(b) \/ Len(a) # Len(b) THEN Err
    ELSE QSum([i \in DOMAIN a |-> QMul(a[i], b[i])], DOMAIN a)

Cross(a, b) ==
    LET minor(i, j) == QSub(QMul(a[i], b[j]), QMul(a[j], b[i]))
        isVector(v) == Len(v) = 3 /\ AllNumbers(v)
    IN IF Overruns(a, 4) \/ (isVector(a) /\ Overruns(b, 4)) THEN Overrun
       ELSE IF ~isVector(a) \/ ~isVector(b) THEN Err
       ELSE <<minor(2, 3), minor(3, 1), minor(1, 2)>>

\* NORM is the square root of this.
NormSquared(a) == Dot(a, a)

----------------------------------------------------------------------------
(* Matrix arithmetic *)

Transpose(m) ==
    IF ~Readable(m) THEN Err
    ELSE Matrix(Cols(m), DOMAIN m, [p \in Cols(m) \X DOMAIN m |-> m[p[2]][p[1]]])

MatrixMult(a, b) ==
    IF ~Readable(a) \/ ~Readable(b) \/ Len(a[1]) # Len(b) THEN Err
    ELSE [i \in DOMAIN a |-> [j \in Cols(b) |->
            QSum([k \in DOMAIN b |-> QMul(a[i][k], b[k][j])], DOMAIN b)]]

SameSize(a, b) == Readable(a) /\ Readable(b) /\ Len(a) = Len(b) /\ Len(a[1]) = Len(b[1])

MatAdd(a, b) ==
    IF ~SameSize(a, b) THEN Err
    ELSE [i \in DOMAIN a |-> [j \in Cols(a) |-> QAdd(a[i][j], b[i][j])]]

MatSub(a, b) ==
    IF ~SameSize(a, b) THEN Err
    ELSE [i \in DOMAIN a |-> [j \in Cols(a) |-> QSub(a[i][j], b[i][j])]]

\* The entries off the diagonal are not read.
MatTrace(m) ==
    LET diagonal == [i \in DOMAIN m |-> m[i][i]]
    IN IF ~SquareShape(m) THEN Err
       ELSE IF ~AllNumbers(diagonal) THEN Err ELSE QSum(diagonal, DOMAIN m)

MatIdentity(n) ==
    IF n \notin 1 .. 2000 THEN Err ELSE [i \in 1 .. n |-> [j \in 1 .. n |-> IF i = j THEN One ELSE Zero]]

----------------------------------------------------------------------------
(* Elimination with partial pivoting *)

\* The search for the pivot of a column, from the diagonal down: a row takes over
\* from the best one so far only with a larger entry.
PivotRow(m, col) ==
    LET best[r \in col .. Len(m)] ==
            IF r = col THEN col
            ELSE IF QLess(QAbs(m[best[r - 1]][col]), QAbs(m[r][col])) THEN r ELSE best[r - 1]
    IN best[Len(m)]

Swapped(m, i, j) == [m EXCEPT ![i] = m[j], ![j] = m[i]]

\* Row i less f times row j, from column col on.
RowLess(m, i, f, j, col) ==
    [c \in Cols(m) |-> IF c < col THEN m[i][c] ELSE QSub(m[i][c], QMul(f, m[j][c]))]

\* Fault variant: a swap keeps the sign of the determinant.
SignUnflipped(sign, p, col) == sign

SignAfter(sign, p, col) == IF p = col THEN sign ELSE QNeg(sign)

\* One column of _gauss: s holds the rows, the determinant so far and whether
\* a column had no pivot.
GaussColumn(s, col) ==
    LET p == PivotRow(s.m, col)
        m == Swapped(s.m, col, p)
        d == m[col][col]
        scaled == [m EXCEPT ![col] = [c \in Cols(m) |-> IF c < col THEN @[c] ELSE QDiv(@[c], d)]]
    IN IF s.singular \/ s.m[p][col] = Zero THEN [s EXCEPT !.singular = TRUE]
       ELSE [m |-> [r \in DOMAIN m |->
                        IF r = col THEN scaled[col] ELSE RowLess(scaled, r, scaled[r][col], col, col)],
             det |-> QMul(SignAfter(s.det, p, col), d),
             singular |-> FALSE]

Gauss(m) ==
    LET after[c \in 0 .. Len(m)] ==
            IF c = 0 THEN [m |-> m, det |-> One, singular |-> FALSE]
            ELSE GaussColumn(after[c - 1], c)
    IN after[Len(m)]

Inverse(m) ==
    LET n == Len(m)
        g == Gauss([i \in DOMAIN m |-> m[i] \o MatIdentity(n)[i]])
    IN IF ~Square(m) THEN Err
       ELSE IF g.singular THEN Err ELSE [i \in DOMAIN m |-> SubSeq(g.m[i], n + 1, 2 * n)]

Det(m) ==
    LET g == Gauss(m) IN IF ~Square(m) THEN Err ELSE IF g.singular THEN Zero ELSE g.det

\* COND is the square root of this.
CondSquared(m) ==
    LET i == Inverse(m)
        norm(a) == QSum([r \in DOMAIN a |-> NormSquared(a[r])], DOMAIN a)
    IN IF i = Err THEN Err ELSE QMul(norm(m), norm(i))

\* plant_solve: forward elimination of [m | b], then back substitution.
Forward(m) ==
    LET n == Len(m)
        step(s, col) ==
            LET p == PivotRow(s, col)
                t == Swapped(s, col, p)
            IN IF s = Err THEN Err
               ELSE IF t[col][col] = Zero THEN Err
               ELSE [r \in DOMAIN t |->
                        IF r <= col THEN t[r] ELSE RowLess(t, r, QDiv(t[r][col], t[col][col]), col, col)]
        after[c \in 0 .. n] == IF c = 0 THEN m ELSE step(after[c - 1], c)
    IN after[n]

Solve(m, b) ==
    LET n == Len(m)
        t == Forward([i \in DOMAIN m |-> Append(m[i], b[i])])
        x[i \in 1 .. n] ==
            LET known == QSum([j \in i + 1 .. n |-> QMul(t[i][j], x[j])], i + 1 .. n)
            IN QDiv(QSub(t[i][n + 1], known), t[i][i])
    IN IF ~SquareShape(m) THEN Err
       ELSE IF Overruns(b, n) THEN Overrun
       ELSE IF ~Readable(m) \/ Len(b) # n \/ ~AllNumbers(b) THEN Err
       ELSE IF t = Err THEN Err ELSE x

\* plant_lu: the factors share one matrix, a column without a pivot is passed.
LUColumn(m, col) ==
    LET p == PivotRow(m, col)
        t == Swapped(m, col, p)
        f(r) == QDiv(t[r][col], t[col][col])
    IN IF m[p][col] = Zero THEN m
       ELSE [r \in DOMAIN t |->
                IF r <= col THEN t[r] ELSE [RowLess(t, r, f(r), col, col + 1) EXCEPT ![col] = f(r)]]

LU(m) ==
    LET n == Len(m)
        after[c \in 0 .. n] == IF c = 0 THEN m ELSE LUColumn(after[c - 1], c)
        a == after[n]
    IN IF ~Square(m) THEN Err
       ELSE << [i \in 1 .. n |-> [j \in 1 .. n |-> IF j < i THEN a[i][j] ELSE IF i = j THEN One ELSE Zero]],
               [i \in 1 .. n |-> [j \in 1 .. n |-> IF j >= i THEN a[i][j] ELSE Zero]] >>
----------------------------------------------------------------------------
(* The calls of the instance *)

Vectors == [1 .. 2 -> Entries]
Matrices == [1 .. 2 -> Vectors]
MatrixArgs ==
    [a : Matrices, b : Matrices, x : {<<One, One>>}]
        \union [a : Matrices, b : {MatIdentity(2)}, x : Vectors]
        \union [a : [1 .. 3 -> Rows3], b : {MatIdentity(3)}, x : {<<One, Zero, Q(2)>>}]

----------------------------------------------------------------------------
(* Properties *)

Leibniz(m) ==
    IF Len(m) = 2 THEN QSub(QMul(m[1][1], m[2][2]), QMul(m[1][2], m[2][1]))
    ELSE Dot(m[1], Cross(m[2], m[3]))

\* The built-ins agree with each other and with the laws of matrices: DET is
\* the determinant; INVERSE and SOLVE refuse exactly the singular matrices and
\* otherwise give what undoes the matrix; the factors of LU are triangular and
\* give the rows back, in some order, also when a column has no pivot.
LinearAlgebraSound ==
    LET a == args.a  b == args.b  n == Len(a)  det == Leibniz(a)
        inverse == Inverse(a)
        solved == Solve(a, args.x)
        parts == LU(a)
        product == MatrixMult(parts[1], parts[2])
        column == [i \in 1 .. n |-> <<args.x[i]>>]
    IN /\ Det(a) = det
       /\ (inverse = Err) = (det = Zero)
       /\ inverse # Err => MatrixMult(a, inverse) = MatIdentity(n) /\ MatrixMult(inverse, a) = MatIdentity(n)
       /\ (solved = Err) = (det = Zero)
       /\ solved # Err => MatrixMult(a, [i \in 1 .. n |-> <<solved[i]>>]) = column
       /\ \E order \in [1 .. n -> 1 .. n] :
            /\ {order[i] : i \in 1 .. n} = 1 .. n
            /\ product = [i \in 1 .. n |-> a[order[i]]]
       /\ Transpose(MatrixMult(a, b)) = MatrixMult(Transpose(b), Transpose(a))
       /\ MatTrace(MatrixMult(a, b)) = MatTrace(MatrixMult(b, a))
       /\ MatSub(MatAdd(a, b), b) = a
       /\ Det(MatrixMult(a, b)) = QMul(Det(a), Det(b))
       /\ inverse # Err => CondSquared(a) = CondSquared(inverse)
=============================================================================
