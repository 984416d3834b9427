-------------------------------- MODULE Aes --------------------------------
(***************************************************************************)
(* The cipher of util/aes.c: aes_init with the expansion of the key, one   *)
(* word a step, cipher and inv_cipher, one round a step, and the tables    *)
(* and the arithmetic of GF(2^8) they are made of.                         *)
(***************************************************************************)
EXTENDS Bytes, Integers, Sequences, FiniteSets

CONSTANTS
  AesKeys,       \* keys, sequences of bytes
  Blocks,        \* blocks of 16 bytes
  KnownCiphers   \* keys and blocks with the result, from FIPS 197

ASSUME AesAssumption ==
  /\ AesKeys \subseteq Seq(Byte)
  /\ \A k \in AesKeys : Len(k) >= 16   \* key_expansion reads no less
  /\ Blocks \subseteq [1..16 -> Byte]
  /\ KnownCiphers \subseteq Seq(Byte) \X Blocks \X [1..16 -> Byte]

VARIABLES
  key, block,   \* the arguments of aes_init and cipher
  w,            \* the words of the key schedule so far
  state,        \* the state matrix, by rows
  r,            \* the round
  trail,        \* history: the state at the beginning of each round
  out,          \* the result of cipher
  aespc         \* idle, expand, cipher, rounds, inverse, back, end

aesVars == <<key, block, w, state, r, trail, out, aespc>>

Nb == 4

-----------------------------------------------------------------------------
(* GF(2^8).                                                                *)

\* a <<= 1, less the polynomial when the high bit falls out.
Double(a) == IF a >= 128 THEN Xor(2 * (a - 128), \h1B) ELSE 2 * a

\* Eight turns: the multiples of a by powers of two that b has bits for.
gmult(a, b) ==
  LET multiple[i \in 0..7] == IF i = 0 THEN a ELSE Double(multiple[i - 1])
      p[i \in 0..8] == IF i = 0 THEN 0
                       ELSE IF Bit(b, i - 1) = 1 THEN Xor(p[i - 1], multiple[i - 1])
                       ELSE p[i - 1]
  IN p[8]

\* The multiples the code needs, all a for a few b.
Multiples == [b \in {1, 2, 3, 9, 11, 13, 14} |-> [a \in Byte |-> gmult(a, b)]]

\* Words of four bytes, indexed from 0.
coef_add(a, b) == [i \in 0..3 |-> Xor(a[i], b[i])]

\* Multiplication modulo x^4 + 1, b a column of the state.
coef_mult(a, b) ==
  LET term(i, k) == Multiples[a[(i - k) % 4]][b[k]]
  IN [i \in 0..3 |-> Xor(Xor(term(i, 0), term(i, 1)), Xor(term(i, 2), term(i, 3)))]

-----------------------------------------------------------------------------
(* Tables.                                                                 *)

s_box == <<
  \h63, \h7C, \h77, \h7B, \hF2, \h6B, \h6F, \hC5, \h30, \h01, \h67, \h2B, \hFE, \hD7, \hAB, \h76,
  \hCA, \h82, \hC9, \h7D, \hFA, \h59, \h47, \hF0, \hAD, \hD4, \hA2, \hAF, \h9C, \hA4, \h72, \hC0,
  \hB7, \hFD, \h93, \h26, \h36, \h3F, \hF7, \hCC, \h34, \hA5, \hE5, \hF1, \h71, \hD8, \h31, \h15,
  \h04, \hC7, \h23, \hC3, \h18, \h96, \h05, \h9A, \h07, \h12, \h80, \hE2, \hEB, \h27, \hB2, \h75,
  \h09, \h83, \h2C, \h1A, \h1B, \h6E, \h5A, \hA0, \h52, \h3B, \hD6, \hB3, \h29, \hE3, \h2F, \h84,
  \h53, \hD1, \h00, \hED, \h20, \hFC, \hB1, \h5B, \h6A, \hCB, \hBE, \h39, \h4A, \h4C, \h58, \hCF,
  \hD0, \hEF, \hAA, \hFB, \h43, \h4D, \h33, \h85, \h45, \hF9, \h02, \h7F, \h50, \h3C, \h9F, \hA8,
  \h51, \hA3, \h40, \h8F, \h92, \h9D, \h38, \hF5, \hBC, \hB6, \hDA, \h21, \h10, \hFF, \hF3, \hD2,
  \hCD, \h0C, \h13, \hEC, \h5F, \h97, \h44, \h17, \hC4, \hA7, \h7E, \h3D, \h64, \h5D, \h19, \h73,
  \h60, \h81, \h4F, \hDC, \h22, \h2A, \h90, \h88, \h46, \hEE, \hB8, \h14, \hDE, \h5E, \h0B, \hDB,
  \hE0, \h32, \h3A, \h0A, \h49, \h06, \h24, \h5C, \hC2, \hD3, \hAC, \h62, \h91, \h95, \hE4, \h79,
  \hE7, \hC8, \h37, \h6D, \h8D, \hD5, \h4E, \hA9, \h6C, \h56, \hF4, \hEA, \h65, \h7A, \hAE, \h08,
  \hBA, \h78, \h25, \h2E, \h1C, \hA6, \hB4, \hC6, \hE8, \hDD, \h74, \h1F, \h4B, \hBD, \h8B, \h8A,
  \h70, \h3E, \hB5, \h66, \h48, \h03, \hF6, \h0E, \h61, \h35, \h57, \hB9, \h86, \hC1, \h1D, \h9E,
  \hE1, \hF8, \h98, \h11, \h69, \hD9, \h8E, \h94, \h9B, \h1E, \h87, \hE9, \hCE, \h55, \h28, \hDF,
  \h8C, \hA1, \h89, \h0D, \hBF, \hE6, \h42, \h68, \h41, \h99, \h2D, \h0F, \hB0, \h54, \hBB, \h16 >>

inv_s_box == <<
  \h52, \h09, \h6A, \hD5, \h30, \h36, \hA5, \h38, \hBF, \h40, \hA3, \h9E, \h81, \hF3, \hD7, \hFB,
  \h7C, \hE3, \h39, \h82, \h9B, \h2F, \hFF, \h87, \h34, \h8E, \h43, \h44, \hC4, \hDE, \hE9, \hCB,
  \h54, \h7B, \h94, \h32, \hA6, \hC2, \h23, \h3D, \hEE, \h4C, \h95, \h0B, \h42, \hFA, \hC3, \h4E,
  \h08, \h2E, \hA1, \h66, \h28, \hD9, \h24, \hB2, \h76, \h5B, \hA2, \h49, \h6D, \h8B, \hD1, \h25,
  \h72, \hF8, \hF6, \h64, \h86, \h68, \h98, \h16, \hD4, \hA4, \h5C, \hCC, \h5D, \h65, \hB6, \h92,
  \h6C, \h70, \h48, \h50, \hFD, \hED, \hB9, \hDA, \h5E, \h15, \h46, \h57, \hA7, \h8D, \h9D, \h84,
  \h90, \hD8, \hAB, \h00, \h8C, \hBC, \hD3, \h0A, \hF7, \hE4, \h58, \h05, \hB8, \hB3, \h45, \h06,
  \hD0, \h2C, \h1E, \h8F, \hCA, \h3F, \h0F, \h02, \hC1, \hAF, \hBD, \h03, \h01, \h13, \h8A, \h6B,
  \h3A, \h91, \h11, \h41, \h4F, \h67, \hDC, \hEA, \h97, \hF2, \hCF, \hCE, \hF0, \hB4, \hE6, \h73,
  \h96, \hAC, \h74, \h22, \hE7, \hAD, \h35, \h85, \hE2, \hF9, \h37, \hE8, \h1C, \h75, \hDF, \h6E,
  \h47, \hF1, \h1A, \h71, \h1D, \h29, \hC5, \h89, \h6F, \hB7, \h62, \h0E, \hAA, \h18, \hBE, \h1B,
  \hFC, \h56, \h3E, \h4B, \hC6, \hD2, \h79, \h20, \h9A, \hDB, \hC0, \hFE, \h78, \hCD, \h5A, \hF4,
  \h1F, \hDD, \hA8, \h33, \h88, \h07, \hC7, \h31, \hB1, \h12, \h10, \h59, \h27, \h80, \hEC, \h5F,
  \h60, \h51, \h7F, \hA9, \h19, \hB5, \h4A, \h0D, \h2D, \hE5, \h7A, \h9F, \h93, \hC9, \h9C, \hEF,
  \hA0, \hE0, \h3B, \h4D, \hAE, \h2A, \hF5, \hB0, \hC8, \hEB, \hBB, \h3C, \h83, \h53, \h99, \h61,
  \h17, \h2B, \h04, \h7E, \hBA, \h77, \hD6, \h26, \hE1, \h69, \h14, \h63, \h55, \h21, \h0C, \h7D >>

Sub(x) == s_box[x + 1]

InvSub(x) == inv_s_box[x + 1]

-----------------------------------------------------------------------------
(* The key schedule.                                                       *)

\* aes_init takes any other length for 16.
Nk == CASE Len(key) = 24 -> 6 [] Len(key) = 32 -> 8 [] OTHER -> 4

Nr == Nk + 6

\* Mutant of Rcon: one multiplication too many.
RconOneMore(i) ==
  LET R[n \in Nat] == IF n = 0 THEN 1 ELSE gmult(R[n - 1], 2)
  IN [k \in 0..3 |-> IF k = 0 THEN R[i] ELSE 0]

\* The round constant, x^(i - 1).
Rcon(i) ==
  LET R[n \in 1..i] == IF n = 1 THEN 1 ELSE gmult(R[n - 1], 2)
  IN [k \in 0..3 |-> IF k = 0 THEN R[i] ELSE 0]

rot_word(v) == [k \in 0..3 |-> v[(k + 1) % 4]]

sub_word(v) == [k \in 0..3 |-> Sub(v[k])]

\* Word i of the schedule, from those before it.
ScheduleWord(i) ==
  LET before == w[i - 1]
      tmp == IF i % Nk = 0 THEN coef_add(sub_word(rot_word(before)), Rcon(i \div Nk))
             ELSE IF Nk > 6 /\ i % Nk = 4 THEN sub_word(before)
             ELSE before
  IN IF i < Nk THEN [k \in 0..3 |-> key[4 * i + k + 1]]
     ELSE coef_add(w[i - Nk], tmp)

-----------------------------------------------------------------------------
(* The transformations: state[i][j] is row i, column j.                    *)

Matrix(f(_, _)) == [i \in 0..3 |-> [j \in 0..Nb - 1 |-> f(i, j)]]

Loaded(bytes) == Matrix(LAMBDA i, j : bytes[i + 4 * j + 1])

Stored(s) == [n \in 1..16 |-> s[(n - 1) % 4][(n - 1) \div 4]]

add_round_key(s, n) == Matrix(LAMBDA i, j : Xor(s[i][j], w[Nb * n + j][i]))

sub_bytes(s) == Matrix(LAMBDA i, j : Sub(s[i][j]))

inv_sub_bytes(s) == Matrix(LAMBDA i, j : InvSub(s[i][j]))

\* Row i is shifted i times.
shift_rows(s) == Matrix(LAMBDA i, j : s[i][(j + i) % Nb])

inv_shift_rows(s) == Matrix(LAMBDA i, j : s[i][(j - i) % Nb])

Columns(a, s) ==
  LET mixed == [j \in 0..Nb - 1 |-> coef_mult(a, [i \in 0..3 |-> s[i][j]])]
  IN Matrix(LAMBDA i, j : mixed[j][i])

Coefficients(a0, a1, a2, a3) == [k \in 0..3 |-> <<a0, a1, a2, a3>>[k + 1]]

mix_columns(s) == Columns(Coefficients(2, 1, 1, 3), s)

inv_mix_columns(s) == Columns(Coefficients(14, 9, 13, 11), s)

-----------------------------------------------------------------------------
(* aes_init, cipher, inv_cipher.                                           *)

\* One turn of the loops of key_expansion.
ExpandKey ==
  /\ aespc = "expand"
  /\ LET i == Cardinality(DOMAIN w)
     IN /\ w' = [n \in 0..i |-> IF n < i THEN w[n] ELSE ScheduleWord(i)]
        /\ aespc' = IF i + 1 = Nb * (Nr + 1) THEN "cipher" ELSE "expand"
  /\ UNCHANGED <<key, block, state, r, trail, out>>

CipherBegins ==
  /\ aespc = "cipher"
  /\ state' = add_round_key(Loaded(block), 0)
  /\ r' = 1
  /\ trail' = <<state'>>
  /\ aespc' = "rounds"
  /\ UNCHANGED <<key, block, w, out>>

CipherRound ==
  /\ aespc = "rounds"
  /\ r < Nr
  /\ state' = add_round_key(mix_columns(shift_rows(sub_bytes(state))), r)
  /\ r' = r + 1
  /\ trail' = Append(trail, state')
  /\ UNCHANGED <<key, block, w, out, aespc>>

\* The last round mixes no columns.
CipherEnds ==
  /\ aespc = "rounds"
  /\ r = Nr
  /\ state' = add_round_key(shift_rows(sub_bytes(state)), Nr)
  /\ out' = Stored(state')
  /\ aespc' = "inverse"
  /\ UNCHANGED <<key, block, w, r, trail>>

InverseBegins ==
  /\ aespc = "inverse"
  /\ state' = add_round_key(Loaded(out), Nr)
  /\ r' = Nr - 1
  /\ aespc' = "back"
  /\ UNCHANGED <<key, block, w, trail, out>>

\* Mutant of InverseRound: the columns are mixed before the key is added.
InverseMixesFirst ==
  /\ aespc = "back"
  /\ r >= 1
  /\ state' = add_round_key(inv_mix_columns(inv_sub_bytes(inv_shift_rows(state))), r)
  /\ r' = r - 1
  /\ UNCHANGED <<key, block, w, trail, out, aespc>>

InverseRound ==
  /\ aespc = "back"
  /\ r >= 1
  /\ state' = inv_mix_columns(add_round_key(inv_sub_bytes(inv_shift_rows(state)), r))
  /\ r' = r - 1
  /\ UNCHANGED <<key, block, w, trail, out, aespc>>

InverseEnds ==
  /\ aespc = "back"
  /\ r = 0
  /\ state' = add_round_key(inv_sub_bytes(inv_shift_rows(state)), 0)
  /\ aespc' = "end"
  /\ UNCHANGED <<key, block, w, r, trail, out>>

AesIdle ==
  /\ key = << >> /\ block = << >> /\ w = << >> /\ state = << >>
  /\ r = 0 /\ trail = << >> /\ out = << >> /\ aespc = "idle"

\* aes_init is called with the key k, for a block to come.
AesCall(k) ==
  /\ aespc = "idle"
  /\ key' = k
  /\ block' \in Blocks
  /\ aespc' = "expand"
  /\ UNCHANGED <<w, state, r, trail, out>>

AesNext ==
  \/ ExpandKey \/ CipherBegins \/ CipherRound \/ CipherEnds
  \/ InverseBegins \/ InverseRound \/ InverseEnds

-----------------------------------------------------------------------------
(* Properties.                                                             *)

\* The product of x and y as polynomials over GF(2), modulo
\* x^8 + x^4 + x^3 + x + 1, from the definition in FIPS 197.
Product(x, y) ==
  LET coefficient(n) == Cardinality({i \in 0..7 : n - i \in 0..7 /\ Bit(x, i) = 1 /\ Bit(y, n - i) = 1}) % 2
      power == <<1, 2, 4, 8, 16, 32, 64, 128, \h1B, \h36, \h6C, \hD8, \hAB, \h4D, \h9A>>
      sum[n \in 0..15] == IF n = 0 THEN 0
                          ELSE IF coefficient(n - 1) = 1 THEN Xor(sum[n - 1], power[n])
                          ELSE sum[n - 1]
  IN sum[15]

\* The S-box of FIPS 197: the inverse of x, and an affine map of its bits.
SubDefinition(x) ==
  LET b == IF x = 0 THEN 0 ELSE CHOOSE y \in Byte : Product(x, y) = 1
      bit(i) == (Bit(b, i) + Bit(b, (i + 4) % 8) + Bit(b, (i + 5) % 8)
                 + Bit(b, (i + 6) % 8) + Bit(b, (i + 7) % 8) + Bit(\h63, i)) % 2
  IN bit(0) + 2 * bit(1) + 4 * bit(2) + 8 * bit(3)
     + 16 * bit(4) + 32 * bit(5) + 64 * bit(6) + 128 * bit(7)

AesTypeOK ==
  /\ aespc \in {"idle", "expand", "cipher", "rounds", "inverse", "back", "end"}
  /\ r \in 0..14
  /\ \A n \in DOMAIN w : w[n] \in [0..3 -> Byte]
  /\ state # << >> => state \in [0..3 -> [0..3 -> Byte]]

\* A round of inv_cipher undoes the one of cipher: before round r it has what
\* cipher had in the middle of the round after.  At the end it has the block.
RoundsUndo ==
  /\ aespc = "back" => inv_sub_bytes(inv_shift_rows(state)) = trail[r + 1]
  /\ aespc = "end" => Stored(state) = block

\* The tables and the arithmetic agree with their definitions, for the bytes of
\* the block, and key expansion and cipher with the examples of FIPS 197.
CipherExact ==
  /\ aespc = "cipher" => \A n \in 1..16 :
       LET x == block[n]
       IN /\ Sub(x) = SubDefinition(x)
          /\ InvSub(Sub(x)) = x
          /\ \A b \in DOMAIN Multiples : Multiples[b][x] = Product(x, b)
  /\ out # << >> => \A known \in KnownCiphers :
       known[1] = key /\ known[2] = block => known[3] = out

=============================================================================
