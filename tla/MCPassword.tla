----------------------------- MODULE MCPassword -----------------------------
(* Values for the constants of Password, for TLC. *)
EXTENDS Password

\* RFC 1321, A.5: "", "a", "abc", "message digest", the letters and digits, and
\* eight times the digits.
MCKnownDigests == {
   <<<<>>,
     <<212, 29, 140, 217, 143, 0, 178, 4, 233, 128, 9, 152, 236, 248, 66,
     126>>>>,
   <<<<97>>,
     <<12, 193, 117, 185, 192, 241, 182, 168, 49, 195, 153, 226, 105, 119, 38,
     97>>>>,
   <<<<97, 98, 99>>,
     <<144, 1, 80, 152, 60, 210, 79, 176, 214, 150, 63, 125, 40, 225, 127,
     114>>>>,
   <<<<109, 101, 115, 115, 97, 103, 101, 32, 100, 105, 103, 101, 115, 116>>,
     <<249, 107, 105, 125, 124, 183, 147, 141, 82, 90, 47, 49, 170, 241, 97,
     208>>>>,
   <<<<65, 66, 67, 68, 69, 70, 71, 72, 73, 74, 75, 76, 77, 78, 79, 80, 81, 82,
     83, 84, 85, 86, 87, 88, 89, 90, 97, 98, 99, 100, 101, 102, 103, 104, 105,
     106, 107, 108, 109, 110, 111, 112, 113, 114, 115, 116, 117, 118, 119,
     120, 121, 122, 48, 49, 50, 51, 52, 53, 54, 55, 56, 57>>,
     <<209, 116, 171, 152, 210, 119, 217, 245, 165, 97, 28, 44, 159, 65, 157,
     159>>>>,
   <<<<49, 50, 51, 52, 53, 54, 55, 56, 57, 48, 49, 50, 51, 52, 53, 54, 55, 56,
     57, 48, 49, 50, 51, 52, 53, 54, 55, 56, 57, 48, 49, 50, 51, 52, 53, 54,
     55, 56, 57, 48, 49, 50, 51, 52, 53, 54, 55, 56, 57, 48, 49, 50, 51, 52,
     53, 54, 55, 56, 57, 48, 49, 50, 51, 52, 53, 54, 55, 56, 57, 48, 49, 50,
     51, 52, 53, 54, 55, 56, 57, 48>>,
     <<87, 237, 244, 162, 43, 227, 201, 85, 172, 73, 218, 46, 33, 7, 182,
     122>>>>}

\* The password of the sample program, "aaa".
MCPasswords == {<<97, 97, 97>>}

\* And messages that end around a block and around the room for the count.
MCMessages ==
  {known[1] : known \in MCKnownDigests} \cup MCPasswords
  \cup {[i \in 1..n |-> (7 * i) % 256] : n \in {55, 56, 64, 119, 120, 200}}

\* FIPS 197, appendices B and C; and the beginning of a record with the digest
\* of the sample's password as the key, from the OpenSSL tools.
MCKnownCiphers == {
   <<<<43, 126, 21, 22, 40, 174, 210, 166, 171, 247, 21, 136, 9, 207, 79, 60>>,
     <<50, 67, 246, 168, 136, 90, 48, 141, 49, 49, 152, 162, 224, 55, 7, 52>>,
     <<57, 37, 132, 29, 2, 220, 9, 251, 220, 17, 133, 151, 25, 106, 11, 50>>>>,
   <<<<0, 1, 2, 3, 4, 5, 6, 7, 8, 9, 10, 11, 12, 13, 14, 15>>,
     <<0, 17, 34, 51, 68, 85, 102, 119, 136, 153, 170, 187, 204, 221, 238,
     255>>,
     <<105, 196, 224, 216, 106, 123, 4, 48, 216, 205, 183, 128, 112, 180, 197,
     90>>>>,
   <<<<0, 1, 2, 3, 4, 5, 6, 7, 8, 9, 10, 11, 12, 13, 14, 15, 16, 17, 18, 19,
     20, 21, 22, 23>>,
     <<0, 17, 34, 51, 68, 85, 102, 119, 136, 153, 170, 187, 204, 221, 238,
     255>>,
     <<221, 169, 124, 164, 134, 76, 223, 224, 110, 175, 112, 160, 236, 13,
     113, 145>>>>,
   <<<<0, 1, 2, 3, 4, 5, 6, 7, 8, 9, 10, 11, 12, 13, 14, 15, 16, 17, 18, 19,
     20, 21, 22, 23, 24, 25, 26, 27, 28, 29, 30, 31>>,
     <<0, 17, 34, 51, 68, 85, 102, 119, 136, 153, 170, 187, 204, 221, 238,
     255>>,
     <<142, 162, 183, 202, 81, 103, 69, 191, 234, 252, 73, 144, 75, 73, 96,
     137>>>>,
   <<<<71, 188, 229, 199, 79, 88, 159, 72, 103, 219, 213, 126, 156, 169, 248,
     8>>,
     <<91, 69, 82, 82, 79, 82, 93, 46, 46, 46, 48, 45, 45, 83, 111, 0>>,
     <<135, 195, 221, 30, 31, 16, 191, 130, 132, 12, 102, 78, 182, 210, 54,
     175>>>>}

MCAesKeys == {known[1] : known \in MCKnownCiphers}

\* And blocks that contain every byte once.
MCBlocks ==
  {known[2] : known \in MCKnownCiphers}
  \cup {[i \in 1..16 |-> 16 * k + i - 1] : k \in 0..15}

=============================================================================
