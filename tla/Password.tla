----------------------------- MODULE Password -----------------------------
(***************************************************************************)
(* _pwd_init of log/log_file.c: the digest of the password, by MD5Data, is *)
(* the key of the cipher, always of 16 bytes.  Besides, the digest is used *)
(* for files and the cipher with any key of aes_init.                      *)
(***************************************************************************)
EXTENDS Md5, Aes

CONSTANT Passwords   \* the messages that are passwords

passwordVars == <<md5Vars, aesVars>>

PasswordInit ==
  /\ Md5Idle \/ Md5Call
  /\ AesIdle

\* aes_init is called with a key of its own.
InitKey ==
  /\ md5pc = "idle"
  /\ \E k \in AesKeys : AesCall(k)
  /\ UNCHANGED md5Vars

PwdInit ==
  /\ md5pc = "done"
  /\ message \in Passwords
  /\ text = Unset /\ digest # Unset
  /\ AesCall(digest)
  /\ UNCHANGED md5Vars

PasswordNext ==
  \/ Md5Next /\ UNCHANGED aesVars
  \/ AesNext /\ UNCHANGED md5Vars
  \/ InitKey
  \/ PwdInit

PasswordSpec == PasswordInit /\ [][PasswordNext]_passwordVars

PasswordTypeOK == Md5TypeOK /\ AesTypeOK

\* Digests and ciphertexts are those of the standards, RFC 1321 and FIPS 197, so
\* that any other implementation can read the log of a program that knows the
\* password.
StandardsExact == DigestExact /\ CipherExact

=============================================================================
