------------------------------ MODULE MCParts -------------------------------
(* Messages with every kind of part that the walk tells apart *)
EXTENDS Mime

Leaf(type, disposition, name, content) == Part(type, disposition, name, content, 300)

plain(content)  == Leaf(<<"text", "plain">>, None, None, content)
html            == Leaf(<<"text", "html">>, None, None, "html")
footer          == Leaf(<<"text", "plain">>, "inline", None, "footer")
calendar        == Leaf(<<"text", "calendar">>, "inline", None, "invitation")
patch(how)      == Leaf(<<"text", "x-patch">>, how, "p", "patch")
picture         == Leaf(<<"image", "png">>, "inline", None, "picture")
document(name)  == Leaf(<<"application", "pdf">>, "attachment", name, "document")
note(content)   == Leaf(<<"text", "plain">>, "attachment", "note", content)
smime(how)      == Leaf(<<"application", "pkcs7-signature">>, how, None, "smime")
signature       == Leaf(<<"application", "pgp-signature">>, None, None, "signature")
version         == Leaf(<<"application", "pgp-encrypted">>, None, None, "version")
secret          == Leaf(<<"application", "octet-stream">>, "inline", None, "secret")

usual == Multipart(<<Multipart(<<plain("a"), html>>), picture, document(None)>>)

unlisted ==
  Signed(<<Multipart(<<plain("j"), patch("form-data"), smime("form-data")>>), smime(None)>>,
         <<"error">>)

MCRoots ==
  {\* parts without a name, and an alternative
   usual,
   \* two parts with the same name, and one that is not listed
   Multipart(<<plain("b"), note("c"), footer, note("d")>>),
   \* messages in messages
   Multipart(<<plain("e"),
               MessagePart("s", None, Multipart(<<note("f"),
                 plain("g"), calendar, MessagePart("t", None, plain("h"))>>))>>),
   \* encrypted, and signed: other parts, in other places, after decryption
   Multipart(<<Encrypted(<<version, secret>>,
                 Multipart(<<plain("i"), document(None), picture>>), <<"good">>), footer>>),
   \* signed
   Signed(<<Multipart(<<patch("inline"), patch(None)>>), signature>>,
          <<"red", "good">>),
   \* a patch and a signature that are not listed, and yet give the flag
   unlisted}
=============================================================================
