-------------------------- MODULE MCBusinessBooks --------------------------
(* An instance of BusinessBooks for TLC: two businesses, books with one row  *)
(* of each kind, and requests of every kind, any three of which overlap.     *)
EXTENDS BusinessBooks

Line(cents, category) == [cents |-> cents, category |-> category]
MCOwnerOf  == [cafe |-> "ann", shop |-> "bob"]
MCProfile  == [cafe |-> [score |-> 700, limit |-> 50, outstanding |-> 10, blacklisted |-> FALSE]]

MCOpening ==
  [invoices |-> [inv |-> [biz |-> "cafe", number |-> 1, total |-> 3, paid |-> 0, status |-> "draft"]],
   lines |-> [x \in {<<"inv", 1>>} |-> Line(3, "none")],
   batches |-> [batch |-> [biz |-> "cafe", total |-> 4, count |-> 1, by |-> "ann",
                           status |-> "draft", approver |-> "none"]],
   items |-> [x \in {<<"batch", 1>>} |-> Line(4, "none")],
   taxPots |-> [vat |-> [biz |-> "cafe", pot |-> "pot", type |-> "vat", percent |-> 5]],
   docs |-> [lease |-> [biz |-> "cafe", name |-> "lease", type |-> "contract", expires |-> <<20>>, archived |-> FALSE]],
   categories |-> [travel |-> [biz |-> "none", name |-> "travel", system |-> TRUE],
                   rent |-> [biz |-> "cafe", name |-> "rent", system |-> FALSE]],
   labels |-> [l1 |-> [tx |-> "tx1", category |-> "none", deductible |-> TRUE]],
   loans |-> [x \in {} |-> 0]]

MCForm ==
  [bill |-> [op |-> "createInvoice", biz |-> "cafe", total |-> 5, lines |-> <<Line(2, "rent"), Line(3, "none")>>],
   billToo |-> [op |-> "createInvoice", biz |-> "cafe", total |-> 1, lines |-> <<>>],
   billShop |-> [op |-> "createInvoice", biz |-> "shop", total |-> 1, lines |-> <<>>],
   edit |-> [op |-> "updateInvoice", id |-> "inv", total |-> 0],
   send |-> [op |-> "sendInvoice", id |-> "inv"],
   void |-> [op |-> "cancelInvoice", id |-> "inv"],
   pay2 |-> [op |-> "recordPayment", id |-> "inv", cents |-> 2],
   pay3 |-> [op |-> "recordPayment", id |-> "inv", cents |-> 3],
   refund |-> [op |-> "recordPayment", id |-> "inv", cents |-> -1],
   payBill |-> [op |-> "recordPayment", id |-> "bill", cents |-> 5],
   wages |-> [op |-> "createBatch", biz |-> "cafe", user |-> "ann", items |-> <<Line(1, "rent"), Line(2, "none")>>],
   gifts |-> [op |-> "createBatch", biz |-> "shop", user |-> "bob", items |-> <<Line(2, "none"), Line(-1, "none")>>],
   approve |-> [op |-> "approveBatch", id |-> "batch", user |-> "ann"],
   approveWages |-> [op |-> "approveBatch", id |-> "wages", user |-> "bob"],
   process |-> [op |-> "processBatch", id |-> "batch"],
   processToo |-> [op |-> "processBatch", id |-> "batch"],
   addTax |-> [op |-> "createTaxPot", biz |-> "cafe", pot |-> "pot", type |-> "pension", percent |-> 1],
   addVat |-> [op |-> "createTaxPot", biz |-> "cafe", pot |-> "pot", type |-> "vat", percent |-> 1],
   setVat |-> [op |-> "updateTaxPot", id |-> "vat", percent |-> 9],
   dropVat |-> [op |-> "deleteTaxPot", id |-> "vat"],
   addDoc |-> [op |-> "createDocument", biz |-> "cafe", name |-> "licence", type |-> "trade_license", expires |-> <<>>],
   nameDoc |-> [op |-> "updateDocument", id |-> "lease", name |-> "old lease"],
   dropDoc |-> [op |-> "archiveDocument", id |-> "lease"],
   addCat |-> [op |-> "createCategory", biz |-> "shop", name |-> "rent"],
   nameCat |-> [op |-> "updateCategory", id |-> "rent", name |-> "travel"],
   dropCat |-> [op |-> "deleteCategory", id |-> "rent"],
   tag |-> [op |-> "label", tx |-> "tx1", category |-> "rent", deductible |-> TRUE],
   tagShop |-> [op |-> "label", tx |-> "tx2", category |-> "addCat", deductible |-> TRUE],
   retag |-> [op |-> "updateLabel", tx |-> "tx1", category |-> "travel", deductible |-> FALSE],
   untag |-> [op |-> "deleteLabel", tx |-> "tx1"],
   borrow |-> [op |-> "applyLoan", biz |-> "cafe", cents |-> 30, days |-> 30],
   borrowToo |-> [op |-> "applyLoan", biz |-> "cafe", cents |-> 40, days |-> 30]]
MCRequests == DOMAIN MCForm
=============================================================================
